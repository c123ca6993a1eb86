---------------------------- MODULE FailoverProofs ----------------------------
(***************************************************************************)
(* Proofs about candidate selection, slots and the failover loops          *)
(* (Failover), for any number of targets, tiers, limits and requests.      *)
(*                                                                         *)
(* None of the properties is inductive.  What they rest on is a shape of   *)
(* each request thread, ReqOK, that no other thread can disturb: which     *)
(* slots it holds at which step, that the candidates ahead are distinct    *)
(* and untried, and that they are in the order of their tiers.             *)
(***************************************************************************)
EXTENDS Failover, FiniteSetTheorems, SequenceTheorems, TLAPS

\* The steps at which a request holds no slot.
Empty == Ended \cup {"ask", "select", "hedge", "loop", "record"}

\* What a request holds at each of its steps.
Shape(q) ==
    /\ q.pc \in Empty => q.at = <<>>
    /\ q.pc = "ask" => q.next \in Targets
    /\ q.pc \in {"ask", "select"} => q.cand = <<>> /\ q.tried = {} /\ q.kind # "none"
    /\ q.pc = "loop" => q.kind # "hedged"
    /\ q.pc \in {"hedge", "hedge2"} => q.kind = "hedged" /\ Len(q.cand) >= 2
    /\ q.pc = "hedge2" => q.at = <<>> \/ q.at = <<q.cand[1]>>
    /\ q.pc = "call" => \/ q.kind = "hedged" /\ Len(q.cand) >= 2
                           /\ q.at = <<q.cand[1], q.cand[2]>>
                        \/ q.kind # "hedged" /\ Len(q.at) = 1
    /\ q.pc \in {"release", "clear"} =>
          Slotted(q) /\ (Len(q.at) = 1 \/ (Len(q.at) = 2 /\ q.at[1] # q.at[2]))

\* The candidates ahead are distinct, at most N, and were not called yet.
Turns(q) ==
    /\ Len(q.cand) <= N
    /\ \A i, j \in 1 .. Len(q.cand) : i # j => q.cand[i] # q.cand[j]
    /\ \A i \in 1 .. Len(q.cand) : q.cand[i] \notin q.tried
    /\ q.pc = "call" /\ q.kind # "hedged" =>
          /\ q.at[1] \notin q.tried
          /\ \A i \in 1 .. Len(q.cand) : q.cand[i] # q.at[1]

\* Unless the breaker admitted nobody, or was not asked, the candidates ahead
\* are in the order of their tiers.
Tiered(q) ==
    q.ok # {} =>
      /\ \A i, j \in 1 .. Len(q.cand) : i < j => Prio[q.cand[i]] <= Prio[q.cand[j]]
      /\ q.pc = "call" /\ q.kind # "hedged" =>
            \A i \in 1 .. Len(q.cand) : Prio[q.at[1]] <= Prio[q.cand[i]]

ReqOK(q) == q \in Request /\ Shape(q) /\ Turns(q) /\ Tiered(q)

\* The inductive invariant.
FInv ==
    /\ slot \in [Targets -> Int]
    /\ req \in [Requests -> Request]
    /\ \A r \in Requests : ReqOK(req[r])
    /\ SlotsReturn

\* The slots a request holds, and the one it is about to clear.
Held(q) ==
    IF ~Slotted(q) THEN {}
    ELSE IF q.pc \in {"hedge2", "call", "release"} THEN Range(q.at)
    ELSE IF q.pc = "clear" THEN Range(Tail(q.at))
    ELSE {}

Clears(q) == IF q.pc = "clear" THEN {Head(q.at)} ELSE {}

-----------------------------------------------------------------------------
(* Sequences                                                                 *)

\* What the short sequences of slots hold.
LEMMA ShortRange ==
    ASSUME NEW s \in Seq(Targets)
    PROVE  /\ s = <<>> => Range(s) = {}
           /\ Len(s) = 1 => Range(s) = {s[1]} /\ Range(Tail(s)) = {} /\ Head(s) = s[1]
           /\ Len(s) = 2 => /\ Range(s) = {s[1], s[2]} /\ Range(Tail(s)) = {s[2]}
                            /\ Head(s) = s[1] /\ Len(Tail(s)) = 1 /\ Tail(s) \in Seq(Targets)
                            /\ Tail(s)[1] = s[2]
           /\ \A i \in 1 .. Len(s) : s[i] \in Targets
  <1>1. s = <<>> => Range(s) = {}
    BY DEF Range
  <1>2. ASSUME Len(s) = 1
        PROVE  Range(s) = {s[1]} /\ Range(Tail(s)) = {} /\ Head(s) = s[1]
    <2>1. s # <<>> /\ DOMAIN s = 1 .. 1
      <3>1. DOMAIN s = 1 .. Len(s)
        BY LenProperties
      <3>2. s # <<>>
        BY <1>2, EmptySeq
      <3>3. QED
        BY <1>2, <3>1, <3>2
    <2>2. /\ Tail(s) \in Seq(Targets) /\ Len(Tail(s)) = 0 /\ Head(s) = s[1]
      BY <1>2, <2>1
    <2>3. Tail(s) = <<>>
      BY <2>2, EmptySeq
    <2>4. Range(s) = {s[1]}
      BY <2>1 DEF Range
    <2>5. Range(Tail(s)) = {}
      BY <2>3 DEF Range
    <2>6. QED
      BY <2>2, <2>4, <2>5
  <1>3. ASSUME Len(s) = 2
        PROVE  /\ Range(s) = {s[1], s[2]} /\ Range(Tail(s)) = {s[2]}
               /\ Head(s) = s[1] /\ Len(Tail(s)) = 1 /\ Tail(s) \in Seq(Targets)
               /\ Tail(s)[1] = s[2]
    <2>1. s # <<>> /\ DOMAIN s = 1 .. 2
      BY <1>3
    <2>2. /\ Len(Tail(s)) = 1 /\ Tail(s) \in Seq(Targets) /\ Head(s) = s[1]
          /\ Tail(s)[1] = s[2]
      BY <1>3, <2>1
    <2>3. DOMAIN Tail(s) = 1 .. 1
      <3>1. DOMAIN Tail(s) = 1 .. Len(Tail(s))
        BY <2>2, LenProperties
      <3>2. QED
        BY <2>2, <3>1
    <2>4. Range(s) = {s[1], s[2]}
      BY <2>1 DEF Range
    <2>5. Range(Tail(s)) = {s[2]}
      <3> DEFINE t == Tail(s)
      <3>1. DOMAIN t = 1 .. 1 /\ t[1] = s[2]
        BY <2>2, <2>3
      <3> HIDE DEF t
      <3>2. Range(t) = {s[2]}
        BY <3>1 DEF Range
      <3>3. QED
        BY <3>2 DEF t
    <2>6. QED
      BY <2>2, <2>4, <2>5
  <1>4. QED
    BY <1>1, <1>2, <1>3

\* A second element.
LEMMA AppendTwo ==
    ASSUME NEW t \in Targets, NEW u \in Targets
    PROVE  Append(<<t>>, u) = <<t, u>>
  <1> DEFINE s == Append(<<t>>, u)
  <1>1. <<t>> \in Seq(Targets) /\ Len(<<t>>) = 1 /\ <<t>>[1] = t
    OBVIOUS
  <1>2. s \in Seq(Targets) /\ Len(s) = 2 /\ s[1] = t /\ s[2] = u
    BY <1>1, AppendProperties
  <1>3. <<t, u>> \in Seq(Targets) /\ Len(<<t, u>>) = 2 /\ <<t, u>>[1] = t /\ <<t, u>>[2] = u
    OBVIOUS
  <1> HIDE DEF s
  <1>4. \A i \in 1 .. Len(s) : s[i] = <<t, u>>[i]
    BY <1>2, <1>3
  <1>5. s = <<t, u>>
    BY <1>2, <1>3, <1>4, SeqEqual
  <1>6. QED
    BY <1>5 DEF s

\* A sequence without its first elements.
LEMMA TailElems ==
    ASSUME NEW s \in Seq(Targets), s # <<>>
    PROVE  /\ Tail(s) \in Seq(Targets) /\ Len(Tail(s)) = Len(s) - 1
           /\ Head(s) = s[1] /\ s[1] \in Targets /\ Len(s) >= 1
           /\ \A i \in 1 .. Len(s) - 1 : Tail(s)[i] = s[i + 1]
  OBVIOUS

\* What is left when the first two are taken.
LEMMA RestElems ==
    ASSUME NEW s \in Seq(Targets), Len(s) >= 2
    PROVE  /\ SubSeq(s, 3, Len(s)) \in Seq(Targets)
           /\ Len(SubSeq(s, 3, Len(s))) = Len(s) - 2
           /\ \A i \in 1 .. Len(s) - 2 : SubSeq(s, 3, Len(s))[i] = s[i + 2]
  <1>1. Len(s) \in Nat
    OBVIOUS
  <1>2. \A i \in 3 .. Len(s) : s[i] \in Targets
    BY <1>1
  <1>3. QED
    <2>1. /\ SubSeq(s, 3, Len(s)) \in Seq(Targets)
          /\ Len(SubSeq(s, 3, Len(s))) = IF 3 <= Len(s) THEN Len(s) - 3 + 1 ELSE 0
          /\ \A i \in 1 .. Len(s) - 3 + 1 : SubSeq(s, 3, Len(s))[i] = s[3 + i - 1]
      BY <1>1, <1>2, SubSeqProperties
    <2> DEFINE t == SubSeq(s, 3, Len(s))
               n == Len(s)
    <2> HIDE DEF t, n
    <2>2. n \in Nat /\ n >= 2 /\ Len(t) = IF 3 <= n THEN n - 3 + 1 ELSE 0
      BY <1>1, <2>1 DEF t, n
    <2>3. Len(t) = n - 2 /\ n - 3 + 1 = n - 2 /\ \A i \in 1 .. n - 2 : 3 + i - 1 = i + 2
      BY <2>2
    <2>4. QED
      BY <2>1, <2>3 DEF t, n

\* The orderings of a set of targets (SetToSeqs).
LEMMA OrderingElems ==
    ASSUME NEW S \in SUBSET Targets, NEW s \in SetToSeqs(S)
    PROVE  /\ s \in Seq(Targets) /\ Len(s) <= N
           /\ \A i \in 1 .. Len(s) : s[i] \in S
           /\ \A i, j \in 1 .. Len(s) : i # j => s[i] # s[j]
           /\ DOMAIN s = 1 .. Len(s)
  <1>1. /\ IsFiniteSet(Targets) /\ Cardinality(Targets) = N
    BY FailoverAssumption, FS_Interval DEF Targets
  <1>2. Cardinality(S) \in Nat /\ Cardinality(S) <= N
    BY <1>1, FS_Subset, FS_CardinalityType
  <1>3. /\ s \in [1 .. Cardinality(S) -> S]
        /\ \A i, j \in 1 .. Cardinality(S) : i # j => s[i] # s[j]
    BY DEF SetToSeqs
  <1>4. s \in Seq(Targets) /\ Len(s) = Cardinality(S)
    BY <1>2, <1>3
  <1>5. QED
    BY <1>2, <1>3, <1>4

-----------------------------------------------------------------------------
(* One request: every step leads from ReqOK to ReqOK, and Rank falls.        *)

\* The fields of a request.
LEMMA ReqFields ==
    ASSUME NEW q \in Request
    PROVE  /\ q.pc \in Steps
           /\ q.kind \in {"sync", "stream", "hedged", "direct", "none"}
           /\ q.next \in 0 .. N /\ q.ok \in SUBSET Targets
           /\ q.cand \in Seq(Targets) /\ q.full \in BOOLEAN /\ q.at \in Seq(Targets)
           /\ q.built \in BOOLEAN /\ q.last \in Seq(Targets) /\ q.tried \in SUBSET Targets
  BY DEF Request

\* Rank, step by step.
LEMMA RankOf ==
    ASSUME NEW q
    PROVE  /\ q.pc = "ask" => Rank(q) = 20 * (N + 1) + (N + 1 - q.next)
           /\ q.pc = "select" => Rank(q) = 20 * (N + 1)
           /\ q.pc = "hedge" => Rank(q) = 20 * Len(q.cand) + 19
           /\ q.pc = "hedge2" => Rank(q) = 20 * Len(q.cand) + 18
           /\ q.pc = "call" => Rank(q) = 20 * Len(q.cand) + 17
           /\ q.pc = "release" => Rank(q) = 20 * Len(q.cand) + 2 + 2 * Len(q.at)
           /\ q.pc = "clear" => Rank(q) = 20 * Len(q.cand) + 1 + 2 * Len(q.at)
           /\ q.pc = "record" => Rank(q) = 20 * Len(q.cand) + 1
           /\ q.pc = "loop" => Rank(q) = 20 * Len(q.cand)
           /\ q.pc \in Ended => Rank(q) = -1
  BY DEF Rank, Ended

\* A request at rest holds nothing and has nothing ahead.
LEMMA RestingOK ==
    ASSUME NEW pc \in Ended
    PROVE  /\ ReqOK(Resting(pc)) /\ Held(Resting(pc)) = {} /\ Clears(Resting(pc)) = {}
           /\ Resting(pc).pc = pc
  <1>1. <<>> \in Seq(Targets) /\ Len(<<>>) = 0 /\ 0 \in 0 .. N /\ N >= 0
    BY FailoverAssumption, EmptySeq
  <1>2. Resting(pc) \in Request
    BY <1>1 DEF Resting, Request, Steps
  <1>3. Shape(Resting(pc))
    BY DEF Shape, Resting, Ended
  <1>4. Turns(Resting(pc)) /\ Tiered(Resting(pc))
    BY <1>1 DEF Turns, Tiered, Resting
  <1>5. QED
    BY <1>2, <1>3, <1>4 DEF ReqOK, Held, Clears, Resting, Ended

\* A request that arrives.
LEMMA ArrivedOK ==
    ASSUME NEW k \in {"sync", "stream", "hedged", "direct"}
    PROVE  LET p == [Resting("ask") EXCEPT !.kind = k, !.next = 1]
           IN  ReqOK(p) /\ Held(p) = {} /\ Clears(p) = {}
  <1> DEFINE z == Resting("ask")
             p == [z EXCEPT !.kind = k, !.next = 1]
  <1>1. <<>> \in Seq(Targets) /\ Len(<<>>) = 0 /\ 0 \in 0 .. N /\ 1 \in 0 .. N /\ N >= 0
        /\ 1 \in Targets
    BY FailoverAssumption, EmptySeq DEF Targets
  <1>2. /\ z \in Request /\ z.pc = "ask" /\ z.cand = <<>> /\ z.at = <<>> /\ z.tried = {}
        /\ z.ok = {}
    BY <1>1 DEF Resting, Request, Steps
  <1> HIDE DEF z
  <1>3. p \in Request
    BY <1>1, <1>2 DEF Request
  <1>4. /\ p.pc = "ask" /\ p.next = 1 /\ p.cand = <<>> /\ p.at = <<>> /\ p.tried = {}
        /\ p.ok = {} /\ p.kind = k
    BY <1>2 DEF Request
  <1> HIDE DEF p
  <1>5. Shape(p)
    BY <1>1, <1>4 DEF Shape, Ended, Empty
  <1>6. Turns(p) /\ Tiered(p)
    BY <1>1, <1>4 DEF Turns, Tiered
  <1>7. Held(p) = {} /\ Clears(p) = {}
    BY <1>4 DEF Held, Clears
  <1>8. QED
    BY <1>3, <1>5, <1>6, <1>7 DEF ReqOK, p, z

\* The tier order of a sequence of candidates.
TierOrder(s) == \A i, j \in 1 .. Len(s) : i < j => Prio[s[i]] <= Prio[s[j]]

\* What selection makes of a request, whatever the order it settles on.
LEMMA BegunOK ==
    ASSUME NEW q \in Request, q.at = <<>>, q.tried = {}, q.kind # "none",
           NEW s \in Seq(Targets), Len(s) <= N,
           \A i, j \in 1 .. Len(s) : i # j => s[i] # s[j],
           q.ok # {} => TierOrder(s),
           NEW p \in Begun(q, s)
    PROVE  /\ ReqOK(p) /\ Held(p) = {} /\ Clears(p) = {}
           /\ p.pc \in Ended \/ Rank(p) < 20 * (N + 1)
  <1>0. N \in Nat /\ Len(s) \in Nat
    BY FailoverAssumption, LenProperties
  <1>1. CASE p = Resting("answered")
    BY <1>1, RestingOK DEF Ended
  <1>2. ASSUME NEW a \in {"loop", "hedge"}, NEW k \in {"sync", "stream", "hedged", "direct"},
               a = "hedge" => k = "hedged" /\ Len(s) >= 2,
               a = "loop" => k # "hedged",
               p = [q EXCEPT !.cand = s, !.full = (s # <<>>), !.pc = a, !.kind = k]
        PROVE  /\ ReqOK(p) /\ Held(p) = {} /\ Clears(p) = {}
               /\ p.pc \in Ended \/ Rank(p) < 20 * (N + 1)
    <2>1. /\ p \in Request /\ p.cand = s /\ p.pc = a /\ p.kind = k /\ p.at = <<>>
          /\ p.tried = {} /\ p.ok = q.ok
      BY <1>2 DEF Request, Steps
    <2>2. Shape(p)
      BY <1>2, <2>1 DEF Shape, Empty, Ended
    <2>3. Turns(p) /\ Tiered(p)
      BY <1>2, <2>1 DEF Turns, Tiered, TierOrder
    <2>4. Rank(p) < 20 * (N + 1)
      <3>1. Rank(p) = IF a = "loop" THEN 20 * Len(s) ELSE 20 * Len(s) + 19
        BY <1>2, <2>1, RankOf
      <3>2. QED
        BY <1>0, <3>1
    <2>5. Held(p) = {} /\ Clears(p) = {}
      BY <1>2, <2>1 DEF Held, Clears
    <2>6. QED
      BY <2>1, <2>2, <2>3, <2>4, <2>5 DEF ReqOK
  <1> DEFINE c == [q EXCEPT !.cand = s, !.full = (s # <<>>)]
  <1>3. CASE p = [c EXCEPT !.pc = "loop", !.kind = Unhedged(q.kind)]
    <2> DEFINE k == Unhedged(q.kind)
    <2>1. k \in {"sync", "stream", "hedged", "direct"} /\ k # "hedged"
      BY ReqFields DEF Unhedged
    <2> HIDE DEF k
    <2>2. p = [c EXCEPT !.pc = "loop", !.kind = k]
      BY <1>3 DEF k
    <2>3. p = [q EXCEPT !.cand = s, !.full = (s # <<>>), !.pc = "loop", !.kind = k]
      BY <2>2 DEF Request
    <2>4. QED
      BY <1>2, <2>1, <2>3
  <1>4. CASE q.kind = "hedged" /\ Len(s) >= 2 /\ p = [c EXCEPT !.pc = "hedge"]
    <2>1. p = [q EXCEPT !.cand = s, !.full = (s # <<>>), !.pc = "hedge", !.kind = "hedged"]
      BY <1>4 DEF Request
    <2>2. QED
      BY <1>2, <1>4, <2>1
  <1>5. QED
    BY <1>1, <1>3, <1>4 DEF Begun

\* One question to the breaker (Ask).
LEMMA AskOK ==
    ASSUME NEW q, ReqOK(q), q.pc = "ask", NEW o \in SUBSET Targets, NEW p,
           p = [q EXCEPT !.ok = o, !.next = IF q.next = N THEN 0 ELSE q.next + 1,
                         !.pc = IF q.next = N THEN "select" ELSE "ask"]
    PROVE  /\ ReqOK(p) /\ Held(p) = Held(q) /\ Clears(p) = Clears(q) /\ Rank(p) < Rank(q)
  <1> DEFINE n == IF q.next = N THEN 0 ELSE q.next + 1
             a == IF q.next = N THEN "select" ELSE "ask"
  <1>1. /\ N \in Nat \ {0} /\ q \in Request /\ q.next \in 1 .. N /\ q.cand = <<>>
        /\ q.tried = {} /\ q.at = <<>> /\ Len(<<>>) = 0 /\ q.kind # "none"
    BY FailoverAssumption, EmptySeq DEF ReqOK, Shape, Targets, Empty
  <1>2. n \in 0 .. N /\ a \in {"ask", "select"} /\ (a = "ask" => n \in Targets)
    BY <1>1 DEF Targets
  <1>3. a = "ask" => n = q.next + 1
    OBVIOUS
  <1>4. p = [q EXCEPT !.ok = o, !.next = n, !.pc = a]
    OBVIOUS
  <1> HIDE DEF n, a
  <1>5. /\ p \in Request /\ p.pc = a /\ p.next = n /\ p.cand = <<>> /\ p.tried = {}
        /\ p.at = <<>> /\ p.kind = q.kind
    BY <1>1, <1>2, <1>4 DEF Request, Steps
  <1>6. Shape(p)
    BY <1>1, <1>2, <1>5 DEF Shape, Empty
  <1>7. Turns(p) /\ Tiered(p)
    BY <1>1, <1>2, <1>5 DEF Turns, Tiered
  <1>8. Rank(p) < Rank(q)
    <2>1. Rank(q) = 20 * (N + 1) + (N + 1 - q.next)
      BY RankOf
    <2>2. CASE a = "ask"
      <3>1. p.pc = "ask" /\ p.next = q.next + 1
        BY <1>3, <1>5, <2>2
      <3>2. Rank(p) = 20 * (N + 1) + (N + 1 - (q.next + 1))
        BY <3>1, RankOf
      <3>3. QED
        BY <1>1, <2>1, <3>2
    <2>3. CASE a = "select"
      <3>1. Rank(p) = 20 * (N + 1)
        <4>1. p.pc = "select"
          BY <1>5, <2>3
        <4>2. QED
          BY <4>1, RankOf
      <3>2. QED
        BY <1>1, <2>1, <3>1
    <2>4. QED
      BY <1>2, <2>2, <2>3
  <1>9. Held(p) = Held(q) /\ Clears(p) = Clears(q)
    BY <1>2, <1>5 DEF Held, Clears
  <1>10. QED
    BY <1>5, <1>6, <1>7, <1>8, <1>9 DEF ReqOK

\* The first slot of a hedged call, taken or not (HedgeFirst).
LEMMA HedgeFirstOK ==
    ASSUME NEW q, ReqOK(q), q.pc = "hedge", NEW got \in BOOLEAN, NEW p,
           p = IF got THEN [q EXCEPT !.pc = "hedge2", !.at = <<q.cand[1]>>]
                      ELSE [q EXCEPT !.pc = "hedge2"]
    PROVE  /\ ReqOK(p) /\ Held(q) = {} /\ Clears(p) = {} /\ Clears(q) = {}
           /\ Held(p) = IF got THEN {q.cand[1]} ELSE {}
           /\ q.cand[1] \in Targets
           /\ Rank(p) < Rank(q)
  <1>1. /\ q \in Request /\ q.cand \in Seq(Targets) /\ Len(q.cand) >= 2 /\ q.at = <<>>
        /\ q.kind = "hedged" /\ q.ok \in SUBSET Targets
    BY ReqFields DEF ReqOK, Shape, Empty
  <1>2. q.cand[1] \in Targets /\ Len(q.cand) \in Nat
    BY <1>1, ElementOfSeq, LenProperties
  <1> DEFINE s == IF got THEN <<q.cand[1]>> ELSE <<>>
  <1>3. s \in Seq(Targets) /\ Range(s) = IF got THEN {q.cand[1]} ELSE {}
    <2>1. /\ <<q.cand[1]>> \in Seq(Targets) /\ Len(<<q.cand[1]>>) = 1
          /\ <<q.cand[1]>>[1] = q.cand[1] /\ <<>> \in Seq(Targets)
      BY <1>2
    <2>2. Range(<<q.cand[1]>>) = {q.cand[1]} /\ Range(<<>>) = {}
      BY <2>1, ShortRange
    <2>3. QED
      BY <2>1, <2>2
  <1>4. s = <<>> \/ s = <<q.cand[1]>>
    OBVIOUS
  <1> HIDE DEF s
  <1>5. /\ p \in Request /\ p.pc = "hedge2" /\ p.at = s /\ p.cand = q.cand
        /\ p.kind = "hedged" /\ p.tried = q.tried /\ p.ok = q.ok
    <2>1. CASE got
      <3>1. s = <<q.cand[1]>>
        BY <2>1 DEF s
      <3>2. p = [q EXCEPT !.pc = "hedge2", !.at = s]
        BY <2>1, <3>1
      <3>3. QED
        BY <1>1, <1>3, <3>2 DEF Request, Steps
    <2>2. CASE ~got
      <3>1. s = <<>>
        BY <2>2 DEF s
      <3>2. p = [q EXCEPT !.pc = "hedge2"]
        BY <2>2
      <3>3. QED
        BY <1>1, <3>1, <3>2 DEF Request, Steps
    <2>3. QED
      BY <2>1, <2>2
  <1>6. Shape(p)
    BY <1>1, <1>4, <1>5 DEF Shape, Empty, Ended
  <1>7. Turns(p) /\ Tiered(p)
    BY <1>5 DEF ReqOK, Turns, Tiered
  <1>8. Rank(p) < Rank(q)
    <2>1. Rank(q) = 20 * Len(q.cand) + 19 /\ Rank(p) = 20 * Len(q.cand) + 18
      BY <1>5, RankOf
    <2>2. QED
      BY <1>2, <2>1
  <1>9. Held(q) = {} /\ Clears(p) = {} /\ Clears(q) = {}
    BY <1>5 DEF Held, Clears
  <1>10. Held(p) = Range(s)
    BY <1>5 DEF Held, Slotted
  <1>11. QED
    BY <1>2, <1>3, <1>5, <1>6, <1>7, <1>8, <1>9, <1>10 DEF ReqOK

\* The second slot of a hedged call is taken (HedgeSecond).
LEMMA HedgeSecondOK ==
    ASSUME NEW q, ReqOK(q), q.pc = "hedge2", NEW p,
           p = [q EXCEPT !.pc = IF q.at # <<>> THEN "call" ELSE "release",
                         !.at = Append(q.at, q.cand[2])]
    PROVE  /\ ReqOK(p) /\ Clears(p) = {} /\ Clears(q) = {}
           /\ q.cand[2] \in Targets /\ q.cand[2] \notin Held(q)
           /\ Held(p) = Held(q) \cup {q.cand[2]}
           /\ Rank(p) < Rank(q)
  <1> DEFINE t == q.cand[1]
             u == q.cand[2]
             s == Append(q.at, u)
             a == IF q.at # <<>> THEN "call" ELSE "release"
  <1>1. /\ q \in Request /\ q.cand \in Seq(Targets) /\ Len(q.cand) >= 2
        /\ q.at = <<>> \/ q.at = <<t>>
        /\ q.at \in Seq(Targets) /\ q.kind = "hedged" /\ q.ok \in SUBSET Targets
    BY ReqFields DEF ReqOK, Shape
  <1>2. t \in Targets /\ u \in Targets /\ t # u /\ Len(q.cand) \in Nat
    <2>1. /\ Len(q.cand) \in Nat /\ 1 \in 1 .. Len(q.cand) /\ 2 \in 1 .. Len(q.cand)
      BY <1>1, LenProperties
    <2>2. QED
      BY <1>1, <2>1, ElementOfSeq DEF ReqOK, Turns
  <1>3. p = [q EXCEPT !.pc = a, !.at = s]
    OBVIOUS
  <1>4. Held(q) = Range(q.at)
    BY <1>1 DEF Held, Slotted
  <1>5. s \in Seq(Targets) /\ a \in {"call", "release"}
    BY <1>1, <1>2
  <1> HIDE DEF a, s, t, u
  <1>6. /\ p \in Request /\ p.pc = a /\ p.at = s /\ p.cand = q.cand
        /\ p.kind = "hedged" /\ p.tried = q.tried /\ p.ok = q.ok
    BY <1>1, <1>3, <1>5 DEF Request, Steps
  <1>7. Turns(p) /\ Tiered(p)
    BY <1>6 DEF ReqOK, Turns, Tiered
  <1>8. /\ Held(p) = Range(s) /\ Clears(p) = {} /\ Clears(q) = {}
    BY <1>5, <1>6 DEF Held, Slotted, Clears
  <1>9. CASE q.at = <<>>
    <2>1. a = "release" /\ s = <<u>>
      BY <1>9 DEF a, s
    <2>2. Len(s) = 1 /\ s[1] = u
      BY <2>1
    <2>3. Range(s) = {u} /\ Range(q.at) = {}
      BY <1>1, <1>5, <1>9, <2>2, ShortRange
    <2>4. Shape(p)
      BY <1>6, <2>1, <2>2 DEF Shape, Slotted, Empty, Ended
    <2>5. Rank(p) < Rank(q)
      <3>1. Rank(q) = 20 * Len(q.cand) + 18 /\ Rank(p) = 20 * Len(q.cand) + 2 + 2 * Len(s)
        BY <1>6, <2>1, RankOf
      <3>2. QED
        BY <1>2, <2>2, <3>1
    <2>6. QED
      BY <1>2, <1>4, <1>6, <1>7, <1>8, <2>3, <2>4, <2>5 DEF ReqOK, u
  <1>10. CASE q.at = <<t>>
    <2>1. a = "call" /\ s = <<t, u>>
      <3>1. q.at # <<>> /\ s = Append(<<t>>, u)
        BY <1>10 DEF s
      <3>2. a = "call"
        BY <3>1, Zenon DEF a
      <3>3. Append(<<t>>, u) = <<t, u>>
        BY <1>2, AppendTwo
      <3>4. QED
        BY <3>1, <3>2, <3>3
    <2>2. Len(s) = 2 /\ s[1] = t /\ s[2] = u /\ Len(q.at) = 1 /\ q.at[1] = t
      BY <1>10, <2>1
    <2>3. Range(s) = {t, u} /\ Range(q.at) = {t}
      BY <1>1, <1>5, <2>2, ShortRange
    <2>4. Shape(p)
      BY <1>1, <1>6, <2>1 DEF Shape, Slotted, Empty, Ended, t, u
    <2>5. Rank(p) < Rank(q)
      <3>1. p.pc = "call" /\ p.cand = q.cand
        BY <1>6, <2>1
      <3>2. Rank(q) = 20 * Len(q.cand) + 18 /\ Rank(p) = 20 * Len(q.cand) + 17
        BY <3>1, RankOf, ZenonT(60)
      <3>3. QED
        BY <1>2, <3>2
    <2>6. QED
      BY <1>2, <1>4, <1>6, <1>7, <1>8, <2>3, <2>4, <2>5 DEF ReqOK, u
  <1>11. QED
    BY <1>1, <1>9, <1>10

\* The second slot of a hedged call is not to be had (HedgeSecond).
LEMMA HedgeRefusedOK ==
    ASSUME NEW q, ReqOK(q), q.pc = "hedge2", NEW p,
           p = [q EXCEPT !.pc = IF q.at # <<>> THEN "release" ELSE "loop",
                         !.kind = IF q.at # <<>> THEN q.kind ELSE "sync"]
    PROVE  /\ ReqOK(p) /\ Clears(p) = {} /\ Clears(q) = {}
           /\ Held(p) = Held(q) /\ Rank(p) < Rank(q)
  <1> DEFINE a == IF q.at # <<>> THEN "release" ELSE "loop"
             k == IF q.at # <<>> THEN q.kind ELSE "sync"
  <1>1. /\ q \in Request /\ q.cand \in Seq(Targets) /\ Len(q.cand) \in Nat
        /\ q.at = <<>> \/ q.at = <<q.cand[1]>>
        /\ q.at \in Seq(Targets) /\ q.kind = "hedged" /\ q.ok \in SUBSET Targets
    BY ReqFields, LenProperties DEF ReqOK, Shape
  <1>2. /\ q.at = <<>> => a = "loop" /\ k = "sync"
        /\ q.at # <<>> => a = "release" /\ k = "hedged"
    BY <1>1
  <1>3. p = [q EXCEPT !.pc = a, !.kind = k]
    OBVIOUS
  <1> HIDE DEF a, k
  <1>4. /\ p \in Request /\ p.pc = a /\ p.at = q.at /\ p.cand = q.cand
        /\ p.kind = k /\ p.tried = q.tried /\ p.ok = q.ok
    BY <1>1, <1>2, <1>3 DEF Request, Steps
  <1>5. Turns(p) /\ Tiered(p)
    BY <1>2, <1>4 DEF ReqOK, Turns, Tiered
  <1>6. Clears(p) = {} /\ Clears(q) = {} /\ Held(q) = Range(q.at)
    BY <1>1, <1>2, <1>4 DEF Held, Slotted, Clears
  <1>7. Rank(q) = 20 * Len(q.cand) + 18
    BY RankOf
  <1>8. CASE q.at = <<>>
    <2>1. Range(q.at) = {} /\ Held(p) = {}
      BY <1>1, <1>2, <1>4, <1>8, ShortRange DEF Held
    <2>2. Shape(p)
      BY <1>2, <1>4, <1>8 DEF Shape, Empty, Ended
    <2>3. Rank(p) = 20 * Len(q.cand)
      BY <1>2, <1>4, <1>8, RankOf
    <2>4. Rank(p) < Rank(q)
      BY <1>1, <1>7, <2>3
    <2>5. QED
      BY <1>4, <1>5, <1>6, <2>1, <2>2, <2>4 DEF ReqOK
  <1>9. CASE q.at # <<>>
    <2>1. Len(q.at) = 1
      <3>1. q.at = <<q.cand[1]>>
        BY <1>1, <1>9
      <3>2. QED
        BY <3>1
    <2>2. Held(p) = Range(q.at)
      BY <1>2, <1>4, <1>9 DEF Held, Slotted
    <2>3. Shape(p)
      BY <1>2, <1>4, <1>9, <2>1 DEF Shape, Empty, Ended, Slotted
    <2>4. Rank(p) = 20 * Len(q.cand) + 2 + 2 * Len(q.at)
      BY <1>2, <1>4, <1>9, RankOf
    <2>5. Rank(p) < Rank(q)
      BY <1>1, <1>7, <2>1, <2>4
    <2>6. QED
      BY <1>4, <1>5, <1>6, <2>2, <2>3, <2>5 DEF ReqOK
  <1>10. QED
    BY <1>8, <1>9

\* A candidate's turn: its slot is taken, or none for a direct request (Try).
LEMMA TryOK ==
    ASSUME NEW q, ReqOK(q), q.pc = "loop", q.cand # <<>>, NEW p,
           p = [q EXCEPT !.pc = "call", !.at = <<Head(q.cand)>>, !.cand = Tail(q.cand),
                         !.full = FALSE]
    PROVE  /\ ReqOK(p) /\ Clears(p) = {} /\ Clears(q) = {} /\ Held(q) = {}
           /\ Head(q.cand) \in Targets
           /\ Held(p) = IF Slotted(q) THEN {Head(q.cand)} ELSE {}
           /\ Rank(p) < Rank(q)
  <1> DEFINE t == Head(q.cand)
             s == <<t>>
             c == Tail(q.cand)
             n == Len(q.cand)
  <1>1. /\ q \in Request /\ q.cand \in Seq(Targets) /\ q.ok \in SUBSET Targets
    BY ReqFields DEF ReqOK
  <1>2. /\ c \in Seq(Targets) /\ Len(c) = n - 1 /\ t = q.cand[1] /\ t \in Targets
        /\ n \in Nat /\ n >= 1 /\ \A i \in 1 .. n - 1 : c[i] = q.cand[i + 1]
    BY <1>1, TailElems, LenProperties
  <1>3. p = [q EXCEPT !.pc = "call", !.at = s, !.cand = c, !.full = FALSE]
    OBVIOUS
  <1>4. s \in Seq(Targets) /\ Len(s) = 1 /\ s[1] = t
    BY <1>2
  <1> HIDE DEF s, c, t
  <1>5. /\ p \in Request /\ p.pc = "call" /\ p.at = s /\ p.cand = c
        /\ p.kind = q.kind /\ p.tried = q.tried /\ p.ok = q.ok
    BY <1>1, <1>2, <1>3, <1>4 DEF Request, Steps
  <1>6. /\ n <= N /\ N \in Nat
        /\ \A i, j \in 1 .. n : i # j => q.cand[i] # q.cand[j]
        /\ \A i \in 1 .. n : q.cand[i] \notin q.tried
        /\ q.ok # {} => \A i, j \in 1 .. n : i < j => Prio[q.cand[i]] <= Prio[q.cand[j]]
    BY FailoverAssumption DEF ReqOK, Turns, Tiered
  <1> HIDE DEF n
  <1>7. /\ 1 \in 1 .. n
        /\ \A i \in 1 .. Len(c) : /\ i \in 1 .. n - 1 /\ i + 1 \in 1 .. n /\ 1 < i + 1
        /\ \A i, j \in 1 .. Len(c) : /\ i # j => i + 1 # j + 1
                                     /\ i < j => i + 1 < j + 1
        /\ Len(c) <= N
    BY <1>2, <1>6
  <1>8. Turns(p)
    <2>1. \A i, j \in 1 .. Len(c) : i # j => c[i] # c[j]
      BY <1>2, <1>6, <1>7
    <2>2. \A i \in 1 .. Len(c) : c[i] \notin q.tried
      BY <1>2, <1>6, <1>7
    <2>3. t \notin q.tried /\ \A i \in 1 .. Len(c) : c[i] # t
      <3>1. \A i \in 1 .. n - 1 : i + 1 # 1
        BY <1>2
      <3>2. QED
        BY <1>2, <1>6, <1>7, <3>1
    <2>4. QED
      BY <1>4, <1>5, <1>7, <2>1, <2>2, <2>3 DEF Turns
  <1>9. Tiered(p)
    <2>1. ASSUME q.ok # {}
          PROVE  /\ \A i, j \in 1 .. Len(c) : i < j => Prio[c[i]] <= Prio[c[j]]
                 /\ \A i \in 1 .. Len(c) : Prio[t] <= Prio[c[i]]
      BY <1>2, <1>6, <1>7, <2>1
    <2>2. QED
      BY <1>4, <1>5, <2>1 DEF Tiered
  <1>10. Shape(p)
    BY <1>4, <1>5 DEF ReqOK, Shape, Empty, Ended
  <1>11. Rank(p) < Rank(q)
    <2>1. Rank(q) = 20 * n /\ Rank(p) = 20 * Len(c) + 17
      BY <1>5, RankOf DEF n
    <2>2. QED
      BY <1>2, <2>1
  <1>12. Range(s) = {t}
    BY <1>4, ShortRange
  <1>13. /\ Clears(p) = {} /\ Clears(q) = {} /\ Held(q) = {}
         /\ Held(p) = IF Slotted(q) THEN {t} ELSE {}
    BY <1>5, <1>12 DEF Held, Slotted, Clears
  <1>14. QED
    BY <1>2, <1>5, <1>8, <1>9, <1>10, <1>11, <1>13 DEF ReqOK, t

\* A candidate is passed over (Saturated, Skip).
LEMMA PassOK ==
    ASSUME NEW q, ReqOK(q), q.pc = "loop", q.cand # <<>>, NEW f \in BOOLEAN, NEW p,
           p = [q EXCEPT !.cand = Tail(q.cand), !.full = f]
    PROVE  /\ ReqOK(p) /\ Clears(p) = Clears(q) /\ Held(p) = Held(q)
           /\ Rank(p) < Rank(q)
  <1> DEFINE c == Tail(q.cand)
             n == Len(q.cand)
  <1>1. /\ q \in Request /\ q.cand \in Seq(Targets) /\ q.ok \in SUBSET Targets
        /\ q.at = <<>>
    BY ReqFields DEF ReqOK, Shape, Empty
  <1>2. /\ c \in Seq(Targets) /\ Len(c) = n - 1
        /\ n \in Nat /\ n >= 1 /\ \A i \in 1 .. n - 1 : c[i] = q.cand[i + 1]
    BY <1>1, TailElems, LenProperties
  <1>3. p = [q EXCEPT !.cand = c, !.full = f]
    OBVIOUS
  <1> HIDE DEF c
  <1>4. /\ p \in Request /\ p.pc = "loop" /\ p.at = <<>> /\ p.cand = c
        /\ p.kind = q.kind /\ p.tried = q.tried /\ p.ok = q.ok
    BY <1>1, <1>2, <1>3 DEF Request, Steps
  <1>5. /\ n <= N /\ N \in Nat
        /\ \A i, j \in 1 .. n : i # j => q.cand[i] # q.cand[j]
        /\ \A i \in 1 .. n : q.cand[i] \notin q.tried
        /\ q.ok # {} => \A i, j \in 1 .. n : i < j => Prio[q.cand[i]] <= Prio[q.cand[j]]
    BY FailoverAssumption DEF ReqOK, Turns, Tiered
  <1> HIDE DEF n
  <1>6. /\ \A i \in 1 .. Len(c) : i \in 1 .. n - 1 /\ i + 1 \in 1 .. n
        /\ \A i, j \in 1 .. Len(c) : /\ i # j => i + 1 # j + 1
                                     /\ i < j => i + 1 < j + 1
        /\ Len(c) <= N
    BY <1>2, <1>5
  <1>7. Turns(p)
    <2>1. \A i, j \in 1 .. Len(c) : i # j => c[i] # c[j]
      BY <1>2, <1>5, <1>6
    <2>2. \A i \in 1 .. Len(c) : c[i] \notin q.tried
      BY <1>2, <1>5, <1>6
    <2>3. QED
      BY <1>4, <1>6, <2>1, <2>2 DEF Turns
  <1>8. Tiered(p)
    <2>1. ASSUME q.ok # {}
          PROVE  \A i, j \in 1 .. Len(c) : i < j => Prio[c[i]] <= Prio[c[j]]
      BY <1>2, <1>5, <1>6, <2>1
    <2>2. QED
      BY <1>4, <2>1 DEF Tiered
  <1>9. Shape(p)
    BY <1>4 DEF ReqOK, Shape
  <1>10. Rank(p) < Rank(q)
    <2>1. Rank(q) = 20 * n /\ Rank(p) = 20 * Len(c)
      BY <1>4, RankOf DEF n
    <2>2. QED
      BY <1>2, <2>1
  <1>11. Clears(p) = Clears(q) /\ Held(p) = Held(q)
    BY <1>4 DEF Held, Slotted, Clears
  <1>12. QED
    BY <1>4, <1>7, <1>8, <1>9, <1>10, <1>11 DEF ReqOK

\* The slots of a request that gives them back, first to last.
LEMMA Releasing ==
    ASSUME NEW q, ReqOK(q), q.pc \in {"release", "clear"}
    PROVE  /\ q \in Request /\ q.at \in Seq(Targets) /\ q.cand \in Seq(Targets)
           /\ Len(q.cand) \in Nat /\ Slotted(q)
           /\ Len(q.at) \in {1, 2} /\ (Len(q.at) = 2 => q.at[1] # q.at[2])
           /\ Head(q.at) \in Targets
           /\ Head(q.at) \in Range(q.at)
           /\ Range(Tail(q.at)) = Range(q.at) \ {Head(q.at)}
  <1>1. /\ q \in Request /\ q.at \in Seq(Targets) /\ q.cand \in Seq(Targets)
        /\ Len(q.cand) \in Nat /\ Slotted(q)
        /\ Len(q.at) \in {1, 2} /\ (Len(q.at) = 2 => q.at[1] # q.at[2])
    BY ReqFields, LenProperties DEF ReqOK, Shape
  <1>2. CASE Len(q.at) = 1
    <2>1. /\ Range(q.at) = {q.at[1]} /\ Range(Tail(q.at)) = {} /\ Head(q.at) = q.at[1]
          /\ q.at[1] \in Targets
      BY <1>1, <1>2, ShortRange
    <2>2. QED
      BY <1>1, <2>1
  <1>3. CASE Len(q.at) = 2
    <2>1. /\ Range(q.at) = {q.at[1], q.at[2]} /\ Range(Tail(q.at)) = {q.at[2]}
          /\ Head(q.at) = q.at[1] /\ q.at[1] \in Targets
      BY <1>1, <1>3, ShortRange
    <2>2. QED
      BY <1>1, <1>3, <2>1
  <1>4. QED
    BY <1>1, <1>2, <1>3

\* A slot has been given back (Release, ReleaseClear).
LEMMA DropFirstOK ==
    ASSUME NEW q, ReqOK(q), q.pc \in {"release", "clear"}
    PROVE  /\ ReqOK(DropFirst(q)) /\ Clears(DropFirst(q)) = {}
           /\ Held(DropFirst(q)) = Range(Tail(q.at))
           /\ Rank(DropFirst(q)) < Rank(q)
  <1> DEFINE p == DropFirst(q)
             n == Len(q.cand)
  <1>1. /\ q \in Request /\ q.at \in Seq(Targets) /\ q.cand \in Seq(Targets)
        /\ n \in Nat /\ Slotted(q) /\ Len(q.at) \in {1, 2}
    BY Releasing
  <1>2. /\ q.pc = "release" => Rank(q) = 20 * n + 2 + 2 * Len(q.at)
        /\ q.pc = "clear" => Rank(q) = 20 * n + 1 + 2 * Len(q.at)
    BY RankOf
  <1> HIDE DEF n
  <1>3. CASE Len(q.at) = 2
    <2> DEFINE s == Tail(q.at)
    <2>1. p = [q EXCEPT !.pc = "release", !.at = s]
      BY <1>3 DEF DropFirst
    <2>2. s \in Seq(Targets) /\ Len(s) = 1
      BY <1>1, <1>3, ShortRange
    <2> HIDE DEF s, p
    <2>3. /\ p \in Request /\ p.pc = "release" /\ p.at = s /\ p.cand = q.cand
          /\ p.kind = q.kind /\ p.tried = q.tried /\ p.ok = q.ok
      BY <1>1, <2>1, <2>2 DEF Request, Steps
    <2>4. Shape(p)
      BY <1>1, <2>2, <2>3 DEF Shape, Slotted, Empty, Ended
    <2>5. Turns(p) /\ Tiered(p)
      BY <2>3 DEF ReqOK, Turns, Tiered
    <2>6. Clears(p) = {} /\ Held(p) = Range(s)
      BY <1>1, <2>3 DEF Clears, Held, Slotted
    <2>7. Rank(p) = 20 * n + 2 + 2 * Len(s)
      BY <2>3, RankOf DEF n
    <2>8. Rank(p) < Rank(q)
      BY <1>1, <1>2, <1>3, <2>2, <2>7
    <2>9. QED
      BY <2>3, <2>4, <2>5, <2>6, <2>8 DEF ReqOK, p, s
  <1>4. CASE Len(q.at) = 1
    <2> DEFINE a == IF q.built THEN "record" ELSE "loop"
               k == IF q.built THEN q.kind ELSE Unhedged(q.kind)
    <2>1. p = [q EXCEPT !.pc = a, !.at = <<>>, !.built = FALSE, !.kind = k]
      BY <1>4 DEF DropFirst
    <2>2. /\ a \in {"record", "loop"} /\ (a = "loop" => k # "hedged")
          /\ k \in {"sync", "stream", "hedged", "direct", "none"}
      BY <1>1, ReqFields DEF Unhedged
    <2>3. Range(Tail(q.at)) = {} /\ <<>> \in Seq(Targets)
      BY <1>1, <1>4, ShortRange, EmptySeq
    <2> HIDE DEF a, k, p
    <2>4. /\ p \in Request /\ p.pc = a /\ p.at = <<>> /\ p.cand = q.cand
          /\ p.kind = k /\ p.tried = q.tried /\ p.ok = q.ok
      BY <1>1, <2>1, <2>2, <2>3 DEF Request, Steps
    <2>5. Shape(p)
      BY <2>2, <2>4 DEF Shape, Empty, Ended
    <2>6. Turns(p) /\ Tiered(p)
      BY <2>2, <2>4 DEF ReqOK, Turns, Tiered
    <2>7. Clears(p) = {} /\ Held(p) = {}
      BY <2>2, <2>4 DEF Clears, Held
    <2>8. Rank(p) = 20 * n \/ Rank(p) = 20 * n + 1
      <3>1. p.cand = q.cand /\ (p.pc = "record" \/ p.pc = "loop")
        BY <2>2, <2>4
      <3>2. QED
        BY <3>1, RankOf DEF n
    <2>9. Rank(p) < Rank(q)
      BY <1>1, <1>2, <1>4, <2>8
    <2>10. QED
      BY <2>3, <2>4, <2>5, <2>6, <2>7, <2>9 DEF ReqOK, p
  <1>5. QED
    BY <1>1, <1>3, <1>4

\* The decrement found 1 or less (Release).
LEMMA ToClearOK ==
    ASSUME NEW q, ReqOK(q), q.pc = "release", NEW p, p = [q EXCEPT !.pc = "clear"]
    PROVE  /\ ReqOK(p) /\ Clears(p) = {Head(q.at)} /\ Held(p) = Range(Tail(q.at))
           /\ Rank(p) < Rank(q)
  <1>1. /\ q \in Request /\ q.at \in Seq(Targets) /\ Len(q.cand) \in Nat
        /\ Slotted(q) /\ Len(q.at) \in {1, 2} /\ (Len(q.at) = 2 => q.at[1] # q.at[2])
    BY Releasing
  <1>2. /\ p \in Request /\ p.pc = "clear" /\ p.at = q.at /\ p.cand = q.cand
        /\ p.kind = q.kind /\ p.tried = q.tried /\ p.ok = q.ok
    BY <1>1 DEF Request, Steps
  <1>3. Shape(p)
    BY <1>1, <1>2 DEF Shape, Slotted, Empty, Ended
  <1>4. Turns(p) /\ Tiered(p)
    BY <1>2 DEF ReqOK, Turns, Tiered
  <1>5. Clears(p) = {Head(q.at)} /\ Held(p) = Range(Tail(q.at))
    BY <1>1, <1>2 DEF Clears, Held, Slotted
  <1>6. Rank(p) < Rank(q)
    <2> DEFINE n == Len(q.cand)
               w == Len(q.at)
    <2>1. Rank(q) = 20 * n + 2 + 2 * w /\ Rank(p) = 20 * n + 1 + 2 * w
      BY <1>2, RankOf
    <2>2. n \in Nat /\ w \in Nat
      BY <1>1
    <2> HIDE DEF n, w
    <2>3. QED
      BY <2>1, <2>2
  <1>7. QED
    BY <1>2, <1>3, <1>4, <1>5, <1>6 DEF ReqOK

\* The outcome of a call that is retried (Record).
LEMMA RetryOK ==
    ASSUME NEW q, ReqOK(q), q.pc = "record", NEW p,
           p = [q EXCEPT !.pc = "loop", !.last = <<>>, !.kind = Unhedged(q.kind)]
    PROVE  /\ ReqOK(p) /\ Clears(p) = Clears(q) /\ Held(p) = Held(q)
           /\ Rank(p) < Rank(q)
  <1> DEFINE k == Unhedged(q.kind)
  <1>1. /\ q \in Request /\ q.at = <<>> /\ Len(q.cand) \in Nat /\ <<>> \in Seq(Targets)
    BY ReqFields, LenProperties, EmptySeq DEF ReqOK, Shape, Empty
  <1>2. k # "hedged" /\ k \in {"sync", "stream", "hedged", "direct", "none"}
    BY <1>1, ReqFields DEF Unhedged
  <1>3. p = [q EXCEPT !.pc = "loop", !.last = <<>>, !.kind = k]
    OBVIOUS
  <1> HIDE DEF k
  <1>4. /\ p \in Request /\ p.pc = "loop" /\ p.at = <<>> /\ p.cand = q.cand
        /\ p.kind = k /\ p.tried = q.tried /\ p.ok = q.ok
    BY <1>1, <1>2, <1>3 DEF Request, Steps
  <1>5. Shape(p)
    BY <1>2, <1>4 DEF Shape
  <1>6. Turns(p) /\ Tiered(p)
    BY <1>4 DEF ReqOK, Turns, Tiered
  <1>7. Clears(p) = Clears(q) /\ Held(p) = Held(q)
    BY <1>4 DEF Clears, Held
  <1>8. Rank(p) < Rank(q)
    <2>1. Rank(q) = 20 * Len(q.cand) + 1 /\ Rank(p) = 20 * Len(q.cand)
      BY <1>4, RankOf
    <2>2. QED
      BY <1>1, <2>1
  <1>9. QED
    BY <1>4, <1>5, <1>6, <1>7, <1>8 DEF ReqOK

\* The call is made, or cannot be built (Call).
LEMMA CallOK ==
    ASSUME NEW q, ReqOK(q), q.pc = "call", NEW built \in BOOLEAN
    PROVE  LET m == [q EXCEPT !.built = built,
                              !.last = IF built THEN q.at ELSE <<>>,
                              !.pc = IF Slotted(q) THEN "release"
                                     ELSE IF built THEN "record" ELSE "loop",
                              !.at = IF Slotted(q) THEN q.at ELSE <<>>,
                              !.tried = IF built THEN q.tried \cup Range(q.at)
                                                 ELSE q.tried]
               p == IF q.kind = "hedged" /\ built
                    THEN [m EXCEPT !.cand = SubSeq(q.cand, 3, Len(q.cand)),
                                   !.full = Len(q.cand) > 2]
                    ELSE m
           IN  /\ ReqOK(p) /\ Clears(p) = Clears(q) /\ Held(p) = Held(q)
               /\ Rank(p) < Rank(q)
  <1> DEFINE hb == q.kind = "hedged" /\ built
             a  == IF Slotted(q) THEN "release" ELSE IF built THEN "record" ELSE "loop"
             s  == IF Slotted(q) THEN q.at ELSE <<>>
             l  == IF built THEN q.at ELSE <<>>
             tr == IF built THEN q.tried \cup Range(q.at) ELSE q.tried
             c  == IF hb THEN SubSeq(q.cand, 3, Len(q.cand)) ELSE q.cand
             n  == Len(q.cand)
             f  == Len(q.cand) > 2
             m  == [q EXCEPT !.built = built, !.last = l, !.pc = a, !.at = s, !.tried = tr]
             p  == IF hb THEN [m EXCEPT !.cand = c, !.full = f] ELSE m
  <1> HIDE DEF m, p
  <1>1. /\ q \in Request /\ q.cand \in Seq(Targets) /\ q.at \in Seq(Targets)
        /\ q.ok \in SUBSET Targets /\ q.tried \in SUBSET Targets
        /\ n \in Nat /\ <<>> \in Seq(Targets)
    BY ReqFields, LenProperties, EmptySeq DEF ReqOK
  <1>2. \/ q.kind = "hedged" /\ n >= 2 /\ q.at = <<q.cand[1], q.cand[2]>>
        \/ q.kind # "hedged" /\ Len(q.at) = 1
    BY DEF ReqOK, Shape
  <1>3. /\ n <= N /\ N \in Nat
        /\ \A i, j \in 1 .. n : i # j => q.cand[i] # q.cand[j]
        /\ \A i \in 1 .. n : q.cand[i] \notin q.tried
        /\ q.ok # {} => \A i, j \in 1 .. n : i < j => Prio[q.cand[i]] <= Prio[q.cand[j]]
        /\ q.kind # "hedged" => \A i \in 1 .. n : q.cand[i] # q.at[1]
    BY FailoverAssumption DEF ReqOK, Turns, Tiered
  \* the slots of the attempt
  <1>4. /\ q.kind = "hedged" => /\ Range(q.at) = {q.cand[1], q.cand[2]} /\ Len(q.at) = 2
                                /\ q.at[1] # q.at[2]
        /\ q.kind # "hedged" => Range(q.at) = {q.at[1]} /\ Len(q.at) = 1
        /\ Range(q.at) \subseteq Targets
    <2>1. CASE q.kind = "hedged"
      <3>1. /\ q.at = <<q.cand[1], q.cand[2]>> /\ 1 \in 1 .. n /\ 2 \in 1 .. n
        BY <1>1, <1>2, <2>1
      <3>2. Len(q.at) = 2 /\ q.at[1] = q.cand[1] /\ q.at[2] = q.cand[2]
        BY <3>1
      <3>3. Range(q.at) = {q.at[1], q.at[2]} /\ q.at[1] \in Targets /\ q.at[2] \in Targets
        BY <1>1, <3>2, ShortRange
      <3>4. q.cand[1] # q.cand[2]
        BY <1>3, <3>1
      <3>5. QED
        BY <2>1, <3>2, <3>3, <3>4
    <2>2. CASE q.kind # "hedged"
      <3>1. Range(q.at) = {q.at[1]} /\ q.at[1] \in Targets /\ Len(q.at) = 1
        BY <1>1, <1>2, <2>2, ShortRange
      <3>2. QED
        BY <2>2, <3>1
    <2>3. QED
      BY <2>1, <2>2
  \* the candidates that are left
  <1>5. /\ c \in Seq(Targets) /\ Len(c) \in Nat /\ Len(c) <= n
        /\ hb => Len(c) = n - 2 /\ n >= 2 /\ \A i \in 1 .. n - 2 : c[i] = q.cand[i + 2]
        /\ ~hb => c = q.cand
    <2>1. CASE hb
      <3>1. n >= 2
        BY <1>2, <2>1
      <3>2. /\ SubSeq(q.cand, 3, n) \in Seq(Targets) /\ Len(SubSeq(q.cand, 3, n)) = n - 2
            /\ \A i \in 1 .. n - 2 : SubSeq(q.cand, 3, n)[i] = q.cand[i + 2]
        BY <1>1, <3>1, RestElems
      <3>3. c = SubSeq(q.cand, 3, n)
        BY <2>1
      <3> HIDE DEF c, n
      <3>4. QED
        BY <1>1, <2>1, <3>1, <3>2, <3>3
    <2>2. CASE ~hb
      BY <1>1, <2>2
    <2>3. QED
      BY <2>1, <2>2
  <1>6. /\ s \in Seq(Targets) /\ l \in Seq(Targets) /\ tr \in SUBSET Targets
        /\ Slotted(q) => a = "release" /\ s = q.at
        /\ ~Slotted(q) => a \in {"record", "loop"} /\ s = <<>> /\ q.kind = "direct"
    BY <1>1, <1>4 DEF Slotted
  <1>7. /\ p \in Request /\ p.pc = a /\ p.at = s /\ p.cand = c
        /\ p.kind = q.kind /\ p.tried = tr /\ p.ok = q.ok
    <2>1. m = [q EXCEPT !.built = built, !.last = l, !.pc = a, !.at = s, !.tried = tr]
      BY DEF m
    <2>2. a \in Steps
      BY DEF Steps
    <2> HIDE DEF a, s, l, tr
    <2>3. /\ m \in Request /\ m.pc = a /\ m.at = s /\ m.cand = q.cand
          /\ m.kind = q.kind /\ m.tried = tr /\ m.ok = q.ok
      BY <1>1, <1>6, <2>1, <2>2 DEF Request
    <2>4. CASE hb
      <3>1. p = [m EXCEPT !.cand = c, !.full = f] /\ f \in BOOLEAN
        BY <2>4 DEF p
      <3> HIDE DEF c, f, n, hb
      <3>2. QED
        BY <1>5, <2>3, <3>1 DEF Request
    <2>5. CASE ~hb
      <3>1. p = m /\ c = q.cand
        BY <2>5 DEF p
      <3>2. QED
        BY <2>3, <3>1
    <2>6. QED
      BY <2>4, <2>5
  <1>8. tr = q.tried \/ (built /\ tr = q.tried \cup Range(q.at))
    OBVIOUS
  <1>9. ~built => ~hb
    OBVIOUS
  <1>10. hb => q.kind = "hedged"
    OBVIOUS
  <1>11. built /\ q.kind = "hedged" => hb
    OBVIOUS
  <1> HIDE DEF hb, a, s, l, tr, c, n, f
  <1>12. Turns(p)
    <2>1. CASE hb
      <3>1. /\ 1 \in 1 .. n /\ 2 \in 1 .. n
            /\ \A i \in 1 .. Len(c) : i \in 1 .. n - 2 /\ i + 2 \in 1 .. n
                                      /\ i + 2 # 1 /\ i + 2 # 2
            /\ \A i, j \in 1 .. Len(c) : i # j => i + 2 # j + 2
            /\ Len(c) <= N
        BY <1>1, <1>3, <1>5, <2>1
      <3>2. \A i, j \in 1 .. Len(c) : i # j => c[i] # c[j]
        BY <1>3, <1>5, <2>1, <3>1
      <3>3. \A i \in 1 .. Len(c) : c[i] \notin q.tried /\ c[i] # q.cand[1] /\ c[i] # q.cand[2]
        BY <1>3, <1>5, <2>1, <3>1
      <3>4. \A i \in 1 .. Len(c) : c[i] \notin tr
        BY <1>4, <1>8, <1>10, <2>1, <3>3
      <3>5. p.pc # "call"
        BY <1>6, <1>7
      <3>6. QED
        BY <1>7, <3>1, <3>2, <3>4, <3>5 DEF Turns
    <2>2. CASE ~hb
      <3>1. c = q.cand /\ Len(c) = n
        BY <1>5, <2>2 DEF n
      <3>2. \A i \in 1 .. n : c[i] \notin tr
        <4>1. built => q.kind # "hedged"
          BY <1>11, <2>2
        <4>2. QED
          BY <1>3, <1>4, <1>8, <3>1, <4>1
      <3>3. p.pc # "call"
        BY <1>6, <1>7
      <3>4. QED
        BY <1>3, <1>7, <3>1, <3>2, <3>3 DEF Turns
    <2>3. QED
      BY <2>1, <2>2
  <1>13. Tiered(p)
    <2>1. p.pc # "call"
      BY <1>6, <1>7
    <2>2. ASSUME q.ok # {}
          PROVE  \A i, j \in 1 .. Len(c) : i < j => Prio[c[i]] <= Prio[c[j]]
      <3>1. CASE hb
        <4>1. /\ \A i \in 1 .. Len(c) : i \in 1 .. n - 2 /\ i + 2 \in 1 .. n
              /\ \A i, j \in 1 .. Len(c) : i < j => i + 2 < j + 2
          BY <1>1, <1>5, <3>1
        <4>2. QED
          BY <1>3, <1>5, <2>2, <3>1, <4>1
      <3>2. CASE ~hb
        BY <1>3, <1>5, <2>2, <3>2 DEF n
      <3>3. QED
        BY <3>1, <3>2
    <2>3. QED
      BY <1>7, <2>1, <2>2 DEF Tiered
  <1>14. Shape(p)
    <2>1. CASE Slotted(q)
      BY <1>4, <1>6, <1>7, <2>1 DEF Shape, Slotted, Empty, Ended
    <2>2. CASE ~Slotted(q)
      BY <1>6, <1>7, <2>2 DEF Shape, Slotted, Empty, Ended
    <2>3. QED
      BY <2>1, <2>2
  <1>15. Clears(p) = Clears(q)
    BY <1>6, <1>7 DEF Clears
  <1>16. Held(p) = Held(q)
    BY <1>6, <1>7 DEF Held, Slotted
  <1>17. Rank(p) < Rank(q)
    <2>1. Rank(q) = 20 * n + 17
      BY RankOf DEF n
    <2>2. Len(q.at) \in {1, 2}
      BY <1>4
    <2>3. CASE Slotted(q)
      <3> DEFINE w == Len(q.at)
                 x == Len(c)
      <3>1. p.pc = "release" /\ p.at = q.at /\ p.cand = c
        BY <1>6, <1>7, <2>3
      <3>2. Rank(p) = 20 * x + 2 + 2 * w
        BY <3>1, RankOf
      <3>3. w \in {1, 2} /\ x \in Nat /\ x <= n /\ n \in Nat
        BY <1>1, <1>5, <2>2
      <3> HIDE DEF w, x
      <3>4. QED
        BY <2>1, <3>2, <3>3
    <2>4. CASE ~Slotted(q)
      <3>1. (p.pc = "record" \/ p.pc = "loop") /\ p.cand = c
        BY <1>6, <1>7, <2>4
      <3>2. Rank(p) = 20 * Len(c) + 1 \/ Rank(p) = 20 * Len(c)
        BY <3>1, RankOf
      <3>3. QED
        BY <1>1, <1>5, <2>1, <3>2
    <2>5. QED
      BY <2>3, <2>4
  <1>18. QED
    BY <1>7, <1>12, <1>13, <1>14, <1>15, <1>16, <1>17
       DEF ReqOK, p, m, hb, a, s, l, tr, c, f

-----------------------------------------------------------------------------
(* All requests: the slots.                                                  *)

\* The slots in terms of Held and Clears.
LEMMA HoldsHeld ==
    ASSUME NEW x, NEW t
    PROVE  /\ Holds(x, t) <=> t \in Held(req[x])
           /\ Clearing(x, t) <=> t \in Clears(req[x])
  <1>1. Holds(x, t) <=> t \in Held(req[x])
    BY DEF Holds, Held
  <1>2. Clearing(x, t) <=> t \in Clears(req[x])
    BY DEF Clearing, Clears
  <1>3. QED
    BY <1>1, <1>2

\* The holders of a slot are finitely many.
LEMMA HoldersFinite ==
    ASSUME NEW t
    PROVE  IsFiniteSet(Holders(t)) /\ Cardinality(Holders(t)) \in Nat
  <1>1. Holders(t) \subseteq Requests
    BY DEF Holders
  <1>2. QED
    BY <1>1, FailoverAssumption, FS_Subset, FS_CardinalityType

\* What a step of r does to the holders of a slot.
LEMMA HoldersStep ==
    ASSUME req \in [Requests -> Request], NEW r \in Requests, NEW p,
           req' = [req EXCEPT ![r] = p], NEW t
    PROVE  /\ Holders(t)' = IF t \in Held(p) THEN Holders(t) \cup {r} ELSE Holders(t) \ {r}
           /\ r \in Holders(t) <=> t \in Held(req[r])
           /\ (\A x \in Requests : ~Clearing(x, t))' <=>
                 t \notin Clears(p) /\ \A x \in Requests \ {r} : ~Clearing(x, t)
           /\ (\A x \in Requests : ~Clearing(x, t)) <=>
                 t \notin Clears(req[r]) /\ \A x \in Requests \ {r} : ~Clearing(x, t)
  <1>1. /\ req'[r] = p
        /\ \A x \in Requests \ {r} : req'[x] = req[x]
    OBVIOUS
  <1>2. \A x \in Requests : /\ Holds(x, t) <=> t \in Held(req[x])
                            /\ Clearing(x, t) <=> t \in Clears(req[x])
    BY HoldsHeld
  <1>3. \A x \in Requests : /\ Holds(x, t)' <=> t \in Held(req'[x])
                            /\ Clearing(x, t)' <=> t \in Clears(req'[x])
    <2>1. \A x \in Requests : Holds(x, t)' <=> t \in Held(req'[x])
      BY DEF Holds, Held
    <2>2. \A x \in Requests : Clearing(x, t)' <=> t \in Clears(req'[x])
      BY DEF Clearing, Clears
    <2>3. QED
      BY <2>1, <2>2
  <1>4. /\ Holders(t) = {x \in Requests : t \in Held(req[x])}
        /\ Holders(t)' = {x \in Requests : t \in Held(req'[x])}
    BY <1>2, <1>3 DEF Holders
  <1>5. Holders(t)' = IF t \in Held(p) THEN Holders(t) \cup {r} ELSE Holders(t) \ {r}
    <2>1. \A x \in Requests : t \in Held(req'[x]) <=>
             IF x = r THEN t \in Held(p) ELSE t \in Held(req[x])
      BY <1>1
    <2>2. QED
      BY <1>4, <2>1
  <1>6. r \in Holders(t) <=> t \in Held(req[r])
    BY <1>4
  <1>7. (\A x \in Requests : ~Clearing(x, t))' <=>
           t \notin Clears(p) /\ \A x \in Requests \ {r} : ~Clearing(x, t)
    BY <1>1, <1>2, <1>3
  <1>8. (\A x \in Requests : ~Clearing(x, t)) <=>
           t \notin Clears(req[r]) /\ \A x \in Requests \ {r} : ~Clearing(x, t)
    BY <1>2
  <1>9. QED
    BY <1>5, <1>6, <1>7, <1>8

\* SlotsReturn for one target.
SlotOK(t) ==
    /\ slot[t] <= Cardinality(Holders(t))
    /\ Holders(t) = {} /\ (\A x \in Requests : ~Clearing(x, t)) => slot[t] = 0

\* A step of r that leaves the slot of t alone, its holders and its clearing too.
LEMMA SlotKept ==
    ASSUME FInv, NEW r \in Requests, NEW p, req' = [req EXCEPT ![r] = p],
           NEW t \in Targets, slot'[t] = slot[t],
           t \in Held(p) <=> t \in Held(req[r]),
           t \in Clears(p) <=> t \in Clears(req[r])
    PROVE  SlotOK(t)'
  <1>1. SlotOK(t) /\ req \in [Requests -> Request]
    BY DEF FInv, SlotsReturn, SlotOK
  <1>2. /\ Holders(t)' = Holders(t)
        /\ (\A x \in Requests : ~Clearing(x, t))' <=> \A x \in Requests : ~Clearing(x, t)
    <2>1. /\ Holders(t)' = IF t \in Held(p) THEN Holders(t) \cup {r} ELSE Holders(t) \ {r}
          /\ r \in Holders(t) <=> t \in Held(req[r])
          /\ (\A x \in Requests : ~Clearing(x, t))' <=>
                t \notin Clears(p) /\ \A x \in Requests \ {r} : ~Clearing(x, t)
          /\ (\A x \in Requests : ~Clearing(x, t)) <=>
                t \notin Clears(req[r]) /\ \A x \in Requests \ {r} : ~Clearing(x, t)
      BY <1>1, HoldersStep
    <2>2. Holders(t)' = Holders(t)
      BY <2>1
    <2>3. (\A x \in Requests : ~Clearing(x, t))' <=> \A x \in Requests : ~Clearing(x, t)
      BY <2>1, Zenon
    <2>4. QED
      BY <2>2, <2>3, Zenon
  <1>3. QED
    BY <1>1, <1>2 DEF SlotOK

\* The invariant after a step of r, from its parts.
LEMMA StepInv ==
    ASSUME FInv, NEW r \in Requests, NEW p, req' = [req EXCEPT ![r] = p], ReqOK(p),
           slot' \in [Targets -> Int], \A t \in Targets : SlotOK(t)'
    PROVE  FInv'
  <1>1. p \in Request
    BY DEF ReqOK
  <1>2. /\ req' \in [Requests -> Request]
        /\ \A x \in Requests : ReqOK(req'[x])
    BY <1>1 DEF FInv
  <1>3. SlotsReturn'
    BY DEF SlotsReturn, SlotOK
  <1>4. QED
    BY <1>2, <1>3 DEF FInv

\* A step that touches no slot.
LEMMA KeepInv ==
    ASSUME FInv, NEW r \in Requests, NEW p, req' = [req EXCEPT ![r] = p], ReqOK(p),
           slot' = slot, Held(p) = Held(req[r]), Clears(p) = Clears(req[r])
    PROVE  FInv'
  <1>1. \A t \in Targets : SlotOK(t)'
    BY SlotKept
  <1>2. slot' \in [Targets -> Int]
    BY DEF FInv
  <1>3. QED
    BY <1>1, <1>2, StepInv

\* A step that takes the slot of t.
LEMMA TakeInv ==
    ASSUME FInv, NEW r \in Requests, NEW p, req' = [req EXCEPT ![r] = p], ReqOK(p),
           NEW t \in Targets, slot' = [slot EXCEPT ![t] = slot[t] + 1],
           t \notin Held(req[r]), Held(p) = Held(req[r]) \cup {t},
           Clears(p) = Clears(req[r])
    PROVE  FInv'
  <1>1. slot \in [Targets -> Int] /\ SlotOK(t) /\ req \in [Requests -> Request]
    BY DEF FInv, SlotsReturn, SlotOK
  <1>2. slot' \in [Targets -> Int] /\ slot'[t] = slot[t] + 1
        /\ \A u \in Targets : u # t => slot'[u] = slot[u]
    BY <1>1
  <1>3. SlotOK(t)'
    <2>1. Holders(t)' = Holders(t) \cup {r} /\ r \notin Holders(t)
      BY <1>1, HoldersStep
    <2>2. Cardinality(Holders(t)') = Cardinality(Holders(t)) + 1
          /\ Cardinality(Holders(t)) \in Nat
      BY <2>1, HoldersFinite, FS_AddElement
    <2>3. slot'[t] <= Cardinality(Holders(t)')
      BY <1>1, <1>2, <2>2 DEF SlotOK
    <2>4. Holders(t)' # {}
      BY <2>1
    <2>5. QED
      BY <2>3, <2>4 DEF SlotOK
  <1>4. ASSUME NEW u \in Targets, u # t PROVE SlotOK(u)'
    BY <1>2, <1>4, SlotKept
  <1>5. QED
    BY <1>2, <1>3, <1>4, StepInv

\* The decrement of a release: r no longer holds the slot, and will clear it
\* when the decrement found 1 or less.
LEMMA GiveInv ==
    ASSUME FInv, NEW r \in Requests, NEW p, req' = [req EXCEPT ![r] = p], ReqOK(p),
           NEW t \in Targets, slot' = [slot EXCEPT ![t] = slot[t] - 1],
           t \in Held(req[r]), Held(p) = Held(req[r]) \ {t},
           Clears(req[r]) = {}, Clears(p) = IF slot[t] <= 1 THEN {t} ELSE {}
    PROVE  FInv'
  <1>1. slot \in [Targets -> Int] /\ SlotOK(t) /\ req \in [Requests -> Request]
    BY DEF FInv, SlotsReturn, SlotOK
  <1>2. slot' \in [Targets -> Int] /\ slot'[t] = slot[t] - 1
        /\ \A u \in Targets : u # t => slot'[u] = slot[u]
    BY <1>1
  <1>3. SlotOK(t)'
    <2>1. Holders(t)' = Holders(t) \ {r} /\ r \in Holders(t)
      BY <1>1, HoldersStep
    <2>2. Cardinality(Holders(t)') = Cardinality(Holders(t)) - 1
          /\ Cardinality(Holders(t)) \in Nat
      BY <2>1, HoldersFinite, FS_RemoveElement
    <2>3. slot'[t] <= Cardinality(Holders(t)')
      BY <1>1, <1>2, <2>2 DEF SlotOK
    <2>4. CASE slot[t] <= 1
      <3>1. ~(\A x \in Requests : ~Clearing(x, t))'
        BY <1>1, <2>4, HoldersStep
      <3>2. QED
        BY <2>3, <3>1 DEF SlotOK
    <2>5. CASE ~(slot[t] <= 1)
      <3>1. Cardinality(Holders(t)') # 0
        BY <1>1, <1>2, <2>2, <2>3, <2>5
      <3>2. Holders(t)' # {}
        BY <3>1, FS_EmptySet
      <3>3. QED
        BY <2>3, <3>2 DEF SlotOK
    <2>6. QED
      BY <2>4, <2>5
  <1>4. ASSUME NEW u \in Targets, u # t PROVE SlotOK(u)'
    BY <1>2, <1>4, SlotKept
  <1>5. QED
    BY <1>2, <1>3, <1>4, StepInv

\* The store of 0.
LEMMA ClearInv ==
    ASSUME FInv, NEW r \in Requests, NEW p, req' = [req EXCEPT ![r] = p], ReqOK(p),
           NEW t \in Targets, slot' = [slot EXCEPT ![t] = 0],
           Held(p) = Held(req[r]), Clears(req[r]) = {t}, Clears(p) = {}
    PROVE  FInv'
  <1>1. slot \in [Targets -> Int]
    BY DEF FInv
  <1>2. slot' \in [Targets -> Int] /\ slot'[t] = 0
        /\ \A u \in Targets : u # t => slot'[u] = slot[u]
    BY <1>1
  <1>3. SlotOK(t)'
    <2>1. Holders(t)' \subseteq Requests
      BY DEF Holders
    <2>2. Cardinality(Holders(t)') \in Nat
      BY <2>1, FailoverAssumption, FS_Subset, FS_CardinalityType
    <2>3. QED
      BY <1>2, <2>2 DEF SlotOK
  <1>4. ASSUME NEW u \in Targets, u # t PROVE SlotOK(u)'
    BY <1>2, <1>4, SlotKept
  <1>5. QED
    BY <1>2, <1>3, <1>4, StepInv

-----------------------------------------------------------------------------
(* The steps.                                                                *)

\* A step of r leaves the other requests where they are and brings r, unless
\* it was at rest, closer to its answer.
Advances(r) ==
    /\ \A x \in Requests : x # r => req'[x] = req[x]
    /\ req[r].pc \notin Ended => Rank(req'[r]) < Rank(req[r])

\* One new state of r is a step of r.
LEMMA AdvancesTo ==
    ASSUME FInv, NEW r \in Requests, NEW p, req' = [req EXCEPT ![r] = p],
           req[r].pc \in Ended \/ Rank(p) < Rank(req[r])
    PROVE  Advances(r)
  BY DEF Advances, FInv

\* A request that comes to rest has a lower rank than any other.
LEMMA RestRank ==
    ASSUME NEW q, ReqOK(q), q.pc \notin Ended, NEW p, p.pc \in Ended
    PROVE  Rank(p) < Rank(q)
  <1> DEFINE n == Len(q.cand)
             w == Len(q.at)
  <1>1. n \in Nat /\ w \in Nat /\ N \in Nat /\ q.next \in 0 .. N
    BY FailoverAssumption, ReqFields, LenProperties DEF ReqOK
  <1>2. Rank(p) = -1
    BY RankOf
  <1>3. q.pc \in {"ask", "select", "hedge", "hedge2", "loop", "call", "release", "clear",
                  "record"}
    BY ReqFields DEF ReqOK, Steps
  <1>4. \/ Rank(q) = 20 * (N + 1) + (N + 1 - q.next)
        \/ Rank(q) = 20 * (N + 1)
        \/ Rank(q) = 20 * n + 19 \/ Rank(q) = 20 * n + 18 \/ Rank(q) = 20 * n + 17
        \/ Rank(q) = 20 * n + 2 + 2 * w \/ Rank(q) = 20 * n + 1 + 2 * w
        \/ Rank(q) = 20 * n + 1 \/ Rank(q) = 20 * n
    BY <1>3, RankOf
  <1> HIDE DEF n, w
  <1>5. QED
    BY <1>1, <1>2, <1>4

\* A request that ends holds nothing and clears nothing.
LEMMA EndInv ==
    ASSUME FInv, NEW r \in Requests, NEW pc \in Ended, req' = [req EXCEPT ![r] = Resting(pc)],
           req[r].pc \in {"loop", "record"}, slot' = slot
    PROVE  FInv' /\ Advances(r)
  <1>1. ReqOK(req[r]) /\ Held(req[r]) = {} /\ Clears(req[r]) = {}
    BY DEF FInv, Held, Clears
  <1>2. /\ ReqOK(Resting(pc)) /\ Held(Resting(pc)) = {} /\ Clears(Resting(pc)) = {}
        /\ Resting(pc).pc \in Ended
    BY RestingOK
  <1>3. FInv'
    BY <1>1, <1>2, KeepInv
  <1>4. req[r].pc \notin Ended
    BY DEF Ended
  <1>5. Rank(Resting(pc)) < Rank(req[r])
    BY <1>1, <1>2, <1>4, RestRank
  <1>6. QED
    BY <1>3, <1>5, AdvancesTo

\* Selection: whatever becomes of the request, it starts well formed.
LEMMA SelectInv ==
    ASSUME FInv, NEW r \in Requests, NEW q \in Request, q.at = <<>>, q.tried = {},
           q.kind # "none", NEW s \in Seq(Targets), Len(s) <= N,
           \A i, j \in 1 .. Len(s) : i # j => s[i] # s[j],
           q.ok # {} => TierOrder(s),
           NEW p \in Begun(q, s), req' = [req EXCEPT ![r] = p], slot' = slot,
           req[r].pc \in Ended \cup {"select"}
    PROVE  FInv' /\ Advances(r)
  <1>1. ReqOK(req[r]) /\ Held(req[r]) = {} /\ Clears(req[r]) = {}
    BY DEF FInv, Held, Clears, Ended
  <1>2. /\ ReqOK(p) /\ Held(p) = {} /\ Clears(p) = {}
        /\ p.pc \in Ended \/ Rank(p) < 20 * (N + 1)
    BY BegunOK
  <1>3. FInv'
    BY <1>1, <1>2, KeepInv
  <1>4. req[r].pc \in Ended \/ Rank(p) < Rank(req[r])
    <2>1. CASE req[r].pc \in Ended
      BY <2>1
    <2>2. CASE req[r].pc = "select" /\ p.pc \in Ended
      <3>1. req[r].pc \notin Ended
        BY <2>2 DEF Ended
      <3>2. QED
        BY <1>1, <2>2, <3>1, RestRank
    <2>3. CASE req[r].pc = "select" /\ Rank(p) < 20 * (N + 1)
      <3>1. Rank(req[r]) = 20 * (N + 1)
        BY <2>3, RankOf
      <3>2. QED
        BY <2>3, <3>1
    <2>4. QED
      BY <1>2, <2>1, <2>2, <2>3
  <1>5. QED
    BY <1>3, <1>4, AdvancesTo

\* A request that arrives.
LEMMA ArriveInv ==
    ASSUME FInv, NEW r \in Requests, NEW k \in Kinds[r], Arrive(r, k)
    PROVE  FInv' /\ Advances(r)
  <1> DEFINE p == [Resting("ask") EXCEPT !.kind = k, !.next = 1]
  <1>1. k \in {"sync", "stream", "hedged", "direct"}
    BY FailoverAssumption
  <1>2. ReqOK(p) /\ Held(p) = {} /\ Clears(p) = {}
    BY <1>1, ArrivedOK
  <1>3. req[r].pc \in Ended /\ req' = [req EXCEPT ![r] = p] /\ slot' = slot
    BY DEF Arrive
  <1> HIDE DEF p
  <1>4. ReqOK(req[r]) /\ Held(req[r]) = {} /\ Clears(req[r]) = {}
    BY <1>3 DEF FInv, Held, Clears, Ended
  <1>5. QED
    BY <1>2, <1>3, <1>4, KeepInv, AdvancesTo

\* The targets other than t, in declaration order.
LEMMA OtherTargets ==
    ASSUME NEW t \in Targets
    PROVE  LET o == [i \in 1 .. N - 1 |-> IF i < t THEN i ELSE i + 1]
               s == <<t>> \o o
           IN  /\ s \in Seq(Targets) /\ Len(s) = N
               /\ \A i, j \in 1 .. Len(s) : i # j => s[i] # s[j]
  <1> DEFINE o == [i \in 1 .. N - 1 |-> IF i < t THEN i ELSE i + 1]
             s == <<t>> \o o
  <1>1. N \in Nat \ {0} /\ t \in 1 .. N
    BY FailoverAssumption DEF Targets
  <1>2. \A i \in 1 .. N - 1 : /\ o[i] = IF i < t THEN i ELSE i + 1
                              /\ o[i] \in Targets /\ o[i] # t
    BY <1>1 DEF Targets
  <1>3. o \in Seq(Targets) /\ Len(o) = N - 1
    <2>1. o \in [1 .. N - 1 -> Targets] /\ N - 1 \in Nat
      BY <1>1, <1>2
    <2> HIDE DEF o
    <2>2. QED
      BY <2>1
  <1>4. <<t>> \in Seq(Targets) /\ Len(<<t>>) = 1 /\ <<t>>[1] = t
    BY <1>1
  <1> HIDE DEF o
  <1>5. /\ s \in Seq(Targets) /\ Len(s) = 1 + (N - 1)
        /\ \A i \in 1 .. 1 + (N - 1) : s[i] = IF i <= 1 THEN <<t>>[i] ELSE o[i - 1]
    BY <1>3, <1>4, ConcatProperties
  <1> HIDE DEF s
  <1>6. /\ Len(s) = N /\ s[1] = t
        /\ \A i \in 2 .. N : i - 1 \in 1 .. N - 1 /\ s[i] = o[i - 1]
    BY <1>1, <1>4, <1>5
  <1>7. \A i \in 2 .. N : s[i] = (IF i - 1 < t THEN i - 1 ELSE i) /\ s[i] # t
    <2>1. ASSUME NEW i \in 2 .. N PROVE s[i] = (IF i - 1 < t THEN i - 1 ELSE i) /\ s[i] # t
      <3>1. i - 1 \in 1 .. N - 1 /\ s[i] = o[i - 1]
        BY <1>6
      <3>2. /\ o[i - 1] = (IF i - 1 < t THEN i - 1 ELSE (i - 1) + 1) /\ o[i - 1] # t
        BY <1>2, <3>1
      <3>3. QED
        BY <1>1, <3>1, <3>2
    <2>2. QED
      BY <2>1
  <1>8. ASSUME NEW i \in 1 .. Len(s), NEW j \in 1 .. Len(s), i # j PROVE s[i] # s[j]
    <2>1. i \in 1 .. N /\ j \in 1 .. N
      BY <1>6
    <2>2. CASE i = 1 /\ j \in 2 .. N
      BY <1>6, <1>7, <2>2
    <2>3. CASE j = 1 /\ i \in 2 .. N
      BY <1>6, <1>7, <2>3
    <2>4. CASE i \in 2 .. N /\ j \in 2 .. N
      <3>1. /\ s[i] = (IF i - 1 < t THEN i - 1 ELSE i)
            /\ s[j] = (IF j - 1 < t THEN j - 1 ELSE j)
        BY <1>7, <2>4
      <3>2. QED
        BY <1>1, <1>8, <2>1, <3>1
    <2>5. QED
      BY <1>1, <1>8, <2>1, <2>2, <2>3, <2>4
  <1>9. QED
    BY <1>5, <1>6, <1>8 DEF s, o

\* A request that names its provider.
LEMMA TargetedInv ==
    ASSUME FInv, NEW r \in Requests, NEW k \in Kinds[r], NEW t \in Targets,
           ArriveTargeted(r, k, t)
    PROVE  FInv' /\ Advances(r)
  <1> DEFINE o == [i \in 1 .. N - 1 |-> IF i < t THEN i ELSE i + 1]
             s == <<t>> \o o
             z == Resting("select")
             q == [z EXCEPT !.kind = k]
  <1>1. k \in {"sync", "stream", "hedged", "direct"}
    BY FailoverAssumption
  <1>2. /\ s \in Seq(Targets) /\ Len(s) = N
        /\ \A i, j \in 1 .. Len(s) : i # j => s[i] # s[j]
    BY OtherTargets
  <1>3. PICK p \in Begun(q, s) : req' = [req EXCEPT ![r] = p]
    BY DEF ArriveTargeted
  <1>4. req[r].pc \in Ended /\ slot' = slot
    BY DEF ArriveTargeted
  <1> HIDE DEF s
  <1>5. /\ z \in Request /\ z.at = <<>> /\ z.tried = {} /\ z.ok = {}
    <2>1. <<>> \in Seq(Targets) /\ 0 \in 0 .. N
      BY FailoverAssumption, EmptySeq
    <2>2. QED
      BY <2>1 DEF Resting, Request, Steps
  <1> HIDE DEF z
  <1>6. /\ q \in Request /\ q.at = <<>> /\ q.tried = {} /\ q.ok = {} /\ q.kind = k
    BY <1>1, <1>5 DEF Request
  <1> HIDE DEF q
  <1>7. Len(s) <= N /\ q.kind # "none"
    BY <1>1, <1>2, <1>6, FailoverAssumption
  <1>8. QED
    BY <1>2, <1>3, <1>4, <1>6, <1>7, SelectInv

\* The order of the candidates puts higher tiers first.
LEMMA BeforeTier ==
    ASSUME NEW t \in Targets, NEW u \in Targets, NEW o, Before(t, u, o)
    PROVE  Prio[t] <= Prio[u]
  <1>1. Prio[t] \in Nat /\ Prio[u] \in Nat
    BY FailoverAssumption
  <1>2. Prio[t] # Prio[u] => Prio[t] < Prio[u]
    BY DEF Before
  <1>3. QED
    BY <1>1, <1>2

\* Candidates in the order of tiers and free slots (select_candidates).
LEMMA SelectHealthyInv ==
    ASSUME FInv, NEW r \in Requests, SelectHealthy(r)
    PROVE  FInv' /\ Advances(r)
  <1> DEFINE q == req[r]
  <1>1. PICK s \in SetToSeqs(q.ok) :
           /\ \A i, j \in DOMAIN s : i < j => Before(s[i], s[j], q.ok)
           /\ \E p \in Begun(q, s) : req' = [req EXCEPT ![r] = p]
    BY DEF SelectHealthy, Ordered
  <1>2. PICK p \in Begun(q, s) : req' = [req EXCEPT ![r] = p]
    BY <1>1
  <1>3. q.pc = "select" /\ slot' = slot
    BY DEF SelectHealthy
  <1>4. /\ q \in Request /\ q.at = <<>> /\ q.tried = {} /\ q.kind # "none"
        /\ q.ok \in SUBSET Targets
    BY <1>3, ReqFields DEF FInv, ReqOK, Shape, Empty
  <1>5. /\ s \in Seq(Targets) /\ Len(s) <= N
        /\ \A i \in 1 .. Len(s) : s[i] \in q.ok
        /\ \A i, j \in 1 .. Len(s) : i # j => s[i] # s[j]
        /\ DOMAIN s = 1 .. Len(s)
    BY <1>4, OrderingElems
  <1>6. TierOrder(s)
    <2>1. ASSUME NEW i \in 1 .. Len(s), NEW j \in 1 .. Len(s), i < j
          PROVE  Prio[s[i]] <= Prio[s[j]]
      <3>1. s[i] \in Targets /\ s[j] \in Targets /\ Before(s[i], s[j], q.ok)
        BY <1>1, <1>4, <1>5, <2>1
      <3>2. QED
        BY <3>1, BeforeTier
    <2>2. QED
      BY <2>1 DEF TierOrder
  <1>7. req[r].pc \in Ended \cup {"select"}
    BY <1>3
  <1>8. QED
    BY <1>2, <1>3, <1>4, <1>5, <1>6, <1>7, SelectInv

\* The emergency fallback: every target, the first to recover in front.
LEMMA SelectTrippedInv ==
    ASSUME FInv, NEW r \in Requests, SelectTripped(r)
    PROVE  FInv' /\ Advances(r)
  <1> DEFINE q == req[r]
  <1>1. PICK s \in SetToSeqs(Targets) :
           \E p \in Begun(q, s) : req' = [req EXCEPT ![r] = p]
    BY DEF SelectTripped
  <1>2. PICK p \in Begun(q, s) : req' = [req EXCEPT ![r] = p]
    BY <1>1
  <1>3. q.pc = "select" /\ slot' = slot /\ q.ok = {}
    BY DEF SelectTripped
  <1>4. /\ q \in Request /\ q.at = <<>> /\ q.tried = {} /\ q.kind # "none"
    BY <1>3 DEF FInv, ReqOK, Shape, Empty
  <1>5. /\ s \in Seq(Targets) /\ Len(s) <= N
        /\ \A i, j \in 1 .. Len(s) : i # j => s[i] # s[j]
    BY OrderingElems
  <1>6. req[r].pc \in Ended \cup {"select"}
    BY <1>3
  <1>7. QED
    BY <1>2, <1>3, <1>4, <1>5, <1>6, SelectInv

\* One question to the breaker.
LEMMA AskInv ==
    ASSUME FInv, NEW r \in Requests, Ask(r)
    PROVE  FInv' /\ Advances(r)
  <1> DEFINE q == req[r]
             e == OnTime(entry[q.next])
             o == IF Allowed(e) THEN q.ok \cup {q.next} ELSE q.ok
             p == [q EXCEPT !.ok = o, !.next = IF q.next = N THEN 0 ELSE q.next + 1,
                            !.pc = IF q.next = N THEN "select" ELSE "ask"]
  <1>1. q.pc = "ask" /\ req' = [req EXCEPT ![r] = p] /\ slot' = slot
    BY DEF Ask
  <1>2. ReqOK(q)
    BY DEF FInv
  <1>3. o \in SUBSET Targets
    <2>1. q.ok \in SUBSET Targets /\ q.next \in Targets
      BY <1>1, <1>2, ReqFields DEF ReqOK, Shape
    <2>2. QED
      BY <2>1
  <1> HIDE DEF o
  <1>4. /\ ReqOK(p) /\ Held(p) = Held(q) /\ Clears(p) = Clears(q) /\ Rank(p) < Rank(q)
    BY <1>1, <1>2, <1>3, AskOK
  <1> HIDE DEF p
  <1>5. QED
    BY <1>1, <1>4, KeepInv, AdvancesTo

\* The first slot of a hedged call.
LEMMA HedgeFirstInv ==
    ASSUME FInv, NEW r \in Requests, HedgeFirst(r)
    PROVE  FInv' /\ Advances(r)
  <1> DEFINE q == req[r]
             t == q.cand[1]
  <1>1. q.pc = "hedge" /\ ReqOK(q)
    BY DEF HedgeFirst, FInv
  <1>2. CASE Free(t)
    <2> DEFINE p == [q EXCEPT !.pc = "hedge2", !.at = <<t>>]
    <2>1. req' = [req EXCEPT ![r] = p] /\ slot' = [slot EXCEPT ![t] = slot[t] + 1]
      BY <1>2 DEF HedgeFirst
    <2>2. /\ ReqOK(p) /\ Held(q) = {} /\ Clears(p) = {} /\ Clears(q) = {}
          /\ Held(p) = {t} /\ t \in Targets /\ Rank(p) < Rank(q)
      <3>1. p = IF TRUE THEN [q EXCEPT !.pc = "hedge2", !.at = <<q.cand[1]>>]
                        ELSE [q EXCEPT !.pc = "hedge2"]
        OBVIOUS
      <3> HIDE DEF p
      <3>2. QED
        BY <1>1, <3>1, HedgeFirstOK
    <2> HIDE DEF p
    <2>3. Held(p) = Held(q) \cup {t} /\ t \notin Held(q)
      BY <2>2
    <2>4. QED
      BY <2>1, <2>2, <2>3, TakeInv, AdvancesTo
  <1>3. CASE ~Free(t)
    <2> DEFINE p == [q EXCEPT !.pc = "hedge2"]
    <2>1. req' = [req EXCEPT ![r] = p] /\ slot' = slot
      BY <1>3 DEF HedgeFirst
    <2>2. /\ ReqOK(p) /\ Held(q) = {} /\ Clears(p) = {} /\ Clears(q) = {}
          /\ Held(p) = {} /\ Rank(p) < Rank(q)
      <3>1. p = IF FALSE THEN [q EXCEPT !.pc = "hedge2", !.at = <<q.cand[1]>>]
                         ELSE [q EXCEPT !.pc = "hedge2"]
        OBVIOUS
      <3> HIDE DEF p
      <3>2. QED
        BY <1>1, <3>1, HedgeFirstOK
    <2> HIDE DEF p
    <2>3. QED
      BY <2>1, <2>2, KeepInv, AdvancesTo
  <1>4. QED
    BY <1>2, <1>3

\* The second slot of a hedged call.
LEMMA HedgeSecondInv ==
    ASSUME FInv, NEW r \in Requests, HedgeSecond(r)
    PROVE  FInv' /\ Advances(r)
  <1> DEFINE q == req[r]
             t == q.cand[2]
  <1>1. q.pc = "hedge2" /\ ReqOK(q)
    BY DEF HedgeSecond, FInv
  <1>2. CASE Free(t)
    <2> DEFINE p == [q EXCEPT !.pc = IF q.at # <<>> THEN "call" ELSE "release",
                              !.at = Append(q.at, t)]
    <2>1. req' = [req EXCEPT ![r] = p] /\ slot' = [slot EXCEPT ![t] = slot[t] + 1]
      BY <1>2 DEF HedgeSecond
    <2>2. /\ ReqOK(p) /\ Clears(p) = {} /\ Clears(q) = {}
          /\ t \in Targets /\ t \notin Held(q) /\ Held(p) = Held(q) \cup {t}
          /\ Rank(p) < Rank(q)
      BY <1>1, HedgeSecondOK
    <2> HIDE DEF p
    <2>3. QED
      BY <2>1, <2>2, TakeInv, AdvancesTo
  <1>3. CASE ~Free(t)
    <2> DEFINE p == [q EXCEPT !.pc = IF q.at # <<>> THEN "release" ELSE "loop",
                              !.kind = IF q.at # <<>> THEN q.kind ELSE "sync"]
    <2>1. req' = [req EXCEPT ![r] = p] /\ slot' = slot
      BY <1>3 DEF HedgeSecond
    <2>2. /\ ReqOK(p) /\ Clears(p) = {} /\ Clears(q) = {}
          /\ Held(p) = Held(q) /\ Rank(p) < Rank(q)
      BY <1>1, HedgeRefusedOK
    <2> HIDE DEF p
    <2>3. QED
      BY <2>1, <2>2, KeepInv, AdvancesTo
  <1>4. QED
    BY <1>2, <1>3

\* The next candidate's slot.
LEMMA TryInv ==
    ASSUME FInv, NEW r \in Requests, Try(r)
    PROVE  FInv' /\ Advances(r)
  <1> DEFINE q == req[r]
             t == Head(q.cand)
             p == [q EXCEPT !.pc = "call", !.at = <<t>>, !.cand = Tail(q.cand),
                            !.full = FALSE]
  <1>1. /\ q.pc = "loop" /\ q.cand # <<>> /\ ReqOK(q) /\ req' = [req EXCEPT ![r] = p]
        /\ slot' = IF Slotted(q) THEN [slot EXCEPT ![t] = slot[t] + 1] ELSE slot
    BY DEF Try, FInv
  <1>2. /\ ReqOK(p) /\ Clears(p) = {} /\ Clears(q) = {} /\ Held(q) = {} /\ t \in Targets
        /\ Held(p) = (IF Slotted(q) THEN {t} ELSE {}) /\ Rank(p) < Rank(q)
    BY <1>1, TryOK
  <1> HIDE DEF p, t
  <1>3. CASE Slotted(q)
    <2>1. Held(p) = Held(q) \cup {t} /\ t \notin Held(q)
      BY <1>2, <1>3
    <2>2. slot' = [slot EXCEPT ![t] = slot[t] + 1]
      BY <1>1, <1>3
    <2>3. QED
      BY <1>1, <1>2, <2>1, <2>2, TakeInv, AdvancesTo
  <1>4. CASE ~Slotted(q)
    <2>1. Held(p) = Held(q) /\ slot' = slot
      BY <1>1, <1>2, <1>4
    <2>2. QED
      BY <1>1, <1>2, <2>1, KeepInv, AdvancesTo
  <1>5. QED
    BY <1>3, <1>4

\* A candidate is saturated or has no adapter.
LEMMA PassInv ==
    ASSUME FInv, NEW r \in Requests, Saturated(r) \/ Skip(r)
    PROVE  FInv' /\ Advances(r)
  <1> DEFINE q == req[r]
  <1>1. q.pc = "loop" /\ q.cand # <<>> /\ ReqOK(q) /\ q \in Request /\ slot' = slot
    BY DEF Saturated, Skip, FInv
  <1>2. PICK f \in BOOLEAN : req' = [req EXCEPT ![r] = [q EXCEPT !.cand = Tail(q.cand),
                                                                 !.full = f]]
    <2>1. CASE Skip(r)
      BY <2>1 DEF Skip
    <2>2. CASE Saturated(r)
      <3>1. q.full \in BOOLEAN
        BY <1>1, ReqFields
      <3>2. [q EXCEPT !.cand = Tail(q.cand)] = [q EXCEPT !.cand = Tail(q.cand), !.full = q.full]
        <4> DEFINE c == Tail(q.cand)
        <4> HIDE DEF c
        <4>1. [q EXCEPT !.cand = c] = [q EXCEPT !.cand = c, !.full = q.full]
          BY <1>1 DEF Request
        <4>2. QED
          BY <4>1 DEF c
      <3>3. req' = [req EXCEPT ![r] = [q EXCEPT !.cand = Tail(q.cand)]]
        BY <2>2 DEF Saturated
      <3>4. QED
        BY <3>1, <3>2, <3>3
    <2>3. QED
      BY <2>1, <2>2
  <1> DEFINE p == [q EXCEPT !.cand = Tail(q.cand), !.full = f]
  <1>3. ReqOK(p) /\ Clears(p) = Clears(q) /\ Held(p) = Held(q) /\ Rank(p) < Rank(q)
    BY <1>1, PassOK
  <1>4. req' = [req EXCEPT ![r] = p]
    BY <1>2
  <1> HIDE DEF p
  <1>5. QED
    BY <1>1, <1>3, <1>4, KeepInv, AdvancesTo

\* The decrement of model_router_release_target.
LEMMA ReleaseInv ==
    ASSUME FInv, NEW r \in Requests, Release(r)
    PROVE  FInv' /\ Advances(r)
  <1> DEFINE q == req[r]
             t == Head(q.at)
             p == IF slot[t] <= 1 THEN [q EXCEPT !.pc = "clear"] ELSE DropFirst(q)
  <1>1. /\ q.pc = "release" /\ ReqOK(q) /\ req' = [req EXCEPT ![r] = p]
        /\ slot' = [slot EXCEPT ![t] = slot[t] - 1]
    BY DEF Release, FInv
  <1>2. /\ t \in Targets /\ t \in Range(q.at) /\ Range(Tail(q.at)) = Range(q.at) \ {t}
        /\ Slotted(q)
    BY <1>1, Releasing
  <1>3. Held(q) = Range(q.at) /\ Clears(q) = {}
    BY <1>1, <1>2 DEF Held, Clears
  <1>4. /\ ReqOK(p) /\ Held(p) = Range(Tail(q.at)) /\ Rank(p) < Rank(q)
        /\ Clears(p) = IF slot[t] <= 1 THEN {t} ELSE {}
    <2>1. CASE slot[t] <= 1
      BY <1>1, <2>1, ToClearOK
    <2>2. CASE ~(slot[t] <= 1)
      BY <1>1, <2>2, DropFirstOK
    <2>3. QED
      BY <2>1, <2>2
  <1> HIDE DEF p, t
  <1>5. t \in Held(q) /\ Held(p) = Held(q) \ {t}
    BY <1>2, <1>3, <1>4
  <1>6. QED
    BY <1>1, <1>2, <1>3, <1>4, <1>5, GiveInv, AdvancesTo

\* Its store of 0.
LEMMA ReleaseClearInv ==
    ASSUME FInv, NEW r \in Requests, ReleaseClear(r)
    PROVE  FInv' /\ Advances(r)
  <1> DEFINE q == req[r]
             t == Head(q.at)
             p == DropFirst(q)
  <1>1. /\ q.pc = "clear" /\ ReqOK(q) /\ req' = [req EXCEPT ![r] = p]
        /\ slot' = [slot EXCEPT ![t] = 0]
    BY DEF ReleaseClear, FInv
  <1>2. t \in Targets /\ Slotted(q)
    BY <1>1, Releasing
  <1>3. Held(q) = Range(Tail(q.at)) /\ Clears(q) = {t}
    BY <1>1, <1>2 DEF Held, Clears
  <1>4. ReqOK(p) /\ Held(p) = Range(Tail(q.at)) /\ Rank(p) < Rank(q) /\ Clears(p) = {}
    BY <1>1, DropFirstOK
  <1> HIDE DEF p, t
  <1>5. Held(p) = Held(q)
    BY <1>3, <1>4
  <1>6. QED
    BY <1>1, <1>2, <1>3, <1>4, <1>5, ClearInv, AdvancesTo

\* The attempt keeps its slots until they are given back.
LEMMA CallInv ==
    ASSUME FInv, NEW r \in Requests, NEW built \in BOOLEAN, Call(r, built)
    PROVE  FInv' /\ Advances(r)
  <1> DEFINE q == req[r]
             m == [q EXCEPT !.built = built,
                            !.last = IF built THEN q.at ELSE <<>>,
                            !.pc = IF Slotted(q) THEN "release"
                                   ELSE IF built THEN "record" ELSE "loop",
                            !.at = IF Slotted(q) THEN q.at ELSE <<>>,
                            !.tried = IF built THEN q.tried \cup Range(q.at) ELSE q.tried]
             p == IF q.kind = "hedged" /\ built
                  THEN [m EXCEPT !.cand = SubSeq(q.cand, 3, Len(q.cand)),
                                 !.full = Len(q.cand) > 2]
                  ELSE m
  <1>1. q.pc = "call" /\ ReqOK(q) /\ slot' = slot
    BY DEF Call, FInv
  <1>2. req' = [req EXCEPT ![r] = p]
    BY DEF Call
  <1>3. ReqOK(p) /\ Clears(p) = Clears(q) /\ Held(p) = Held(q) /\ Rank(p) < Rank(q)
    BY <1>1, CallOK
  <1> HIDE DEF p, m
  <1>4. QED
    BY <1>1, <1>2, <1>3, KeepInv, AdvancesTo

\* The outcome is recorded: the request ends, or goes on without its hedge.
LEMMA RecordInv ==
    ASSUME FInv, NEW r \in Requests, NEW t, NEW out, Record(r, t, out)
    PROVE  FInv' /\ Advances(r)
  <1> DEFINE q == req[r]
             p == [q EXCEPT !.pc = "loop", !.last = <<>>, !.kind = Unhedged(q.kind)]
             a == IF out = "ok" THEN "answered" ELSE "failed"
  <1>1. /\ q.pc = "record" /\ ReqOK(q) /\ slot' = slot
        /\ req' = [req EXCEPT ![r] = IF out \in Retried THEN p ELSE Resting(a)]
    BY DEF Record, FInv
  <1>2. CASE out \in Retried
    <2>1. ReqOK(p) /\ Clears(p) = Clears(q) /\ Held(p) = Held(q) /\ Rank(p) < Rank(q)
      BY <1>1, RetryOK
    <2>2. req' = [req EXCEPT ![r] = p]
      BY <1>1, <1>2
    <2> HIDE DEF p
    <2>3. QED
      BY <1>1, <2>1, <2>2, KeepInv, AdvancesTo
  <1>3. CASE out \notin Retried
    <2>1. a \in Ended
      BY DEF Ended
    <2>2. req' = [req EXCEPT ![r] = Resting(a)]
      BY <1>1, <1>3
    <2> HIDE DEF a
    <2>3. QED
      BY <1>1, <2>1, <2>2, EndInv
  <1>4. QED
    BY <1>2, <1>3

\* No candidate is left.
LEMMA ExhaustedInv ==
    ASSUME FInv, NEW r \in Requests, Exhausted(r)
    PROVE  FInv' /\ Advances(r)
  <1> DEFINE a == IF req[r].full THEN "busy" ELSE "failed"
  <1>1. req[r].pc = "loop" /\ slot' = slot /\ req' = [req EXCEPT ![r] = Resting(a)]
    BY DEF Exhausted
  <1>2. a \in Ended
    BY DEF Ended
  <1> HIDE DEF a
  <1>3. QED
    BY <1>1, <1>2, EndInv

\* A step that changes neither slots nor requests.
LEMMA StutterInv ==
    ASSUME FInv, slot' = slot, req' = req
    PROVE  FInv'
  <1>1. \A t \in Targets : Holders(t)' = Holders(t)
    BY DEF Holders, Holds
  <1>2. \A t \in Targets, x \in Requests : Clearing(x, t)' <=> Clearing(x, t)
    BY DEF Clearing
  <1>3. SlotsReturn'
    BY <1>1, <1>2 DEF FInv, SlotsReturn
  <1>4. QED
    BY <1>3 DEF FInv

\* Every step is a step of one request, or leaves slots and requests alone.
LEMMA NextSteps ==
    ASSUME FInv, [Next]_vars
    PROVE  /\ FInv'
           /\ (\E r \in Requests : Advances(r)) \/ req' = req
  <1>1. ASSUME NEW r \in Requests, Step(r) PROVE FInv' /\ Advances(r)
    <2>1. CASE \E built \in BOOLEAN : Call(r, built)
      BY <2>1, CallInv
    <2>2. CASE \E t \in Targets, out \in Outcomes("stream") : Record(r, t, out)
      BY <2>2, RecordInv
    <2>3. QED
      BY <1>1, <2>1, <2>2, AskInv, SelectHealthyInv, SelectTrippedInv, HedgeFirstInv,
         HedgeSecondInv, TryInv, PassInv, ExhaustedInv, ReleaseInv, ReleaseClearInv, Zenon
         DEF Step
  <1>2. ASSUME NEW r \in Requests, NEW k \in Kinds[r], Arrive(r, k)
        PROVE  FInv' /\ Advances(r)
    BY <1>2, ArriveInv
  <1>3. ASSUME NEW r \in Requests, NEW k \in Kinds[r], NEW t \in Targets,
               ArriveTargeted(r, k, t)
        PROVE  FInv' /\ Advances(r)
    BY <1>3, TargetedInv
  <1>4. CASE Tick \/ UNCHANGED vars
    <2>1. slot' = slot /\ req' = req
      BY <1>4 DEF Tick, vars
    <2>2. QED
      BY <2>1, StutterInv
  <1>5. QED
    BY <1>1, <1>2, <1>3, <1>4 DEF Next

\* Initially no slot is taken.
LEMMA FInit == Init => FInv
  <1> SUFFICES ASSUME Init PROVE FInv
    OBVIOUS
  <1>1. /\ slot = [t \in Targets |-> 0] /\ req = [r \in Requests |-> Resting("idle")]
    BY DEF Init
  <1>2. "idle" \in Ended
    BY DEF Ended
  <1>3. /\ ReqOK(Resting("idle")) /\ Held(Resting("idle")) = {}
        /\ Resting("idle") \in Request
    BY <1>2, RestingOK DEF ReqOK
  <1>4. \A t \in Targets : slot[t] = 0 /\ Cardinality(Holders(t)) \in Nat
    BY <1>1, HoldersFinite
  <1>5. SlotsReturn
    BY <1>4 DEF SlotsReturn
  <1>6. slot \in [Targets -> Int] /\ req \in [Requests -> Request]
    BY <1>1, <1>3
  <1>7. \A r \in Requests : ReqOK(req[r])
    BY <1>1, <1>3
  <1>8. QED
    BY <1>5, <1>6, <1>7 DEF FInv

-----------------------------------------------------------------------------
\* The inductive invariant holds in every reachable state.
THEOREM FailoverInvariant == Spec => []FInv
  <1>1. FInv /\ [Next]_vars => FInv'
    BY NextSteps
  <1>2. QED
    BY <1>1, FInit, PTL DEF Spec

\* For every number of targets and requests and every limit: in_flight never
\* counts more requests than hold the slot and comes back to 0
\* (model_router_acquire_target, model_router_release_target and the loops).
THEOREM SlotsAreReturned == Spec => []SlotsReturn
  <1>1. FInv => SlotsReturn
    BY DEF FInv
  <1>2. QED
    BY <1>1, FailoverInvariant, PTL

\* For every assignment of priorities: a target is called only when the
\* admitted targets of the higher tiers have had their turn
\* (model_router_select_candidates).
THEOREM TiersInOrder == Spec => []BestTierFirst
  <1>1. FInv => BestTierFirst
    <2> SUFFICES ASSUME FInv, NEW r \in Requests, req[r].pc = "call",
                        req[r].kind # "hedged", NEW t \in Range(req[r].at),
                        NEW u \in req[r].ok \cap Range(req[r].cand)
                 PROVE  Prio[t] <= Prio[u]
      BY DEF BestTierFirst
    <2> DEFINE q == req[r]
    <2>1. q \in Request /\ Shape(q) /\ Tiered(q) /\ q.at \in Seq(Targets)
          /\ q.cand \in Seq(Targets)
      BY ReqFields DEF FInv, ReqOK
    <2>2. Len(q.at) = 1
      BY <2>1 DEF Shape
    <2>3. t = q.at[1]
      BY <2>1, <2>2, ShortRange
    <2>4. PICK i \in 1 .. Len(q.cand) : u = q.cand[i]
      <3>1. DOMAIN q.cand = 1 .. Len(q.cand)
        BY <2>1, LenProperties
      <3>2. QED
        BY <3>1 DEF Range
    <2>5. q.ok # {}
      OBVIOUS
    <2>6. QED
      BY <2>1, <2>3, <2>4, <2>5 DEF Tiered
  <1>2. QED
    BY <1>1, FailoverInvariant, PTL

\* For every number of candidates: no request calls the same target twice, the
\* hedged attempt and the loop after it taken together (the failover loops of
\* the pipelines).
THEOREM TargetsOnce == Spec => []NoTargetTwice
  <1>1. FInv => NoTargetTwice
    <2> SUFFICES ASSUME FInv, NEW r \in Requests, req[r].pc = "call"
                 PROVE  Range(req[r].at) \cap req[r].tried = {}
      BY DEF NoTargetTwice
    <2> DEFINE q == req[r]
    <2>1. q \in Request /\ Shape(q) /\ Turns(q) /\ q.at \in Seq(Targets)
      BY ReqFields DEF FInv, ReqOK
    <2>2. CASE q.kind = "hedged"
      <3>1. /\ q.at = <<q.cand[1], q.cand[2]>> /\ Len(q.cand) >= 2
        BY <2>1, <2>2 DEF Shape
      <3>2. Len(q.at) = 2 /\ q.at[1] = q.cand[1] /\ q.at[2] = q.cand[2]
        BY <3>1
      <3>3. Len(q.cand) \in Nat
        BY <2>1, ReqFields, LenProperties
      <3>4. 1 \in 1 .. Len(q.cand) /\ 2 \in 1 .. Len(q.cand)
        BY <3>1, <3>3
      <3>5. q.cand[1] \notin q.tried /\ q.cand[2] \notin q.tried
        BY <2>1, <3>4 DEF Turns
      <3>6. Range(q.at) = {q.cand[1], q.cand[2]}
        BY <2>1, <3>2, ShortRange
      <3>7. QED
        BY <3>5, <3>6
    <2>3. CASE q.kind # "hedged"
      <3>1. Len(q.at) = 1 /\ q.at[1] \notin q.tried
        BY <2>1, <2>3 DEF Shape, Turns
      <3>2. Range(q.at) = {q.at[1]}
        BY <2>1, <3>1, ShortRange
      <3>3. QED
        BY <3>1, <3>2
    <2>4. QED
      BY <2>2, <2>3
  <1>2. QED
    BY <1>1, FailoverInvariant, PTL

\* For every number of targets: each step of a request brings it closer to its
\* answer, so the loops of selection, hedging and failover end.
THEOREM StepsAdvance == Spec => EveryStepAdvances
  <1> DEFINE A == \A r \in Requests :
                     req[r].pc \notin Ended /\ req'[r] # req[r] => Rank(req'[r]) < Rank(req[r])
  <1>1. FInv /\ [Next]_vars => [A]_vars
    <2> SUFFICES ASSUME FInv, [Next]_vars, NEW r \in Requests, req[r].pc \notin Ended,
                        req'[r] # req[r]
                 PROVE  Rank(req'[r]) < Rank(req[r])
      OBVIOUS
    <2>1. (\E x \in Requests : Advances(x)) \/ req' = req
      BY NextSteps
    <2>2. QED
      BY <2>1 DEF Advances
  <1>2. QED
    BY <1>1, FailoverInvariant, PTL DEF Spec, EveryStepAdvances
=============================================================================
