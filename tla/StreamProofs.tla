---------------------------- MODULE StreamProofs -----------------------------
(***************************************************************************)
(* Proofs about a streamed answer (Stream), for every kind of route, every *)
(* way the upstream's bytes are cut into chunks and every size of the      *)
(* accumulator.                                                            *)
(*                                                                         *)
(* StreamInv.  What has arrived of the upstream's current line is in the   *)
(* bridge's line buffer (Buffered), and of the lines before it the bridge  *)
(* has sent, in order and once, the items that are due and has read the    *)
(* usage they report (Followed): both as long as the stream is heard, that *)
(* is its lines fit the buffer, no attempt left something behind and, on a *)
(* native route, the client is there (Caught).  The accumulator holds the  *)
(* texts that were sent, unless it overflowed (AccHolds); so a replay has  *)
(* the texts of the answer that was stored (CacheHoldsAnswer).  Items      *)
(* are compared by their numbers: what one event adds to the frames is a   *)
(* loop over sequences (FlattenSeq), and the lemmas under Flattening say   *)
(* what it does to a concatenation and to the elements that are kept.      *)
(*                                                                         *)
(* Orderly, on top of it.  Steps says of the line under way how it moves   *)
(* the upstream on: that items are numbered, which events bring a thought, *)
(* and after which no thought may come if ThoughtsFirst.  ChatOk ties the  *)
(* flags of a chat bridge to its frames: a tag is in them if its flag says *)
(* so, no thought follows a closed tag (Sync), [DONE] comes with the end.  *)
(* MsgGood does it for the blocks of a message: the positions at which     *)
(* block 0 and block 1 were started, filled and stopped are a function of  *)
(* five flags (BlocksBy) and are ordered (Blocks).  ChatOver and MsgOver   *)
(* say what the bridges' ends make of it.                                  *)
(***************************************************************************)
EXTENDS Stream, Integers, FiniteSetTheorems, SequenceTheorems, WellFoundedInduction, NaturalsInduction, TLAPS

-----------------------------------------------------------------------------
(* Numbers                                                                   *)

LEMMA SmallerIsWellFounded == IsWellFoundedOn({pair \in Nat \X Nat : pair[1] < pair[2]}, Nat)
  BY NatLessThanWellFounded DEF OpToRel

LEMMA LeastNumber ==
    ASSUME NEW T \in SUBSET Nat, T # {}
    PROVE  \E n \in T : \A m \in T : n <= m
<1> DEFINE Smaller == {pair \in Nat \X Nat : pair[1] < pair[2]}
<1>1. IsWellFoundedOn(Smaller, Nat)
  BY SmallerIsWellFounded
<1> HIDE DEF Smaller
<1>2. PICK n \in T : \A m \in T : ~(<<m, n>> \in Smaller)
  BY <1>1, WFMin
<1>3. \A m \in T : ~(m < n)
  BY <1>2 DEF Smaller
<1> QED
  BY <1>3

LEMMA AllNumbers ==
    ASSUME NEW T \in SUBSET Nat, 0 \in T, \A n \in T : n + 1 \in T
    PROVE  T = Nat
<1> SUFFICES ASSUME T # Nat PROVE FALSE
  OBVIOUS
<1>1. PICK n \in Nat \ T : \A m \in Nat \ T : n <= m
  BY LeastNumber
<1>2. n - 1 \in Nat /\ n - 1 \in T
  BY <1>1
<1> QED
  BY <1>1, <1>2

-----------------------------------------------------------------------------
(* Flattening                                                                *)

\* f joins the first files of s, up to each of them: what FlattenSeq computes.
Flattens(f, s) == \A i \in 1 .. Len(s) : f[i] = IF i = 1 THEN s[i] ELSE f[i - 1] \o s[i]

LEMMA FlattenExists ==
    ASSUME NEW S, NEW s \in Seq(Seq(S)), Len(s) # 0
    PROVE  \E f \in [1 .. Len(s) -> Seq(S)] : Flattens(f, s)
<1> DEFINE n == Len(s)
           Upto(m) == \E f \in [1 .. m + 1 -> Seq(S)] :
                        \A i \in 1 .. m + 1 : f[i] = IF i = 1 THEN s[i] ELSE f[i - 1] \o s[i]
           T == {m \in Nat : m + 1 <= n => Upto(m)}
<1>1. n \in Nat /\ \A i \in 1 .. n : s[i] \in Seq(S)
  BY LenProperties, ElementOfSeq
<1>2. 0 \in T
  <2> SUFFICES ASSUME 1 <= n PROVE Upto(0)
    OBVIOUS
  <2> DEFINE f == [i \in 1 .. 0 + 1 |-> s[1]]
  <2>1. f \in [1 .. 0 + 1 -> Seq(S)]
    BY <1>1
  <2>2. \A i \in 1 .. 0 + 1 : f[i] = IF i = 1 THEN s[i] ELSE f[i - 1] \o s[i]
    OBVIOUS
  <2> QED
    BY <2>1, <2>2
<1>3. ASSUME NEW m \in Nat, (m + 1) + 1 <= n, Upto(m) PROVE Upto(m + 1)
  <2>1. m \in Nat /\ m + 1 <= n
    BY <1>1, <1>3
  <2>2. PICK f \in [1 .. m + 1 -> Seq(S)] :
          \A i \in 1 .. m + 1 : f[i] = IF i = 1 THEN s[i] ELSE f[i - 1] \o s[i]
    BY <1>3
  <2> DEFINE longer == f[m + 1] \o s[m + 2]
             g == [i \in 1 .. (m + 1) + 1 |-> IF i = m + 2 THEN longer ELSE f[i]]
  <2>3. longer \in Seq(S)
    <3>1. f[m + 1] \in Seq(S) /\ s[m + 2] \in Seq(S)
      <4>1. m + 1 \in 1 .. m + 1 /\ m + 2 \in 1 .. n
        BY <1>1, <1>3, <2>1
      <4> QED
        BY <1>1, <2>2, <4>1
    <3> QED
      BY <3>1, ConcatProperties
  <2>4. g \in [1 .. (m + 1) + 1 -> Seq(S)]
    <3> HIDE DEF longer
    <3> QED
      BY <2>1, <2>2, <2>3
  <2>5. g[m + 2] = longer /\ \A i \in 1 .. m + 1 : g[i] = f[i]
    <3> HIDE DEF longer
    <3> QED
      BY <2>1
  <2> HIDE DEF g
  <2>6. ASSUME NEW i \in 1 .. (m + 1) + 1 PROVE g[i] = IF i = 1 THEN s[i] ELSE g[i - 1] \o s[i]
    <3>1. CASE i = m + 2
      <4>1. i # 1 /\ i - 1 = m + 1 /\ m + 1 \in 1 .. m + 1
        BY <2>1, <3>1
      <4>2. g[i - 1] = f[m + 1]
        BY <2>5, <4>1, Zenon
      <4>3. g[i] = g[i - 1] \o s[i]
        BY <2>5, <3>1, <4>2, Zenon
      <4> QED
        BY <4>1, <4>3, Zenon
    <3>2. CASE i # m + 2
      <4>1. i \in 1 .. m + 1
        BY <2>1, <3>2
      <4>2. CASE i = 1
        BY <2>2, <2>5, <4>1, <4>2, Zenon
      <4>3. CASE i # 1
        <5>1. i - 1 \in 1 .. m + 1
          BY <2>1, <4>1, <4>3
        <5>2. g[i - 1] = f[i - 1] /\ g[i] = f[i] /\ f[i] = f[i - 1] \o s[i]
          BY <2>2, <2>5, <4>1, <4>3, <5>1, Zenon
        <5> QED
          BY <4>3, <5>2, Zenon
      <4> QED
        BY <4>2, <4>3
    <3> QED
      BY <3>1, <3>2
  <2> QED
    BY <2>4, <2>6, Zenon
<1>4. T = Nat
  <2>1. T \in SUBSET Nat
    OBVIOUS
  <2>2. ASSUME NEW m \in T PROVE m + 1 \in T
    <3> HIDE DEF Upto
    <3>1. m \in Nat /\ (m + 1 <= n => Upto(m)) /\ m + 1 \in Nat
      OBVIOUS
    <3>2. (m + 1) + 1 <= n => m + 1 <= n
      BY <1>1, <3>1
    <3>3. (m + 1) + 1 <= n => Upto(m + 1)
      BY <1>3, <3>1, <3>2
    <3> QED
      BY <3>1, <3>3, Zenon
  <2> HIDE DEF T
  <2> QED
    BY <1>2, <2>1, <2>2, AllNumbers, Zenon
<1>5. n - 1 \in Nat /\ (n - 1) + 1 = n
  BY <1>1
<1>6. PICK m \in Nat : m = n - 1 /\ m + 1 = n
  BY <1>5
<1>7. Upto(m)
  <2>1. m \in T
    BY <1>4
  <2> QED
    BY <1>1, <1>6, <2>1
<1>8. \E f \in [1 .. n -> Seq(S)] : \A i \in 1 .. n : f[i] = IF i = 1 THEN s[i] ELSE f[i - 1] \o s[i]
  BY <1>6, <1>7, Zenon
<1> QED
  BY <1>8, Zenon DEF Flattens

\* f and g do so for two logs with the same first n files.
FlattenTwo(f, g, s, t, n) ==
    /\ Len(s) \in Nat /\ Len(t) \in Nat /\ n \in Nat /\ n <= Len(s) /\ n <= Len(t)
    /\ \A i \in 1 .. n : s[i] = t[i]
    /\ Flattens(f, s) /\ Flattens(g, t)

SameUpto(f, g, n) == \A i \in 1 .. n : f[i] = g[i]

LEMMA FlattenAgrees ==
    ASSUME NEW p, NEW q, NEW u, NEW v, NEW k, FlattenTwo(p, q, u, v, k)
    PROVE  SameUpto(p, q, k)
<1> DEFINE T == {m \in Nat : m + 1 <= k => p[m + 1] = q[m + 1]}
<1>0. /\ Len(u) \in Nat /\ Len(v) \in Nat /\ k \in Nat /\ k <= Len(u) /\ k <= Len(v)
      /\ \A i \in 1 .. k : u[i] = v[i]
      /\ Flattens(p, u) /\ Flattens(q, v)
  BY Zenon DEF FlattenTwo
<1>1. \A i \in 1 .. k : /\ p[i] = IF i = 1 THEN u[i] ELSE p[i - 1] \o u[i]
                        /\ q[i] = IF i = 1 THEN u[i] ELSE q[i - 1] \o u[i]
  <2>1. \A i \in 1 .. k : i \in 1 .. Len(u) /\ i \in 1 .. Len(v)
    BY <1>0
  <2> QED
    BY <1>0, <2>1, Zenon DEF Flattens
<1>2. 0 \in T
  <2>1. 1 <= k => 1 \in 1 .. k
    BY <1>0
  <2>2. 1 <= k => p[1] = q[1]
    BY <1>1, <2>1, Zenon
  <2> QED
    BY <2>2
<1>3. ASSUME NEW m \in T PROVE m + 1 \in T
  <2>1. m \in Nat /\ (m + 1 <= k => p[m + 1] = q[m + 1])
    OBVIOUS
  <2>2. ASSUME m + 2 <= k PROVE p[m + 2] = q[m + 2]
    <3>1. m + 2 \in 1 .. k /\ m + 2 # 1 /\ (m + 2) - 1 = m + 1 /\ m + 1 <= k
      BY <1>0, <2>1, <2>2
    <3>2. p[m + 2] = p[(m + 2) - 1] \o u[m + 2] /\ q[m + 2] = q[(m + 2) - 1] \o u[m + 2]
      BY <1>1, <3>1, Zenon
    <3> QED
      BY <2>1, <3>1, <3>2, Zenon
  <2>3. m + 1 \in Nat /\ (m + 1) + 1 = m + 2
    BY <2>1
  <2> QED
    BY <2>2, <2>3, Zenon
<1>4. T = Nat
  <2>1. T \in SUBSET Nat
    OBVIOUS
  <2> HIDE DEF T
  <2> QED
    BY <1>2, <1>3, <2>1, AllNumbers, Zenon
<1> SUFFICES ASSUME NEW i \in 1 .. k PROVE p[i] = q[i]
  BY DEF SameUpto
<1>5. PICK m \in Nat : m = i - 1 /\ m + 1 = i /\ m + 1 <= k
  <2>1. i - 1 \in Nat /\ (i - 1) + 1 = i /\ i <= k
    BY <1>0
  <2> QED
    BY <2>1
<1>6. m \in T
  BY <1>4
<1>7. p[m + 1] = q[m + 1]
  BY <1>5, <1>6
<1> QED
  BY <1>5, <1>7, Zenon

LEMMA FlattenIs ==
    ASSUME NEW S, NEW s \in Seq(Seq(S)), Len(s) # 0
    PROVE  \E f \in [1 .. Len(s) -> Seq(S)] : Flattens(f, s) /\ FlattenSeq(s) = f[Len(s)]
<1> DEFINE Def(f) == f = [i \in 1 .. Len(s) |-> IF i = 1 THEN s[i] ELSE f[i - 1] \o s[i]]
           flatten == CHOOSE f : Def(f)
<1>0. Len(s) \in Nat /\ Len(s) \in 1 .. Len(s) /\ Len(s) <= Len(s)
  BY LenProperties
<1>1. PICK f \in [1 .. Len(s) -> Seq(S)] : Flattens(f, s)
  BY FlattenExists
<1>2. Def(f)
  <2>1. f = [i \in 1 .. Len(s) |-> f[i]]
    BY <1>1
  <2>2. \A i \in 1 .. Len(s) : f[i] = IF i = 1 THEN s[i] ELSE f[i - 1] \o s[i]
    BY <1>1, Zenon DEF Flattens
  <2> QED
    BY <2>1, <2>2, Zenon
<1>3. Def(flatten)
  BY <1>2, Zenon
<1>4. FlattenSeq(s) = flatten[Len(s)]
  BY Zenon DEF FlattenSeq
<1>5. Flattens(flatten, s)
  BY <1>3, Zenon DEF Flattens
<1> HIDE DEF flatten
<1>6. \A i \in 1 .. Len(s) : f[i] = flatten[i]
  <2>1. \A i \in 1 .. Len(s) : s[i] = s[i]
    OBVIOUS
  <2>2. FlattenTwo(f, flatten, s, s, Len(s))
    BY <1>0, <1>1, <1>5, <2>1, Zenon DEF FlattenTwo
  <2>3. SameUpto(f, flatten, Len(s))
    BY <2>2, FlattenAgrees, Zenon
  <2> QED
    BY <2>3, Zenon DEF SameUpto
<1> QED
  BY <1>0, <1>1, <1>4, <1>6, Zenon

LEMMA FlattenAppend ==
    ASSUME NEW S, NEW s \in Seq(Seq(S)), NEW x \in Seq(S)
    PROVE  /\ FlattenSeq(Append(s, x)) = FlattenSeq(s) \o x
           /\ FlattenSeq(s) \in Seq(S)
<1> DEFINE n == Len(s)
           t == Append(s, x)
<1>1. /\ t \in Seq(Seq(S)) /\ Len(t) = n + 1 /\ n \in Nat
      /\ (\A i \in 1 .. n : t[i] = s[i]) /\ t[n + 1] = x
  BY AppendProperties, LenProperties
<1> HIDE DEF t
<1>2. PICK g \in [1 .. Len(t) -> Seq(S)] : Flattens(g, t) /\ FlattenSeq(t) = g[Len(t)]
  <2>1. Len(t) # 0
    BY <1>1
  <2> QED
    BY <1>1, <2>1, FlattenIs
<1>3. g[n + 1] = IF n + 1 = 1 THEN x ELSE g[(n + 1) - 1] \o x
  <2>1. n + 1 \in 1 .. Len(t)
    BY <1>1
  <2> QED
    BY <1>1, <1>2, <2>1, Zenon DEF Flattens
<1>4. CASE n = 0
  <2>1. FlattenSeq(t) = x
    BY <1>1, <1>2, <1>3, <1>4
  <2>2. s = <<>>
    BY <1>4, EmptySeq
  <2>3. FlattenSeq(s) = <<>>
    BY <1>4, <2>2, Zenon DEF FlattenSeq
  <2>4. <<>> \o x = x /\ <<>> \in Seq(S)
    BY ConcatEmptySeq, EmptySeq
  <2> QED
    BY <2>1, <2>3, <2>4, Zenon DEF t
<1>5. CASE n # 0
  <2>1. PICK f \in [1 .. n -> Seq(S)] : Flattens(f, s) /\ FlattenSeq(s) = f[n]
    BY <1>5, FlattenIs
  <2>2. n <= Len(s) /\ n <= Len(t) /\ Len(s) \in Nat /\ Len(t) \in Nat /\ n \in 1 .. n
        /\ (n + 1) - 1 = n /\ n + 1 # 1
    BY <1>1, <1>5
  <2>3. \A i \in 1 .. n : s[i] = t[i]
    BY <1>1
  <2>4. \A i \in 1 .. n : f[i] = g[i]
    <3> HIDE DEF n
    <3>1. n \in Nat /\ Len(s) \in Nat /\ Len(t) \in Nat /\ n <= Len(s) /\ n <= Len(t)
      BY <1>1, <2>2, Zenon
    <3>2. Flattens(f, s) /\ Flattens(g, t)
      BY <1>2, <2>1, Zenon
    <3>3. FlattenTwo(f, g, s, t, n)
      BY <2>3, <3>1, <3>2, Zenon DEF FlattenTwo
    <3>4. SameUpto(f, g, n)
      BY <3>3, FlattenAgrees, Zenon
    <3> QED
      BY <3>4, Zenon DEF SameUpto
  <2>5. g[n] = f[n] /\ f[n] \in Seq(S)
    BY <2>1, <2>2, <2>4
  <2>6. FlattenSeq(t) = f[n] \o x
    BY <1>1, <1>2, <1>3, <2>2, <2>5, Zenon
  <2> QED
    BY <2>1, <2>5, <2>6, Zenon DEF t
<1> QED
  BY <1>4, <1>5

\* Joining commutes with putting sequences one after the other.
LEMMA FlattenJoin ==
    ASSUME NEW S, NEW s \in Seq(Seq(S)), NEW t \in Seq(Seq(S))
    PROVE  FlattenSeq(s \o t) = FlattenSeq(s) \o FlattenSeq(t) /\ FlattenSeq(s) \in Seq(S)
<1> DEFINE Q(v) == FlattenSeq(s \o v) = FlattenSeq(s) \o FlattenSeq(v)
           T == {m \in Nat : \A v \in Seq(Seq(S)) : Len(v) = m => Q(v)}
<1>1. FlattenSeq(s) \in Seq(S)
  <2>1. <<>> \in Seq(S)
    BY EmptySeq
  <2> QED
    BY <2>1, FlattenAppend
<1>2. 0 \in T
  <2> SUFFICES ASSUME NEW v \in Seq(Seq(S)), Len(v) = 0 PROVE Q(v)
    OBVIOUS
  <2>1. v = <<>>
    BY EmptySeq
  <2>2. s \o v = s
    BY <2>1, ConcatEmptySeq
  <2>3. FlattenSeq(v) = <<>>
    BY <2>1 DEF FlattenSeq
  <2>4. FlattenSeq(s) \o <<>> = FlattenSeq(s)
    BY <1>1, ConcatEmptySeq
  <2> QED
    BY <2>2, <2>3, <2>4
<1>3. ASSUME NEW m \in T PROVE m + 1 \in T
  <2>1. m \in Nat /\ \A v \in Seq(Seq(S)) : Len(v) = m => Q(v)
    OBVIOUS
  <2> HIDE DEF T, Q
  <2>2. ASSUME NEW v \in Seq(Seq(S)), Len(v) = m + 1 PROVE Q(v)
    <3>1. v # <<>>
      BY <2>1, <2>2, EmptySeq
    <3>2. PICK w \in Seq(Seq(S)), x \in Seq(S) : v = Append(w, x)
      BY <3>1, SequenceEmptyOrAppend, Zenon
    <3>3. Len(w) = m
      BY <2>1, <2>2, <3>2, AppendProperties
    <3>4. Q(w)
      BY <2>1, <3>3, Zenon
    <3>5. s \o v = Append(s \o w, x) /\ s \o w \in Seq(Seq(S))
      <4>1. v = w \o <<x>> /\ <<x>> \in Seq(Seq(S))
        BY <3>2, AppendIsConcat
      <4>2. s \o v = (s \o w) \o <<x>>
        BY <4>1, ConcatAssociative
      <4>3. s \o w \in Seq(Seq(S))
        BY ConcatProperties
      <4> QED
        BY <4>2, <4>3, AppendIsConcat
    <3>6. FlattenSeq(s \o v) = FlattenSeq(s \o w) \o x
      BY <3>5, FlattenAppend
    <3>7. FlattenSeq(v) = FlattenSeq(w) \o x /\ FlattenSeq(w) \in Seq(S)
      BY <3>2, FlattenAppend
    <3>8. FlattenSeq(s \o w) = FlattenSeq(s) \o FlattenSeq(w)
      BY <3>4 DEF Q
    <3>9. (FlattenSeq(s) \o FlattenSeq(w)) \o x = FlattenSeq(s) \o (FlattenSeq(w) \o x)
      <4>1. PICK k \in Seq(S), l \in Seq(S) : k = FlattenSeq(s) /\ l = FlattenSeq(w)
        BY <1>1, <3>7
      <4>2. (k \o l) \o x = k \o (l \o x)
        BY ConcatAssociative
      <4> QED
        BY <4>1, <4>2
    <3> QED
      BY <3>6, <3>7, <3>8, <3>9 DEF Q
  <2> QED
    BY <2>1, <2>2 DEF T
<1>4. T = Nat
  <2>1. T \in SUBSET Nat
    OBVIOUS
  <2> HIDE DEF T
  <2> QED
    BY <1>2, <1>3, <2>1, AllNumbers, Zenon
<1>5. Len(t) \in Nat
  BY LenProperties
<1> QED
  BY <1>1, <1>4, <1>5

-----------------------------------------------------------------------------
(* The elements that are kept                                                *)

LEMMA FlattenOne == ASSUME NEW S, NEW x \in Seq(S) PROVE FlattenSeq(<<x>>) = x
<1>1. <<>> \in Seq(Seq(S)) /\ Append(<<>>, x) = <<x>>
  BY EmptySeq
<1>2. FlattenSeq(<<>>) = <<>>
  BY DEF FlattenSeq
<1>3. FlattenSeq(Append(<<>>, x)) = <<>> \o x
  BY <1>1, <1>2, FlattenAppend
<1> QED
  BY <1>1, <1>3, ConcatEmptySeq

\* keep is keepS on s and keepT on t, which comes after it.
Splits(keep, keepS, keepT, s, t) ==
    /\ \A i \in 1 .. Len(s) : keep[i] = keepS[i]
    /\ \A i \in 1 .. Len(t) : keep[Len(s) + i] = keepT[i]

LEMMA KeptJoin ==
    ASSUME NEW S, NEW s \in Seq(S), NEW t \in Seq(S), NEW keep, NEW keepS, NEW keepT,
           Splits(keep, keepS, keepT, s, t)
    PROVE  Kept(s \o t, keep) = Kept(s, keepS) \o Kept(t, keepT)
<1> DEFINE r == s \o t
           P(v, k) == [i \in DOMAIN v |-> IF k[i] THEN <<v[i]>> ELSE <<>>]
<1>0. Len(s) \in Nat /\ Len(t) \in Nat /\ DOMAIN s = 1 .. Len(s) /\ DOMAIN t = 1 .. Len(t)
  BY LenProperties
<1>1. /\ r \in Seq(S) /\ Len(r) = Len(s) + Len(t) /\ DOMAIN r = 1 .. Len(s) + Len(t)
      /\ \A i \in 1 .. Len(s) + Len(t) : r[i] = IF i <= Len(s) THEN s[i] ELSE t[i - Len(s)]
  BY ConcatProperties, LenProperties
<1>2. ASSUME NEW v \in Seq(S), NEW k PROVE P(v, k) \in Seq(Seq(S)) /\ Len(P(v, k)) = Len(v) /\ DOMAIN P(v, k) = 1 .. Len(v)
  <2>1. Len(v) \in Nat /\ DOMAIN v = 1 .. Len(v) /\ \A i \in 1 .. Len(v) : v[i] \in S
    BY LenProperties, ElementOfSeq
  <2>2. \A i \in 1 .. Len(v) : <<v[i]>> \in Seq(S) /\ <<>> \in Seq(S)
    BY <2>1
  <2>3. P(v, k) \in [1 .. Len(v) -> Seq(S)]
    BY <2>1, <2>2
  <2>4. P(v, k) \in Seq(Seq(S))
    BY <2>1, <2>3, IsASeq
  <2> HIDE DEF P
  <2> QED
    BY <2>1, <2>3, <2>4, LenProperties
<1>3. P(r, keep) = P(s, keepS) \o P(t, keepT)
  <2> DEFINE u == P(s, keepS)
             w == P(t, keepT)
             z == P(r, keep)
  <2>1. u \in Seq(Seq(S)) /\ w \in Seq(Seq(S)) /\ z \in Seq(Seq(S)) /\ Len(u) = Len(s) /\ Len(w) = Len(t)
        /\ Len(z) = Len(s) + Len(t)
    BY <1>1, <1>2
  <2>2. /\ u \o w \in Seq(Seq(S)) /\ Len(u \o w) = Len(s) + Len(t)
        /\ \A i \in 1 .. Len(s) + Len(t) : (u \o w)[i] = IF i <= Len(s) THEN u[i] ELSE w[i - Len(s)]
    <3> HIDE DEF u, w, z, P, r
    <3>1. /\ u \o w \in Seq(Seq(S)) /\ Len(u \o w) = Len(u) + Len(w)
          /\ \A i \in 1 .. Len(u) + Len(w) : (u \o w)[i] = IF i <= Len(u) THEN u[i] ELSE w[i - Len(u)]
      <4>1. PICK x \in Seq(Seq(S)), y \in Seq(Seq(S)) : x = u /\ y = w
        BY <2>1, Zenon
      <4>2. /\ x \o y \in Seq(Seq(S)) /\ Len(x \o y) = Len(x) + Len(y)
            /\ \A i \in 1 .. Len(x) + Len(y) : (x \o y)[i] = IF i <= Len(x) THEN x[i] ELSE y[i - Len(x)]
        BY ConcatProperties
      <4> QED
        BY <4>1, <4>2, Zenon
    <3> QED
      BY <2>1, <3>1, Zenon
  <2>3. ASSUME NEW i \in 1 .. Len(s) + Len(t) PROVE z[i] = (u \o w)[i]
    <3>1. z[i] = IF keep[i] THEN <<r[i]>> ELSE <<>>
      BY <1>1
    <3>2. CASE i <= Len(s)
      <4>1. i \in 1 .. Len(s)
        BY <1>0, <3>2
      <4>2. u[i] = IF keepS[i] THEN <<s[i]>> ELSE <<>>
        BY <1>0, <4>1
      <4>3. keep[i] = keepS[i]
        BY <4>1 DEF Splits
      <4>4. r[i] = s[i] /\ (u \o w)[i] = u[i]
        BY <1>1, <2>2, <3>2
      <4> HIDE DEF u, w, z, r
      <4> QED
        BY <3>1, <4>2, <4>3, <4>4
    <3>3. CASE ~(i <= Len(s))
      <4>0. i - Len(s) \in 1 .. Len(t) /\ Len(s) + (i - Len(s)) = i
        <5> HIDE DEF u, w, z, P, r
        <5> QED
          BY <1>0, <3>3
      <4>1. PICK j \in 1 .. Len(t) : j = i - Len(s) /\ Len(s) + j = i
        BY <4>0, Zenon
      <4>2. w[j] = IF keepT[j] THEN <<t[j]>> ELSE <<>>
        BY <1>0, <4>1
      <4>3. keep[Len(s) + j] = keepT[j]
        BY DEF Splits
      <4>4. r[i] = t[j] /\ (u \o w)[i] = w[j]
        BY <1>1, <2>2, <3>3, <4>1
      <4> HIDE DEF u, w, z, r
      <4> QED
        BY <3>1, <4>1, <4>2, <4>3, <4>4
    <3> QED
      BY <3>2, <3>3
  <2> HIDE DEF u, w, z
  <2>4. z = u \o w
    BY <2>1, <2>2, <2>3, SeqEqual
  <2> QED
    BY <2>4 DEF u, w, z
<1>4. Kept(r, keep) = FlattenSeq(P(r, keep)) /\ Kept(s, keepS) = FlattenSeq(P(s, keepS))
      /\ Kept(t, keepT) = FlattenSeq(P(t, keepT))
  BY DEF Kept
<1>5. P(s, keepS) \in Seq(Seq(S)) /\ P(t, keepT) \in Seq(Seq(S))
  BY <1>2
<1> HIDE DEF P
<1>6. Kept(r, keep) = FlattenSeq(P(s, keepS) \o P(t, keepT))
  BY <1>3, <1>4
<1>7. FlattenSeq(P(s, keepS) \o P(t, keepT)) = FlattenSeq(P(s, keepS)) \o FlattenSeq(P(t, keepT))
  BY <1>5, FlattenJoin, Zenon
<1> QED
  BY <1>4, <1>6, <1>7, Zenon

LEMMA KeptNone == ASSUME NEW k PROVE Kept(<<>>, k) = <<>>
<1>1. [i \in DOMAIN <<>> |-> IF k[i] THEN << <<>>[i] >> ELSE <<>>] = <<>>
  OBVIOUS
<1>2. FlattenSeq(<<>>) = <<>>
  BY DEF FlattenSeq
<1> QED
  BY <1>1, <1>2 DEF Kept

LEMMA KeptOne == ASSUME NEW x, NEW k PROVE Kept(<<x>>, k) = IF k[1] THEN <<x>> ELSE <<>>
<1> DEFINE y == IF k[1] THEN <<x>> ELSE <<>>
<1>1. [i \in DOMAIN <<x>> |-> IF k[i] THEN << <<x>>[i] >> ELSE <<>>] = <<y>>
  OBVIOUS
<1>2. y \in Seq({x})
  <2>1. <<x>> \in Seq({x}) /\ <<>> \in Seq({x})
    OBVIOUS
  <2> QED
    BY <2>1
<1> HIDE DEF y
<1>3. FlattenSeq(<<y>>) = y
  BY <1>2, FlattenOne
<1> QED
  BY <1>1, <1>3 DEF Kept, y

LEMMA KeptSeq ==
    ASSUME NEW S, NEW s \in Seq(S), NEW k
    PROVE  Kept(s, k) \in Seq(S)
<1> DEFINE v == [i \in DOMAIN s |-> IF k[i] THEN <<s[i]>> ELSE <<>>]
<1>1. Len(s) \in Nat /\ DOMAIN s = 1 .. Len(s) /\ \A i \in 1 .. Len(s) : s[i] \in S
  BY LenProperties, ElementOfSeq
<1>2. \A i \in 1 .. Len(s) : <<s[i]>> \in Seq(S) /\ <<>> \in Seq(S)
  BY <1>1
<1>3. v \in [1 .. Len(s) -> Seq(S)]
  BY <1>1, <1>2
<1>4. v \in Seq(Seq(S)) /\ <<>> \in Seq(S)
  BY <1>1, <1>3, IsASeq, EmptySeq
<1>5. Kept(s, k) = FlattenSeq(v)
  BY DEF Kept
<1> HIDE DEF v
<1> QED
  BY <1>4, <1>5, FlattenAppend

-----------------------------------------------------------------------------
(* What a bridge has sent                                                    *)

IsSeq(s) == \E S : s \in Seq(S)

LEMMA OneSet ==
    ASSUME NEW s, NEW t, IsSeq(s), IsSeq(t)
    PROVE  \E S : s \in Seq(S) /\ t \in Seq(S)
<1>1. PICK S : s \in Seq(S)
  BY DEF IsSeq
<1>2. PICK T : t \in Seq(T)
  BY DEF IsSeq
<1>3. Seq(S) \subseteq Seq(S \cup T) /\ Seq(T) \subseteq Seq(S \cup T)
  BY SeqMonotonic
<1> QED
  BY <1>1, <1>2, <1>3

LEMMA JoinIsSeq ==
    ASSUME NEW s, NEW t, IsSeq(s), IsSeq(t)
    PROVE  IsSeq(s \o t)
<1>1. PICK S : s \in Seq(S) /\ t \in Seq(S)
  BY OneSet
<1> QED
  BY <1>1, ConcatProperties DEF IsSeq

Associates(s, t, u) == (s \o t) \o u = s \o (t \o u)

LEMMA JoinThree ==
    ASSUME NEW s, NEW t, NEW u, IsSeq(s), IsSeq(t), IsSeq(u)
    PROVE  Associates(s, t, u)
<1>1. PICK S : s \in Seq(S) /\ t \in Seq(S)
  BY OneSet
<1>2. PICK T : u \in Seq(T)
  BY DEF IsSeq
<1>3. Seq(S) \subseteq Seq(S \cup T) /\ Seq(T) \subseteq Seq(S \cup T)
  BY SeqMonotonic
<1> QED
  BY <1>1, <1>2, <1>3, ConcatAssociative DEF Associates

LEMMA JoinNothing == ASSUME NEW s, IsSeq(s) PROVE s \o <<>> = s /\ <<>> \o s = s
  BY ConcatEmptySeq DEF IsSeq

LEMMA NothingIsSeq == IsSeq(<<>>)
<1>1. <<>> \in Seq({})
  BY EmptySeq
<1> QED
  BY <1>1 DEF IsSeq

LEMMA OneIsSeq == ASSUME NEW x PROVE IsSeq(<<x>>)
<1>1. <<x>> \in Seq({x})
  OBVIOUS
<1> QED
  BY <1>1 DEF IsSeq

LEMMA NumbersJoin ==
    ASSUME NEW s, NEW t, IsSeq(s), IsSeq(t)
    PROVE  Numbers(s \o t) = Numbers(s) \o Numbers(t) /\ IsSeq(Numbers(s)) /\ IsSeq(Numbers(t))
<1>1. PICK S : s \in Seq(S) /\ t \in Seq(S)
  BY OneSet
<1> DEFINE T == {x.n : x \in S}
           u == Numbers(s)
           v == Numbers(t)
           w == Numbers(s \o t)
<1>2. /\ Len(s) \in Nat /\ Len(t) \in Nat /\ DOMAIN s = 1 .. Len(s) /\ DOMAIN t = 1 .. Len(t)
      /\ \A i \in 1 .. Len(s) : s[i] \in S
      /\ \A i \in 1 .. Len(t) : t[i] \in S
  BY <1>1, LenProperties, ElementOfSeq
<1>3. /\ s \o t \in Seq(S) /\ DOMAIN (s \o t) = 1 .. Len(s) + Len(t)
      /\ \A i \in 1 .. Len(s) + Len(t) : (s \o t)[i] = IF i <= Len(s) THEN s[i] ELSE t[i - Len(s)]
  BY <1>1, ConcatProperties, LenProperties
<1>4. u \in [1 .. Len(s) -> T] /\ v \in [1 .. Len(t) -> T]
  BY <1>2 DEF Numbers
<1>5. u \in Seq(T) /\ v \in Seq(T) /\ Len(u) = Len(s) /\ Len(v) = Len(t)
  <2> HIDE DEF u, v, T
  <2>1. u \in Seq(T) /\ v \in Seq(T)
    BY <1>2, <1>4, IsASeq
  <2> QED
    BY <1>2, <1>4, <2>1, LenProperties
<1>6. /\ DOMAIN w = 1 .. Len(s) + Len(t)
      /\ \A i \in 1 .. Len(s) + Len(t) : w[i] = (s \o t)[i].n
  BY <1>3 DEF Numbers
<1>7. /\ \A i \in 1 .. Len(s) : u[i] = s[i].n
      /\ \A i \in 1 .. Len(t) : v[i] = t[i].n
  BY <1>2 DEF Numbers
<1>8. /\ u \o v \in Seq(T) /\ Len(u \o v) = Len(u) + Len(v)
      /\ \A i \in 1 .. Len(u) + Len(v) : (u \o v)[i] = IF i <= Len(u) THEN u[i] ELSE v[i - Len(u)]
  <2> HIDE DEF u, v, T
  <2> QED
    BY <1>5, ConcatProperties
<1>9. ASSUME NEW i \in 1 .. Len(s) + Len(t) PROVE w[i] = (u \o v)[i]
  <2> HIDE DEF u, v, w, T
  <2>1. CASE i <= Len(s)
    <3>1. i \in 1 .. Len(s)
      BY <1>2, <2>1
    <3> QED
      BY <1>3, <1>5, <1>6, <1>7, <1>8, <2>1, <3>1
  <2>2. CASE ~(i <= Len(s))
    <3>1. PICK j \in 1 .. Len(t) : j = i - Len(s)
      BY <1>2, <2>2
    <3> QED
      BY <1>3, <1>5, <1>6, <1>7, <1>8, <2>2, <3>1
  <2> QED
    BY <2>1, <2>2
<1>10. \A i \in 1 .. Len(s) + Len(t) : (u \o v)[i] \in T
  <2> HIDE DEF u, v, T
  <2> QED
    BY <1>5, <1>8, ElementOfSeq
<1>11. w = [i \in 1 .. Len(s) + Len(t) |-> w[i]]
  BY <1>6 DEF Numbers
<1>12. w \in Seq(T) /\ Len(w) = Len(s) + Len(t)
  <2> HIDE DEF u, v, w, T
  <2>1. w \in [1 .. Len(s) + Len(t) -> T]
    BY <1>9, <1>10, <1>11
  <2>2. w \in Seq(T)
    BY <1>2, <2>1, IsASeq
  <2> QED
    BY <1>2, <2>1, <2>2, LenProperties
<1> HIDE DEF u, v, w, T
<1>13. w = u \o v
  BY <1>5, <1>8, <1>9, <1>12, SeqEqual
<1> QED
  BY <1>5, <1>13 DEF IsSeq, u, v, w

SentNumbers(out) == Numbers(Sent(out))

LEMMA SentJoin ==
    ASSUME NEW s, NEW t, IsSeq(s), IsSeq(t)
    PROVE  SentNumbers(s \o t) = SentNumbers(s) \o SentNumbers(t) /\ IsSeq(SentNumbers(s))
<1>1. PICK S : s \in Seq(S) /\ t \in Seq(S)
  BY OneSet
<1> DEFINE keep(v) == [i \in DOMAIN v |-> v[i].n > 0]
<1>2. Splits(keep(s \o t), keep(s), keep(t), s, t)
  <2>1. Len(s) \in Nat /\ Len(t) \in Nat /\ DOMAIN s = 1 .. Len(s) /\ DOMAIN t = 1 .. Len(t)
    BY <1>1, LenProperties
  <2>2. /\ DOMAIN (s \o t) = 1 .. Len(s) + Len(t)
        /\ \A i \in 1 .. Len(s) + Len(t) : (s \o t)[i] = IF i <= Len(s) THEN s[i] ELSE t[i - Len(s)]
    BY <1>1, ConcatProperties, LenProperties
  <2>3. ASSUME NEW i \in 1 .. Len(s) PROVE keep(s \o t)[i] = keep(s)[i]
    <3>1. i \in 1 .. Len(s) + Len(t) /\ i <= Len(s)
      BY <2>1
    <3> QED
      BY <2>1, <2>2, <3>1
  <2>4. ASSUME NEW i \in 1 .. Len(t) PROVE keep(s \o t)[Len(s) + i] = keep(t)[i]
    <3>1. Len(s) + i \in 1 .. Len(s) + Len(t) /\ ~(Len(s) + i <= Len(s)) /\ (Len(s) + i) - Len(s) = i
      BY <2>1
    <3> QED
      BY <2>1, <2>2, <3>1
  <2> HIDE DEF keep
  <2> QED
    BY <2>3, <2>4 DEF Splits
<1>3. Sent(s \o t) = Kept(s \o t, keep(s \o t)) /\ Sent(s) = Kept(s, keep(s)) /\ Sent(t) = Kept(t, keep(t))
  BY DEF Sent
<1> HIDE DEF keep
<1>4. Sent(s \o t) = Sent(s) \o Sent(t)
  <2>1. PICK j, k, l : j = keep(s \o t) /\ k = keep(s) /\ l = keep(t)
    OBVIOUS
  <2>2. Splits(j, k, l, s, t)
    BY <1>2, <2>1, Zenon
  <2>3. Kept(s \o t, j) = Kept(s, k) \o Kept(t, l)
    BY <1>1, <2>2, KeptJoin
  <2> QED
    BY <1>3, <2>1, <2>3, Zenon
<1>5. IsSeq(Sent(s)) /\ IsSeq(Sent(t))
  BY <1>1, <1>3, KeptSeq DEF IsSeq
<1> QED
  BY <1>4, <1>5, NumbersJoin DEF SentNumbers

LEMMA TextsJoin ==
    ASSUME NEW s, NEW t, IsSeq(s), IsSeq(t)
    PROVE  Texts(s \o t) = Texts(s) \o Texts(t) /\ IsSeq(Texts(s))
<1>1. PICK S : s \in Seq(S) /\ t \in Seq(S)
  BY OneSet
<1> DEFINE keep(v) == [i \in DOMAIN v |-> v[i].f \in {"content", "tag", "untag"}]
<1>2. Splits(keep(s \o t), keep(s), keep(t), s, t)
  <2>1. Len(s) \in Nat /\ Len(t) \in Nat /\ DOMAIN s = 1 .. Len(s) /\ DOMAIN t = 1 .. Len(t)
    BY <1>1, LenProperties
  <2>2. /\ DOMAIN (s \o t) = 1 .. Len(s) + Len(t)
        /\ \A i \in 1 .. Len(s) + Len(t) : (s \o t)[i] = IF i <= Len(s) THEN s[i] ELSE t[i - Len(s)]
    BY <1>1, ConcatProperties, LenProperties
  <2>3. ASSUME NEW i \in 1 .. Len(s) PROVE keep(s \o t)[i] = keep(s)[i]
    <3>1. i \in 1 .. Len(s) + Len(t) /\ i <= Len(s)
      BY <2>1
    <3> QED
      BY <2>1, <2>2, <3>1
  <2>4. ASSUME NEW i \in 1 .. Len(t) PROVE keep(s \o t)[Len(s) + i] = keep(t)[i]
    <3>1. Len(s) + i \in 1 .. Len(s) + Len(t) /\ ~(Len(s) + i <= Len(s)) /\ (Len(s) + i) - Len(s) = i
      BY <2>1
    <3> QED
      BY <2>1, <2>2, <3>1
  <2> HIDE DEF keep
  <2> QED
    BY <2>3, <2>4 DEF Splits
<1>3. Texts(s \o t) = Kept(s \o t, keep(s \o t)) /\ Texts(s) = Kept(s, keep(s)) /\ Texts(t) = Kept(t, keep(t))
  BY DEF Texts
<1> HIDE DEF keep
<1>4. Texts(s \o t) = Texts(s) \o Texts(t)
  <2>1. PICK j, k, l : j = keep(s \o t) /\ k = keep(s) /\ l = keep(t)
    OBVIOUS
  <2>2. Splits(j, k, l, s, t)
    BY <1>2, <2>1, Zenon
  <2>3. Kept(s \o t, j) = Kept(s, k) \o Kept(t, l)
    BY <1>1, <2>2, KeptJoin
  <2> QED
    BY <1>3, <2>1, <2>3, Zenon
<1>5. IsSeq(Texts(s))
  BY <1>1, <1>3, KeptSeq DEF IsSeq
<1> QED
  BY <1>4, <1>5

LEMMA OneSent ==
    ASSUME NEW x
    PROVE  SentNumbers(<<x>>) = (IF x.n > 0 THEN <<x.n>> ELSE <<>>) /\ SentNumbers(<<>>) = <<>>
<1>1. Sent(<<x>>) = IF x.n > 0 THEN <<x>> ELSE <<>>
  <2> DEFINE k == [i \in DOMAIN <<x>> |-> <<x>>[i].n > 0]
  <2>1. k[1] = (x.n > 0)
    OBVIOUS
  <2>2. Sent(<<x>>) = Kept(<<x>>, k)
    BY DEF Sent
  <2> HIDE DEF k
  <2> QED
    BY <2>1, <2>2, KeptOne
<1>2. Sent(<<>>) = <<>>
  BY KeptNone DEF Sent
<1>3. Numbers(<<x>>) = <<x.n>> /\ Numbers(<<>>) = <<>>
  BY DEF Numbers
<1> QED
  BY <1>1, <1>2, <1>3 DEF SentNumbers

Fields == {"out", "headers", "aborted", "event", "in_thinking", "in_tool", "tool_index", "tag_opened", "tag_closed",
           "done", "tok", "started", "think_started", "think_closed", "text_started"}

Bridge(c) == DOMAIN c = Fields /\ IsSeq(c.out)

\* From c to d a bridge sent frames that hold the items with numbers ns.
Grows(d, c, ns) ==
    /\ DOMAIN d = Fields
    /\ \E frames : IsSeq(frames) /\ d.out = c.out \o frames /\ SentNumbers(frames) = ns

\* And it has neither read usage nor an event line meanwhile.
Puts(d, c, ns) == Grows(d, c, ns) /\ d.tok = c.tok /\ d.event = c.event /\ d.in_tool = c.in_tool

LEMMA GrowsBridge ==
    ASSUME NEW c, NEW d, NEW ns, Bridge(c), Grows(d, c, ns)
    PROVE  Bridge(d)
<1>1. PICK frames : IsSeq(frames) /\ d.out = c.out \o frames
  BY DEF Grows
<1> QED
  BY <1>1, JoinIsSeq DEF Bridge, Grows

LEMMA GrowsSent ==
    ASSUME NEW c, NEW d, NEW ns, Bridge(c), Grows(d, c, ns)
    PROVE  SentNumbers(d.out) = SentNumbers(c.out) \o ns /\ IsSeq(SentNumbers(c.out))
<1>1. PICK frames : IsSeq(frames) /\ d.out = c.out \o frames /\ SentNumbers(frames) = ns
  BY DEF Grows
<1> QED
  BY <1>1, SentJoin DEF Bridge

LEMMA GrowsOn ==
    ASSUME NEW c, NEW d, NEW e, NEW ms, NEW ns, Bridge(c), Grows(d, c, ms), Grows(e, d, ns)
    PROVE  Grows(e, c, ms \o ns) /\ IsSeq(ms) /\ IsSeq(ns)
<1>1. PICK f : IsSeq(f) /\ d.out = c.out \o f /\ SentNumbers(f) = ms
  BY DEF Grows
<1>2. PICK g : IsSeq(g) /\ e.out = d.out \o g /\ SentNumbers(g) = ns
  BY DEF Grows
<1>3. IsSeq(c.out)
  BY DEF Bridge
<1>4. e.out = c.out \o (f \o g)
  <2>1. PICK s : s = c.out /\ IsSeq(s)
    BY <1>3
  <2>2. (s \o f) \o g = s \o (f \o g)
    <3>1. IsSeq(s) /\ IsSeq(f) /\ IsSeq(g)
      BY <1>1, <1>2, <2>1
    <3>2. Associates(s, f, g)
      BY <3>1, JoinThree, Zenon
    <3> QED
      BY <3>2 DEF Associates
  <2> QED
    BY <1>1, <1>2, <2>1, <2>2
<1>5. IsSeq(f \o g) /\ SentNumbers(f \o g) = ms \o ns /\ IsSeq(ms) /\ IsSeq(ns)
  BY <1>1, <1>2, JoinIsSeq, SentJoin
<1> QED
  BY <1>4, <1>5 DEF Grows

LEMMA PutsOn ==
    ASSUME NEW c, NEW d, NEW e, NEW ns, Bridge(c)
    PROVE  /\ Puts(d, c, <<>>) /\ Grows(e, d, ns) => Grows(e, c, ns)
           /\ Grows(d, c, ns) /\ Puts(e, d, <<>>) => Grows(e, c, ns)
           /\ Puts(d, c, <<>>) /\ Puts(e, d, ns) => Puts(e, c, ns)
           /\ Puts(d, c, ns) /\ Puts(e, d, <<>>) => Puts(e, c, ns)
<1>1. Grows(d, c, <<>>) /\ Grows(e, d, ns) => Grows(e, c, ns)
  <2> SUFFICES ASSUME Grows(d, c, <<>>), Grows(e, d, ns) PROVE Grows(e, c, ns)
    OBVIOUS
  <2>1. Grows(e, c, <<>> \o ns) /\ IsSeq(ns)
    BY GrowsOn, Zenon
  <2>2. <<>> \o ns = ns
    BY <2>1, JoinNothing, Zenon
  <2> QED
    BY <2>1, <2>2, Zenon
<1>2. Grows(d, c, ns) /\ Grows(e, d, <<>>) => Grows(e, c, ns)
  <2> SUFFICES ASSUME Grows(d, c, ns), Grows(e, d, <<>>) PROVE Grows(e, c, ns)
    OBVIOUS
  <2>1. Grows(e, c, ns \o <<>>) /\ IsSeq(ns)
    BY GrowsOn, Zenon
  <2>2. ns \o <<>> = ns
    BY <2>1, JoinNothing, Zenon
  <2> QED
    BY <2>1, <2>2, Zenon
<1> QED
  BY <1>1, <1>2, Zenon DEF Puts

LEMMA NothingPut ==
    ASSUME NEW c, NEW d, Bridge(c), DOMAIN d = Fields, d.out = c.out
    PROVE  Grows(d, c, <<>>)
<1>1. IsSeq(<<>>) /\ c.out \o <<>> = c.out /\ SentNumbers(<<>>) = <<>>
  BY NothingIsSeq, JoinNothing, OneSent DEF Bridge
<1> QED
  BY <1>1 DEF Grows

LEMMA SamePut == ASSUME NEW c, Bridge(c) PROVE Puts(c, c, <<>>)
<1>1. Grows(c, c, <<>>)
  BY NothingPut DEF Bridge
<1> QED
  BY <1>1 DEF Puts

LEMMA LikePut ==
    ASSUME NEW c, Bridge(c), NEW d, DOMAIN d = Fields, d.out = c.out, d.tok = c.tok, d.event = c.event,
           d.in_tool = c.in_tool
    PROVE  Puts(d, c, <<>>)
  BY NothingPut DEF Puts

\* The fields that say how far a bridge is.
LEMMA FieldPut ==
    ASSUME NEW c, Bridge(c), NEW v, NEW w
    PROVE  /\ Puts([c EXCEPT !.tag_opened = v], c, <<>>)
           /\ Puts([c EXCEPT !.tag_closed = v], c, <<>>)
           /\ Puts([c EXCEPT !.done = v], c, <<>>)
           /\ Puts([c EXCEPT !.started = v], c, <<>>)
           /\ Puts([c EXCEPT !.text_started = v], c, <<>>)
           /\ Puts([c EXCEPT !.in_thinking = v], c, <<>>)
           /\ Puts([c EXCEPT !.think_started = v, !.in_thinking = w], c, <<>>)
           /\ Puts([c EXCEPT !.think_closed = v, !.in_thinking = w], c, <<>>)
           /\ Puts([c EXCEPT !.headers = v, !.aborted = w], c, <<>>)
<1>0. DOMAIN c = Fields
  BY DEF Bridge
<1>2. Puts([c EXCEPT !.tag_opened = v], c, <<>>)
  <2> DEFINE d == [c EXCEPT !.tag_opened = v]
  <2>1. DOMAIN d = Fields /\ d.out = c.out /\ d.tok = c.tok /\ d.event = c.event /\ d.in_tool = c.in_tool
    BY <1>0 DEF Fields
  <2>2. Puts(d, c, <<>>)
    <3> HIDE DEF d
    <3> QED
      BY <2>1, LikePut
  <2> QED
    BY <2>2
<1>3. Puts([c EXCEPT !.tag_closed = v], c, <<>>)
  <2> DEFINE d == [c EXCEPT !.tag_closed = v]
  <2>1. DOMAIN d = Fields /\ d.out = c.out /\ d.tok = c.tok /\ d.event = c.event /\ d.in_tool = c.in_tool
    BY <1>0 DEF Fields
  <2>2. Puts(d, c, <<>>)
    <3> HIDE DEF d
    <3> QED
      BY <2>1, LikePut
  <2> QED
    BY <2>2
<1>4. Puts([c EXCEPT !.done = v], c, <<>>)
  <2> DEFINE d == [c EXCEPT !.done = v]
  <2>1. DOMAIN d = Fields /\ d.out = c.out /\ d.tok = c.tok /\ d.event = c.event /\ d.in_tool = c.in_tool
    BY <1>0 DEF Fields
  <2>2. Puts(d, c, <<>>)
    <3> HIDE DEF d
    <3> QED
      BY <2>1, LikePut
  <2> QED
    BY <2>2
<1>5. Puts([c EXCEPT !.started = v], c, <<>>)
  <2> DEFINE d == [c EXCEPT !.started = v]
  <2>1. DOMAIN d = Fields /\ d.out = c.out /\ d.tok = c.tok /\ d.event = c.event /\ d.in_tool = c.in_tool
    BY <1>0 DEF Fields
  <2>2. Puts(d, c, <<>>)
    <3> HIDE DEF d
    <3> QED
      BY <2>1, LikePut
  <2> QED
    BY <2>2
<1>6. Puts([c EXCEPT !.text_started = v], c, <<>>)
  <2> DEFINE d == [c EXCEPT !.text_started = v]
  <2>1. DOMAIN d = Fields /\ d.out = c.out /\ d.tok = c.tok /\ d.event = c.event /\ d.in_tool = c.in_tool
    BY <1>0 DEF Fields
  <2>2. Puts(d, c, <<>>)
    <3> HIDE DEF d
    <3> QED
      BY <2>1, LikePut
  <2> QED
    BY <2>2
<1>7. Puts([c EXCEPT !.in_thinking = v], c, <<>>)
  <2> DEFINE d == [c EXCEPT !.in_thinking = v]
  <2>1. DOMAIN d = Fields /\ d.out = c.out /\ d.tok = c.tok /\ d.event = c.event /\ d.in_tool = c.in_tool
    BY <1>0 DEF Fields
  <2>2. Puts(d, c, <<>>)
    <3> HIDE DEF d
    <3> QED
      BY <2>1, LikePut
  <2> QED
    BY <2>2
<1>8. Puts([c EXCEPT !.think_started = v, !.in_thinking = w], c, <<>>)
  <2> DEFINE d == [c EXCEPT !.think_started = v, !.in_thinking = w]
  <2>1. DOMAIN d = Fields /\ d.out = c.out /\ d.tok = c.tok /\ d.event = c.event /\ d.in_tool = c.in_tool
    BY <1>0 DEF Fields
  <2>2. Puts(d, c, <<>>)
    <3> HIDE DEF d
    <3> QED
      BY <2>1, LikePut
  <2> QED
    BY <2>2
<1>9. Puts([c EXCEPT !.think_closed = v, !.in_thinking = w], c, <<>>)
  <2> DEFINE d == [c EXCEPT !.think_closed = v, !.in_thinking = w]
  <2>1. DOMAIN d = Fields /\ d.out = c.out /\ d.tok = c.tok /\ d.event = c.event /\ d.in_tool = c.in_tool
    BY <1>0 DEF Fields
  <2>2. Puts(d, c, <<>>)
    <3> HIDE DEF d
    <3> QED
      BY <2>1, LikePut
  <2> QED
    BY <2>2
<1>10. Puts([c EXCEPT !.headers = v, !.aborted = w], c, <<>>)
  <2> DEFINE d == [c EXCEPT !.headers = v, !.aborted = w]
  <2>1. DOMAIN d = Fields /\ d.out = c.out /\ d.tok = c.tok /\ d.event = c.event /\ d.in_tool = c.in_tool
    BY <1>0 DEF Fields
  <2>2. Puts(d, c, <<>>)
    <3> HIDE DEF d
    <3> QED
      BY <2>1, LikePut
  <2> QED
    BY <2>2
<1> QED
  BY <1>2, <1>3, <1>4, <1>5, <1>6, <1>7, <1>8, <1>9, <1>10

\* An event without an item, and one with the item x.
NumberOf(x) == IF x.n > 0 THEN <<x.n>> ELSE <<>>

LEMMA BareSent == ASSUME NEW f PROVE IsSeq(Bare(f)) /\ SentNumbers(Bare(f)) = <<>>
<1>1. PICK x : x = [f |-> f, i |-> 0, n |-> 0, w |-> 1]
  OBVIOUS
<1>2. ~(x.n > 0)
  BY <1>1
<1>3. SentNumbers(<<x>>) = <<>> /\ IsSeq(<<x>>)
  BY <1>2, OneSent, OneIsSeq, Zenon
<1> QED
  BY <1>1, <1>3 DEF Bare

LEMMA BlockSent == ASSUME NEW f, NEW i PROVE IsSeq(BlockFrame(f, i)) /\ SentNumbers(BlockFrame(f, i)) = <<>>
<1>1. PICK x : x = [f |-> f, i |-> i, n |-> 0, w |-> 1]
  OBVIOUS
<1>2. ~(x.n > 0)
  BY <1>1
<1>3. SentNumbers(<<x>>) = <<>> /\ IsSeq(<<x>>)
  BY <1>2, OneSent, OneIsSeq, Zenon
<1> QED
  BY <1>1, <1>3 DEF BlockFrame

LEMMA FrameSent ==
    ASSUME NEW f, NEW i, NEW x
    PROVE  IsSeq(<<Frame(f, i, x)>>) /\ SentNumbers(<<Frame(f, i, x)>>) = NumberOf(x)
<1>1. SentNumbers(<<Frame(f, i, x)>>) = IF Frame(f, i, x).n > 0 THEN <<Frame(f, i, x).n>> ELSE <<>>
  BY OneSent
<1>2. Frame(f, i, x).n = x.n
  BY DEF Frame
<1> QED
  BY <1>1, <1>2, OneIsSeq DEF NumberOf

LEMMA TwoBare == ASSUME NEW f, NEW g PROVE IsSeq(Bare(f) \o Bare(g)) /\ SentNumbers(Bare(f) \o Bare(g)) = <<>>
<1>1. <<>> \o <<>> = <<>>
  BY NothingIsSeq, JoinNothing
<1> QED
  BY <1>1, BareSent, JoinIsSeq, SentJoin

LEMMA ChunkPut ==
    ASSUME NEW c, Bridge(c), NEW frames, IsSeq(frames)
    PROVE  Puts(bridge_send_chunk(c, frames), c, SentNumbers(frames))
<1>1. CASE frames = <<>>
  <2>1. bridge_send_chunk(c, frames) = c
    BY <1>1 DEF bridge_send_chunk
  <2>2. SentNumbers(frames) = <<>>
    BY <1>1, OneSent
  <2> QED
    BY <2>1, <2>2, SamePut
<1>2. CASE frames # <<>>
  <2> DEFINE d == bridge_send_chunk(c, frames)
  <2>1. DOMAIN d = Fields /\ d.out = c.out \o frames /\ d.tok = c.tok /\ d.event = c.event /\ d.in_tool = c.in_tool
    BY <1>2 DEF Bridge, bridge_send_chunk, Fields
  <2> HIDE DEF d
  <2> QED
    BY <2>1 DEF Puts, Grows, d
<1> QED
  BY <1>1, <1>2

LEMMA FramePut ==
    ASSUME NEW c, NEW d, Bridge(c), Puts(d, c, <<>>), NEW f, NEW i, NEW x
    PROVE  /\ Puts(bridge_send_chunk(d, Bare(f)), c, <<>>)
           /\ Puts(bridge_send_chunk(d, BlockFrame(f, i)), c, <<>>)
           /\ Puts(bridge_send_chunk(d, <<Frame(f, i, x)>>), c, NumberOf(x))
<1>1. Bridge(d)
  BY GrowsBridge DEF Puts
<1>2. Puts(bridge_send_chunk(d, Bare(f)), d, <<>>)
  BY <1>1, BareSent, ChunkPut
<1>3. Puts(bridge_send_chunk(d, BlockFrame(f, i)), d, <<>>)
  BY <1>1, BlockSent, ChunkPut
<1>4. Puts(bridge_send_chunk(d, <<Frame(f, i, x)>>), d, NumberOf(x))
  BY <1>1, FrameSent, ChunkPut
<1> QED
  BY <1>2, <1>3, <1>4, PutsOn

LEMMA PutBridge == ASSUME NEW c, NEW d, NEW ns, Bridge(c), Puts(d, c, ns) PROVE Bridge(d)
  BY GrowsBridge DEF Puts

LEMMA TagsPut == ASSUME NEW c, Bridge(c) PROVE Puts(OpenTag(c), c, <<>>) /\ Puts(CloseTag(c), c, <<>>)
<1>1. Puts(c, c, <<>>)
  BY SamePut
<1>2. Puts(bridge_send_chunk([c EXCEPT !.tag_opened = TRUE], Bare("tag")), c, <<>>)
  BY FieldPut, FramePut
<1>3. Puts(bridge_send_chunk([c EXCEPT !.tag_closed = TRUE], Bare("untag")), c, <<>>)
  BY FieldPut, FramePut
<1> QED
  BY <1>1, <1>2, <1>3 DEF OpenTag, CloseTag

LEMMA ItemPut ==
    ASSUME NEW c, Bridge(c), NEW x
    PROVE  Puts(Thought(c, x), c, NumberOf(x)) /\ Puts(Text(c, x), c, NumberOf(x))
  BY TagsPut, FramePut DEF Thought, Text

LEMMA StopPut == ASSUME NEW c, Bridge(c) PROVE Puts(StopThinking(c), c, <<>>)
<1>1. Puts(c, c, <<>>)
  BY SamePut
<1>2. Puts(bridge_send_chunk([c EXCEPT !.think_closed = TRUE, !.in_thinking = FALSE], BlockFrame("block_stop", 0)), c, <<>>)
  BY FieldPut, FramePut
<1> QED
  BY <1>1, <1>2 DEF StopThinking

-----------------------------------------------------------------------------
(* What the bridges do with a line                                           *)

\* d is c with another tok.
Charged(d, c, tok) == Grows(d, c, <<>>) /\ Bridge(d) /\ d.tok = tok /\ d.event = c.event /\ d.in_tool = c.in_tool

LEMMA TokSet == ASSUME NEW c, Bridge(c), NEW v PROVE Charged([c EXCEPT !.tok = v], c, v)
<1> DEFINE d == [c EXCEPT !.tok = v]
<1>1. DOMAIN d = Fields /\ d.out = c.out /\ d.tok = v /\ d.event = c.event /\ d.in_tool = c.in_tool
  BY DEF Bridge, Fields
<1>2. Charged(d, c, v)
  <2> HIDE DEF d
  <2>1. Grows(d, c, <<>>)
    BY <1>1, NothingPut
  <2> QED
    BY <1>1, <2>1, GrowsBridge DEF Charged
<1> QED
  BY <1>2

LEMMA TokSame == ASSUME NEW c, Bridge(c) PROVE Charged(c, c, c.tok)
  BY SamePut DEF Puts, Charged

LEMMA ChargedPut ==
    ASSUME NEW c, NEW d, NEW e, NEW v, NEW ns, Bridge(c), Charged(d, c, v), Puts(e, d, ns)
    PROVE  Grows(e, c, ns) /\ e.tok = v /\ e.event = c.event /\ e.in_tool = c.in_tool
<1>1. Grows(d, c, <<>>) /\ Bridge(d) /\ d.tok = v /\ d.event = c.event /\ d.in_tool = c.in_tool
  BY DEF Charged
<1>2. Grows(e, d, ns) /\ e.tok = d.tok /\ e.event = d.event /\ e.in_tool = d.in_tool
  BY DEF Puts
<1>3. Puts(d, d, <<>>)
  BY <1>1, SamePut
<1>4. Grows(e, c, ns)
  <2>1. Grows(e, c, <<>> \o ns) /\ IsSeq(ns)
    BY <1>1, <1>2, GrowsOn, Zenon
  <2>2. <<>> \o ns = ns
    BY <2>1, JoinNothing, Zenon
  <2> QED
    BY <2>1, <2>2, Zenon
<1> QED
  BY <1>1, <1>2, <1>4

NumberIf(p, e) == IF p THEN NumberOf(New(e)) ELSE <<>>

OpenAiSends(e) == e.t \in {"reason", "text", "wide"} \/ (~route.tag /\ e.t \in {"tool", "output"})

LEMMA OpenAiLine ==
    ASSUME NEW c, Bridge(c), NEW e
    PROVE  /\ Grows(openai_stream_process_line(c, e), c, NumberIf(OpenAiSends(e), e))
           /\ openai_stream_process_line(c, e).tok = IF e.t = "usage" THEN {"in", "out"} ELSE c.tok
<1> DEFINE d == IF e.t = "usage" THEN [c EXCEPT !.tok = {"in", "out"}] ELSE c
           v == IF e.t = "usage" THEN {"in", "out"} ELSE c.tok
           r == openai_stream_process_line(c, e)
           x == New(e)
<1>1. Charged(d, c, v)
  BY TokSet, TokSame
<1>2. r = IF route.tag
          THEN CASE e.t = "done" -> bridge_send_chunk(CloseTag(d), Bare("done"))
                 [] e.t = "reason" -> Thought(d, x)
                 [] e.t \in {"text", "wide"} -> Text(d, x)
                 [] e.t = "finish" -> bridge_send_chunk(CloseTag(d), Bare("finish"))
                 [] OTHER -> d
          ELSE CASE e.t = "reason" -> Thought(d, x)
                 [] e.t \in {"text", "wide"} -> Text(d, x)
                 [] e.t \in {"tool", "output"} -> bridge_send_chunk(d, <<Frame(e.t, 0, x)>>)
                 [] OTHER -> bridge_send_chunk(d, Bare(e.t))
  BY DEF openai_stream_process_line
<1> HIDE DEF d, v, r, x
<1>3. Bridge(d)
  BY <1>1 DEF Charged
<1>4. /\ Puts(Thought(d, x), d, NumberOf(x)) /\ Puts(Text(d, x), d, NumberOf(x)) /\ Puts(d, d, <<>>)
      /\ \A f : /\ Puts(bridge_send_chunk(CloseTag(d), Bare(f)), d, <<>>)
                /\ Puts(bridge_send_chunk(d, Bare(f)), d, <<>>)
                /\ Puts(bridge_send_chunk(d, <<Frame(f, 0, x)>>), d, NumberOf(x))
  BY <1>3, ItemPut, SamePut, TagsPut, FramePut
<1>5. Puts(r, d, NumberIf(OpenAiSends(e), e))
  <2>1. CASE route.tag /\ e.t \in {"done", "finish"}
    BY <1>2, <1>4, <2>1 DEF NumberIf, OpenAiSends
  <2>2. CASE e.t = "reason"
    BY <1>2, <1>4, <2>2 DEF NumberIf, OpenAiSends, x
  <2>3. CASE e.t \in {"text", "wide"}
    BY <1>2, <1>4, <2>3 DEF NumberIf, OpenAiSends, x
  <2>4. CASE ~route.tag /\ e.t \in {"tool", "output"}
    BY <1>2, <1>4, <2>4 DEF NumberIf, OpenAiSends, x
  <2>5. CASE route.tag /\ e.t \notin {"done", "finish", "reason", "text", "wide"}
    BY <1>2, <1>4, <2>5 DEF NumberIf, OpenAiSends
  <2>6. CASE ~route.tag /\ e.t \notin {"tool", "output", "reason", "text", "wide"}
    BY <1>2, <1>4, <2>6 DEF NumberIf, OpenAiSends
  <2> QED
    BY <2>1, <2>2, <2>3, <2>4, <2>5, <2>6
<1> QED
  BY <1>1, <1>5, ChargedPut DEF r, v

LEMMA GeminiLine ==
    ASSUME NEW c, Bridge(c), NEW e
    PROVE  /\ Grows(gemini_bridge_process_line(c, e), c, NumberIf(e.t \in {"reason", "text", "tool"}, e))
           /\ gemini_bridge_process_line(c, e).tok = e.u.tok
<1> DEFINE d == [c EXCEPT !.tok = e.u.tok]
           r == gemini_bridge_process_line(c, e)
           x == New(e)
<1>1. Charged(d, c, e.u.tok)
  BY TokSet
<1>2. r = CASE e.t = "reason" -> Thought(d, x)
            [] e.t = "text" -> Text(d, x)
            [] e.t = "tool" -> bridge_send_chunk(d, <<Frame("tool", 0, x)>>)
            [] OTHER -> d
  BY DEF gemini_bridge_process_line
<1> HIDE DEF d, r, x
<1>3. Bridge(d)
  BY <1>1 DEF Charged
<1>4. /\ Puts(Thought(d, x), d, NumberOf(x)) /\ Puts(Text(d, x), d, NumberOf(x)) /\ Puts(d, d, <<>>)
      /\ Puts(bridge_send_chunk(d, <<Frame("tool", 0, x)>>), d, NumberOf(x))
  BY <1>3, ItemPut, SamePut, FramePut
<1>5. Puts(r, d, NumberIf(e.t \in {"reason", "text", "tool"}, e))
  <2>1. CASE e.t \in {"reason", "text", "tool"}
    BY <1>2, <1>4, <2>1 DEF NumberIf, x
  <2>2. CASE e.t \notin {"reason", "text", "tool"}
    BY <1>2, <1>4, <2>2 DEF NumberIf
  <2> QED
    BY <2>1, <2>2
<1> QED
  BY <1>1, <1>5, ChargedPut DEF r

LEMMA OaiAntLine ==
    ASSUME NEW c, Bridge(c), NEW e
    PROVE  /\ Grows(oai_ant_process_line(c, e), c, NumberIf(e.t \in {"reason", "text", "wide"}, e))
           /\ oai_ant_process_line(c, e).tok = IF e.t = "usage" THEN {"in", "out"} ELSE c.tok
<1> DEFINE r == oai_ant_process_line(c, e)
           x == New(e)
<1>1. CASE e.t = "done"
  <2>1. r = c
    BY <1>1 DEF oai_ant_process_line
  <2>2. Puts(c, c, <<>>)
    BY SamePut
  <2> HIDE DEF r
  <2> QED
    BY <1>1, <2>1, <2>2 DEF NumberIf, Puts, r
<1>2. CASE e.t # "done"
  <2> DEFINE d == IF c.started THEN c ELSE bridge_send_chunk([c EXCEPT !.started = TRUE], Bare("message_start"))
             g == IF e.t = "usage" THEN [d EXCEPT !.tok = {"in", "out"}] ELSE d
             v == IF e.t = "usage" THEN {"in", "out"} ELSE d.tok
             h == IF g.think_started THEN g
                  ELSE bridge_send_chunk([g EXCEPT !.think_started = TRUE, !.in_thinking = TRUE], BlockFrame("block_start", 0))
             k == StopThinking(g)
             j == IF k.text_started THEN k
                  ELSE bridge_send_chunk([k EXCEPT !.text_started = TRUE], BlockFrame("block_start", TextIndex(k)))
  <2>1. r = CASE e.t = "reason" -> bridge_send_chunk(h, <<Frame("thinking", 0, x)>>)
              [] e.t \in {"text", "wide"} -> bridge_send_chunk(j, <<Frame("text", TextIndex(j), x)>>)
              [] OTHER -> g
    BY <1>2 DEF oai_ant_process_line
  <2>2. Puts(d, c, <<>>)
    <3>1. Puts(bridge_send_chunk([c EXCEPT !.started = TRUE], Bare("message_start")), c, <<>>)
      BY FieldPut, FramePut
    <3> QED
      BY <3>1, SamePut
  <2>3. Bridge(d) /\ d.tok = c.tok
    <3> HIDE DEF d
    <3> QED
      BY <2>2, PutBridge DEF Puts
  <2>4. Charged(g, d, v)
    <3> HIDE DEF d
    <3> QED
      BY <2>3, TokSet, TokSame
  <2>5. Bridge(g)
    <3> HIDE DEF g, d, v
    <3> QED
      BY <2>4 DEF Charged
  <2> HIDE DEF d, g, v
  <2>6. Puts(h, g, <<>>)
    <3>1. Puts(bridge_send_chunk([g EXCEPT !.think_started = TRUE, !.in_thinking = TRUE], BlockFrame("block_start", 0)), g, <<>>)
      BY <2>5, FieldPut, FramePut
    <3> QED
      BY <2>5, <3>1, SamePut
  <2>7. Puts(k, g, <<>>)
    BY <2>5, StopPut
  <2>8. Bridge(k)
    <3> HIDE DEF k
    <3> QED
      BY <2>5, <2>7, PutBridge
  <2> HIDE DEF k, h
  <2>9. Puts(j, k, <<>>)
    <3>1. Puts(bridge_send_chunk([k EXCEPT !.text_started = TRUE], BlockFrame("block_start", TextIndex(k))), k, <<>>)
      BY <2>8, FieldPut, FramePut
    <3> QED
      BY <2>8, <3>1, SamePut
  <2>10. Puts(j, g, <<>>)
    <3> HIDE DEF j
    <3> QED
      BY <2>5, <2>7, <2>9, PutsOn
  <2> HIDE DEF j, r, x
  <2>11. /\ Puts(bridge_send_chunk(h, <<Frame("thinking", 0, x)>>), g, NumberOf(x))
         /\ Puts(bridge_send_chunk(j, <<Frame("text", TextIndex(j), x)>>), g, NumberOf(x))
         /\ Puts(g, g, <<>>)
    BY <2>5, <2>6, <2>10, FramePut, SamePut
  <2>12. Puts(r, g, NumberIf(e.t \in {"reason", "text", "wide"}, e))
    <3>1. CASE e.t \in {"reason", "text", "wide"}
      BY <2>1, <2>11, <3>1 DEF NumberIf, x
    <3>2. CASE e.t \notin {"reason", "text", "wide"}
      BY <2>1, <2>11, <3>2 DEF NumberIf
    <3> QED
      BY <3>1, <3>2
  <2>13. Grows(r, d, NumberIf(e.t \in {"reason", "text", "wide"}, e)) /\ r.tok = v
    BY <2>3, <2>4, <2>12, ChargedPut
  <2>14. Grows(r, c, NumberIf(e.t \in {"reason", "text", "wide"}, e))
    BY <2>2, <2>13, PutsOn
  <2>15. r.tok = IF e.t = "usage" THEN {"in", "out"} ELSE c.tok
    BY <2>3, <2>13 DEF v
  <2> QED
    BY <2>14, <2>15 DEF r
<1> QED
  BY <1>1, <1>2

ClaudeEvents == {"message_start", "content_block_start", "content_block_delta", "content_block_stop",
                 "message_delta", "message_stop", "error"}

\* An event of an Anthropic upstream.
ClaudeLine(e) ==
    /\ e.t \in ClaudeEvents
    /\ e.t = "content_block_start" => e.k \in {"thinking", "redacted_thinking", "text", "tool_use"}
    /\ e.t = "content_block_delta" => e.k \in {"signature_delta", "thinking_delta", "text_delta", "input_json_delta"}

ClaudeSends(c, e) ==
    \/ e.t = "content_block_start" /\ e.k = "redacted_thinking"
    \/ e.t = "content_block_delta" /\ e.k \in {"thinking_delta", "text_delta"}
    \/ e.t = "content_block_stop" /\ c.in_tool

ClaudeTok(tok, e) ==
    IF e.t = "message_start" THEN tok \cup {"in"} ELSE IF e.t = "message_delta" THEN tok \cup {"out"} ELSE tok

\* d is c in a block that is a tool call or not.
Turned(d, c, tool) == Grows(d, c, <<>>) /\ Bridge(d) /\ d.tok = c.tok /\ d.event = c.event /\ d.in_tool = tool

LEMMA ToolSet ==
    ASSUME NEW c, Bridge(c), NEW v, NEW w, NEW n
    PROVE  /\ Turned([c EXCEPT !.in_thinking = v, !.in_tool = w], c, w)
           /\ Turned([c EXCEPT !.in_tool = w, !.tool_index = n], c, w)
<1>1. Turned([c EXCEPT !.in_thinking = v, !.in_tool = w], c, w)
  <2> DEFINE d == [c EXCEPT !.in_thinking = v, !.in_tool = w]
  <2>1. DOMAIN d = Fields /\ d.out = c.out /\ d.tok = c.tok /\ d.event = c.event /\ d.in_tool = w
    BY DEF Bridge, Fields
  <2>2. Turned(d, c, w)
    <3> HIDE DEF d
    <3> QED
      BY <2>1, NothingPut, GrowsBridge DEF Turned
  <2> QED
    BY <2>2
<1>2. Turned([c EXCEPT !.in_tool = w, !.tool_index = n], c, w)
  <2> DEFINE d == [c EXCEPT !.in_tool = w, !.tool_index = n]
  <2>1. DOMAIN d = Fields /\ d.out = c.out /\ d.tok = c.tok /\ d.event = c.event /\ d.in_tool = w
    BY DEF Bridge, Fields
  <2>2. Turned(d, c, w)
    <3> HIDE DEF d
    <3> QED
      BY <2>1, NothingPut, GrowsBridge DEF Turned
  <2> QED
    BY <2>2
<1> QED
  BY <1>1, <1>2

LEMMA TurnedPut ==
    ASSUME NEW c, NEW d, NEW e, NEW w, NEW ns, Bridge(c), Turned(d, c, w), Puts(e, d, ns)
    PROVE  Grows(e, c, ns) /\ e.tok = c.tok /\ e.event = c.event /\ e.in_tool = w
<1>1. Grows(d, c, <<>>) /\ Bridge(d) /\ d.tok = c.tok /\ d.event = c.event /\ d.in_tool = w
  BY DEF Turned
<1>3. Grows(e, d, ns) /\ e.tok = d.tok /\ e.event = d.event /\ e.in_tool = d.in_tool
  BY DEF Puts
<1>4. Grows(e, c, ns)
  <2>1. Grows(e, c, <<>> \o ns) /\ IsSeq(ns)
    BY <1>1, <1>3, GrowsOn, Zenon
  <2>2. <<>> \o ns = ns
    BY <2>1, JoinNothing, Zenon
  <2> QED
    BY <2>1, <2>2, Zenon
<1> QED
  BY <1>1, <1>3, <1>4

LEMMA BlockStart ==
    ASSUME NEW c, Bridge(c), NEW e, e.k \in {"thinking", "redacted_thinking", "text", "tool_use"}
    PROVE  LET r == content_block_start(c, e)
           IN  Grows(r, c, NumberIf(e.k = "redacted_thinking", e)) /\ r.tok = c.tok /\ r.in_tool = (e.k = "tool_use")
<1> DEFINE r == content_block_start(c, e)
           x == New(e)
           d == OpenTag([c EXCEPT !.in_thinking = TRUE, !.in_tool = FALSE])
<1>1. r = CASE e.k \in {"thinking", "redacted_thinking"} -> (IF e.k = "thinking" THEN d ELSE Thought(d, x))
            [] e.k = "text" -> CloseTag([c EXCEPT !.in_thinking = FALSE, !.in_tool = FALSE])
            [] e.k = "tool_use" -> [c EXCEPT !.in_thinking = FALSE, !.in_tool = TRUE]
  BY DEF content_block_start
<1> HIDE DEF r, x
<1>2. CASE e.k \in {"thinking", "redacted_thinking"}
  <2> DEFINE g == [c EXCEPT !.in_thinking = TRUE, !.in_tool = FALSE]
  <2>1. Turned(g, c, FALSE)
    BY ToolSet
  <2>2. r = IF e.k = "thinking" THEN d ELSE Thought(d, x)
    BY <1>1, <1>2
  <2> HIDE DEF g
  <2>3. Bridge(g) /\ Puts(OpenTag(g), g, <<>>)
    BY <2>1, TagsPut DEF Turned
  <2>4. Bridge(OpenTag(g))
    BY <2>3, PutBridge
  <2>5. Puts(Thought(OpenTag(g), x), OpenTag(g), NumberOf(x))
    BY <2>4, ItemPut
  <2>6. Puts(Thought(OpenTag(g), x), g, NumberOf(x))
    BY <2>3, <2>5, PutsOn
  <2>7. r = IF e.k = "thinking" THEN OpenTag(g) ELSE Thought(OpenTag(g), x)
    BY <2>2 DEF g
  <2>8. Puts(r, g, NumberIf(e.k = "redacted_thinking", e))
    BY <1>2, <2>3, <2>6, <2>7 DEF NumberIf, x
  <2>9. Grows(r, c, NumberIf(e.k = "redacted_thinking", e)) /\ r.tok = c.tok /\ r.in_tool = FALSE
    <3>1. PICK w : w = FALSE
      OBVIOUS
    <3>2. PICK ns : ns = NumberIf(e.k = "redacted_thinking", e)
      OBVIOUS
    <3>3. Turned(g, c, w) /\ Puts(r, g, ns)
      BY <2>1, <2>8, <3>1, <3>2
    <3>4. Grows(r, c, ns) /\ r.tok = c.tok /\ r.in_tool = w
      BY <3>3, TurnedPut
    <3> QED
      BY <3>1, <3>2, <3>4
  <2> QED
    BY <1>2, <2>9 DEF r
<1>3. CASE e.k = "text"
  <2> DEFINE g == [c EXCEPT !.in_thinking = FALSE, !.in_tool = FALSE]
  <2>1. Turned(g, c, FALSE)
    BY ToolSet
  <2>2. r = CloseTag(g)
    BY <1>1, <1>3
  <2> HIDE DEF g
  <2>3. Puts(r, g, NumberIf(e.k = "redacted_thinking", e))
    BY <1>3, <2>1, <2>2, TagsPut DEF Turned, NumberIf
  <2>4. Grows(r, c, NumberIf(e.k = "redacted_thinking", e)) /\ r.tok = c.tok /\ r.in_tool = FALSE
    <3>1. PICK w : w = FALSE
      OBVIOUS
    <3>2. PICK ns : ns = NumberIf(e.k = "redacted_thinking", e)
      OBVIOUS
    <3>3. Turned(g, c, w) /\ Puts(r, g, ns)
      BY <2>1, <2>3, <3>1, <3>2
    <3>4. Grows(r, c, ns) /\ r.tok = c.tok /\ r.in_tool = w
      BY <3>3, TurnedPut
    <3> QED
      BY <3>1, <3>2, <3>4
  <2> QED
    BY <1>3, <2>4 DEF r
<1>4. CASE e.k = "tool_use"
  <2> DEFINE g == [c EXCEPT !.in_thinking = FALSE, !.in_tool = TRUE]
  <2>1. Turned(g, c, TRUE)
    BY ToolSet
  <2>2. r = g
    BY <1>1, <1>4
  <2> HIDE DEF g
  <2>3. Puts(r, g, NumberIf(e.k = "redacted_thinking", e))
    BY <1>4, <2>1, <2>2, SamePut DEF Turned, NumberIf
  <2>4. Grows(r, c, NumberIf(e.k = "redacted_thinking", e)) /\ r.tok = c.tok /\ r.in_tool = TRUE
    <3>1. PICK w : w = TRUE
      OBVIOUS
    <3>2. PICK ns : ns = NumberIf(e.k = "redacted_thinking", e)
      OBVIOUS
    <3>3. Turned(g, c, w) /\ Puts(r, g, ns)
      BY <2>1, <2>3, <3>1, <3>2
    <3>4. Grows(r, c, ns) /\ r.tok = c.tok /\ r.in_tool = w
      BY <3>3, TurnedPut
    <3> QED
      BY <3>1, <3>2, <3>4
  <2> QED
    BY <1>4, <2>4 DEF r
<1> QED
  BY <1>2, <1>3, <1>4

LEMMA BlockDelta ==
    ASSUME NEW c, Bridge(c), NEW e, e.k \in {"signature_delta", "thinking_delta", "text_delta", "input_json_delta"}
    PROVE  Puts(content_block_delta(c, e), c, NumberIf(e.k \in {"thinking_delta", "text_delta"}, e))
<1> DEFINE r == content_block_delta(c, e)
           x == New(e)
<1>1. r = CASE e.k = "signature_delta" -> (IF route.tag THEN c ELSE bridge_send_chunk(c, Bare("signature")))
            [] e.k = "thinking_delta" -> Thought(c, x)
            [] e.k = "text_delta" -> Text(c, x)
            [] e.k = "input_json_delta" -> c
  BY DEF content_block_delta
<1>2. Puts(c, c, <<>>) /\ Puts(bridge_send_chunk(c, Bare("signature")), c, <<>>)
  BY SamePut, FramePut
<1>3. Puts(Thought(c, x), c, NumberOf(x)) /\ Puts(Text(c, x), c, NumberOf(x))
  BY ItemPut
<1> HIDE DEF r, x
<1>4. CASE e.k \in {"thinking_delta", "text_delta"}
  BY <1>1, <1>3, <1>4 DEF NumberIf, x, r
<1>5. CASE e.k \in {"signature_delta", "input_json_delta"}
  BY <1>1, <1>2, <1>5 DEF NumberIf, r
<1> QED
  BY <1>4, <1>5

LEMMA BlockStop ==
    ASSUME NEW c, Bridge(c), NEW e
    PROVE  /\ Grows(content_block_stop(c, e), c, NumberIf(c.in_tool, e))
           /\ content_block_stop(c, e).tok = c.tok
<1> DEFINE r == content_block_stop(c, e)
           x == New(e)
           d == IF c.in_thinking THEN CloseTag([c EXCEPT !.in_thinking = FALSE]) ELSE c
           g == [d EXCEPT !.in_tool = FALSE, !.tool_index = d.tool_index + 1]
<1>1. r = IF d.in_tool THEN bridge_send_chunk(g, <<Frame("tool", d.tool_index, x)>>) ELSE d
  BY DEF content_block_stop
<1>2. Puts(d, c, <<>>)
  <2> DEFINE h == [c EXCEPT !.in_thinking = FALSE]
  <2>1. Puts(h, c, <<>>)
    BY FieldPut
  <2>2. Puts(CloseTag(h), c, <<>>)
    <3> HIDE DEF h
    <3>1. Bridge(h)
      BY <2>1, PutBridge
    <3>2. Puts(CloseTag(h), h, <<>>)
      BY <3>1, TagsPut
    <3> QED
      BY <2>1, <3>2, PutsOn
  <2> QED
    BY <2>2, SamePut
<1> HIDE DEF d, r, x
<1>3. Bridge(d) /\ d.in_tool = c.in_tool /\ d.tok = c.tok
  BY <1>2, PutBridge DEF Puts
<1>4. CASE d.in_tool
  <2>1. Turned(g, d, FALSE)
    BY <1>3, ToolSet
  <2>2. r = bridge_send_chunk(g, <<Frame("tool", d.tool_index, x)>>)
    BY <1>1, <1>4
  <2> HIDE DEF g
  <2>3. Bridge(g)
    BY <2>1 DEF Turned
  <2>4. Puts(r, g, NumberOf(x))
    BY <2>2, <2>3, SamePut, FramePut
  <2>5. Grows(r, d, NumberOf(x)) /\ r.tok = d.tok
    BY <1>3, <2>1, <2>4, TurnedPut
  <2>6. Grows(r, c, NumberOf(x))
    BY <1>2, <2>5, PutsOn
  <2> QED
    BY <1>3, <1>4, <2>5, <2>6 DEF NumberIf, x, r
<1>5. CASE ~d.in_tool
  <2>1. r = d
    BY <1>1, <1>5
  <2> QED
    BY <1>2, <1>3, <1>5, <2>1 DEF NumberIf, Puts, r
<1> QED
  BY <1>4, <1>5

LEMMA ClaudeDelta ==
    ASSUME NEW c, Bridge(c)
    PROVE  Grows(message_delta(c), c, <<>>) /\ message_delta(c).tok = c.tok \cup {"out"}
<1> DEFINE v == c.tok \cup {"out"}
           d == [c EXCEPT !.tok = v]
           r == message_delta(c)
<1>1. Charged(d, c, v)
  BY TokSet
<1>2. r = bridge_send_chunk(d, Bare("finish") \o Bare("usage"))
  BY DEF message_delta
<1> HIDE DEF d, r, v
<1>3. Puts(r, d, <<>>)
  BY <1>1, <1>2, TwoBare, ChunkPut DEF Charged
<1>4. Grows(r, c, <<>>) /\ r.tok = v
  BY <1>1, <1>3, ChargedPut
<1> QED
  BY <1>4 DEF r, v

LEMMA ClaudeStart ==
    ASSUME NEW c, Bridge(c)
    PROVE  LET r == bridge_send_chunk([c EXCEPT !.tok = c.tok \cup {"in"}], Bare("role"))
           IN  Grows(r, c, <<>>) /\ r.tok = c.tok \cup {"in"}
<1> DEFINE v == c.tok \cup {"in"}
           d == [c EXCEPT !.tok = v]
           r == bridge_send_chunk(d, Bare("role"))
<1>1. Charged(d, c, v)
  BY TokSet
<1>2. r = bridge_send_chunk(d, Bare("role"))
  OBVIOUS
<1> HIDE DEF d, r, v
<1>3. Puts(r, d, <<>>)
  BY <1>1, <1>2, SamePut, FramePut DEF Charged
<1>4. Grows(r, c, <<>>) /\ r.tok = v
  BY <1>1, <1>3, ChargedPut
<1> QED
  BY <1>4 DEF r, v, d

LEMMA ClaudeEnds ==
    ASSUME NEW c, Bridge(c)
    PROVE  Puts(message_stop(c), c, <<>>) /\ Puts(error_event(c), c, <<>>)
<1>1. Puts(message_stop(c), c, <<>>)
  <2> DEFINE d == CloseTag(c)
             g == [d EXCEPT !.done = TRUE]
  <2>1. Puts(d, c, <<>>)
    BY TagsPut
  <2>2. message_stop(c) = bridge_send_chunk(g, Bare("done"))
    BY DEF message_stop
  <2> HIDE DEF d
  <2>3. Bridge(d)
    BY <2>1, PutBridge
  <2>4. Puts(g, d, <<>>)
    BY <2>3, FieldPut
  <2> HIDE DEF g
  <2>5. Puts(bridge_send_chunk(g, Bare("done")), d, <<>>)
    BY <2>3, <2>4, FramePut
  <2> QED
    BY <2>1, <2>2, <2>5, PutsOn
<1>2. Puts(error_event(c), c, <<>>)
  <2> DEFINE g == [c EXCEPT !.done = TRUE]
  <2>1. error_event(c) = bridge_send_chunk(g, Bare("error") \o Bare("done"))
    BY DEF error_event
  <2>2. Puts(g, c, <<>>)
    BY FieldPut
  <2> HIDE DEF g
  <2>3. Puts(bridge_send_chunk(g, Bare("error") \o Bare("done")), g, <<>>)
    BY <2>2, PutBridge, TwoBare, ChunkPut
  <2> QED
    BY <2>1, <2>2, <2>3, PutsOn
<1> QED
  BY <1>1, <1>2

LEMMA EventSet ==
    ASSUME NEW c, Bridge(c), NEW v
    PROVE  LET d == [c EXCEPT !.event = v]
           IN  Grows(d, c, <<>>) /\ d.tok = c.tok /\ d.event = v /\ d.in_tool = c.in_tool
<1> DEFINE d == [c EXCEPT !.event = v]
<1>1. DOMAIN d = Fields /\ d.out = c.out /\ d.tok = c.tok /\ d.event = v /\ d.in_tool = c.in_tool
  BY DEF Bridge, Fields
<1>2. Grows(d, c, <<>>)
  <2> HIDE DEF d
  <2> QED
    BY <1>1, NothingPut
<1> QED
  BY <1>1, <1>2

LEMMA AnthropicData ==
    ASSUME NEW c, Bridge(c), NEW e, e.l = "data", c.event = e.t, ClaudeLine(e)
    PROVE  LET r == bridge_process_line(c, e)
           IN  /\ Grows(r, c, NumberIf(ClaudeSends(c, e), e))
               /\ r.tok = ClaudeTok(c.tok, e)
               /\ e.t = "content_block_start" => r.in_tool = (e.k = "tool_use")
               /\ e.t = "content_block_delta" => r.in_tool = c.in_tool
<1> DEFINE r == bridge_process_line(c, e)
           ns == NumberIf(ClaudeSends(c, e), e)
<1>1. r = CASE e.t = "message_start" -> bridge_send_chunk([c EXCEPT !.tok = c.tok \cup {"in"}], Bare("role"))
            [] e.t = "content_block_start" -> content_block_start(c, e)
            [] e.t = "content_block_delta" -> content_block_delta(c, e)
            [] e.t = "content_block_stop" -> content_block_stop(c, e)
            [] e.t = "message_delta" -> message_delta(c)
            [] e.t = "message_stop" -> message_stop(c)
            [] e.t = "error" -> error_event(c)
  BY DEF bridge_process_line
<1> HIDE DEF r
<1>2. CASE e.t = "message_start"
  <2>1. r = bridge_send_chunk([c EXCEPT !.tok = c.tok \cup {"in"}], Bare("role"))
    BY <1>1, <1>2
  <2>2. Grows(r, c, <<>>) /\ r.tok = c.tok \cup {"in"}
    BY <2>1, ClaudeStart
  <2>3. ns = <<>> /\ ClaudeTok(c.tok, e) = c.tok \cup {"in"}
    BY <1>2 DEF ClaudeSends, ClaudeTok, NumberIf
  <2> QED
    BY <1>2, <2>2, <2>3 DEF r
<1>3. CASE e.t = "content_block_start"
  <2>1. r = content_block_start(c, e)
    BY <1>1, <1>3
  <2>2. e.k \in {"thinking", "redacted_thinking", "text", "tool_use"}
    BY <1>3 DEF ClaudeLine
  <2>3. Grows(r, c, NumberIf(e.k = "redacted_thinking", e)) /\ r.tok = c.tok /\ r.in_tool = (e.k = "tool_use")
    BY <2>1, <2>2, BlockStart
  <2>4. ns = NumberIf(e.k = "redacted_thinking", e) /\ ClaudeTok(c.tok, e) = c.tok
    BY <1>3 DEF ClaudeSends, ClaudeTok, NumberIf
  <2> QED
    BY <1>3, <2>3, <2>4 DEF r
<1>4. CASE e.t = "content_block_delta"
  <2>1. r = content_block_delta(c, e)
    BY <1>1, <1>4
  <2>2. e.k \in {"signature_delta", "thinking_delta", "text_delta", "input_json_delta"}
    BY <1>4 DEF ClaudeLine
  <2>3. Puts(r, c, NumberIf(e.k \in {"thinking_delta", "text_delta"}, e))
    BY <2>1, <2>2, BlockDelta
  <2>4. ns = NumberIf(e.k \in {"thinking_delta", "text_delta"}, e) /\ ClaudeTok(c.tok, e) = c.tok
    BY <1>4 DEF ClaudeSends, ClaudeTok, NumberIf
  <2> QED
    BY <1>4, <2>3, <2>4 DEF r, Puts
<1>5. CASE e.t = "content_block_stop"
  <2>1. r = content_block_stop(c, e)
    BY <1>1, <1>5
  <2>2. Grows(r, c, NumberIf(c.in_tool, e)) /\ r.tok = c.tok
    BY <2>1, BlockStop
  <2>3. ns = NumberIf(c.in_tool, e) /\ ClaudeTok(c.tok, e) = c.tok
    BY <1>5 DEF ClaudeSends, ClaudeTok, NumberIf
  <2> QED
    BY <1>5, <2>2, <2>3 DEF r
<1>6. CASE e.t = "message_delta"
  <2>1. r = message_delta(c)
    BY <1>1, <1>6
  <2>2. Grows(r, c, <<>>) /\ r.tok = c.tok \cup {"out"}
    BY <2>1, ClaudeDelta
  <2>3. ns = <<>> /\ ClaudeTok(c.tok, e) = c.tok \cup {"out"}
    BY <1>6 DEF ClaudeSends, ClaudeTok, NumberIf
  <2> QED
    BY <1>6, <2>2, <2>3 DEF r
<1>7. CASE e.t \in {"message_stop", "error"}
  <2>1. r = message_stop(c) \/ r = error_event(c)
    BY <1>1, <1>7
  <2>2. Puts(r, c, <<>>)
    BY <2>1, ClaudeEnds
  <2>3. ns = <<>> /\ ClaudeTok(c.tok, e) = c.tok
    BY <1>7 DEF ClaudeSends, ClaudeTok, NumberIf
  <2> QED
    BY <1>7, <2>2, <2>3 DEF r, Puts
<1> QED
  BY <1>2, <1>3, <1>4, <1>5, <1>6, <1>7 DEF ClaudeLine, ClaudeEvents

LEMMA SnifferLine ==
    ASSUME NEW c, Bridge(c), NEW e
    PROVE  LET r == anthropic_sniffer_process_line(c, e)
           IN  /\ Grows(r, c, <<>>)
               /\ e.l = "event" => r.tok = c.tok /\ r.event = e.t
               /\ e.l = "blank" => r.tok = c.tok
               /\ e.l = "data" /\ c.event = e.t => r.tok = ClaudeTok(c.tok, e)
<1> DEFINE r == anthropic_sniffer_process_line(c, e)
<1>1. CASE e.l = "event"
  <2>1. r = [c EXCEPT !.event = e.t]
    BY <1>1 DEF anthropic_sniffer_process_line
  <2> HIDE DEF r
  <2> QED
    BY <1>1, <2>1, EventSet DEF r
<1>2. CASE e.l = "blank"
  <2>1. r = [c EXCEPT !.event = ""]
    BY <1>2 DEF anthropic_sniffer_process_line
  <2> HIDE DEF r
  <2>2. Grows(r, c, <<>>) /\ r.tok = c.tok
    BY <2>1, EventSet
  <2> QED
    BY <1>2, <2>2 DEF r
<1>3. CASE e.l \notin {"event", "blank"}
  <2>1. r = CASE c.event = "message_start" /\ e.t = c.event -> [c EXCEPT !.tok = c.tok \cup {"in"}]
              [] c.event = "message_delta" /\ e.t = c.event -> [c EXCEPT !.tok = c.tok \cup {"out"}]
              [] OTHER -> c
    BY <1>3 DEF anthropic_sniffer_process_line
  <2> HIDE DEF r
  <2>2. CASE c.event = "message_start" /\ e.t = c.event
    <3>1. r = [c EXCEPT !.tok = c.tok \cup {"in"}]
      BY <2>1, <2>2
    <3>2. Charged(r, c, c.tok \cup {"in"})
      BY <3>1, TokSet
    <3> QED
      BY <1>3, <2>2, <3>2 DEF Charged, ClaudeTok, r
  <2>3. CASE c.event = "message_delta" /\ e.t = c.event
    <3>1. r = [c EXCEPT !.tok = c.tok \cup {"out"}]
      BY <2>1, <2>3
    <3>2. Charged(r, c, c.tok \cup {"out"})
      BY <3>1, TokSet
    <3> QED
      BY <1>3, <2>3, <3>2 DEF Charged, ClaudeTok, r
  <2>4. CASE ~(c.event \in {"message_start", "message_delta"} /\ e.t = c.event)
    <3>1. r = c
      BY <2>1, <2>4
    <3>2. Charged(r, c, c.tok)
      BY <3>1, TokSame
    <3> QED
      BY <1>3, <2>4, <3>2 DEF Charged, ClaudeTok, r
  <2> QED
    BY <2>2, <2>3, <2>4
<1> QED
  BY <1>1, <1>2, <1>3

\* A line that a bridge can be given.
LineOk(e) == e.l \in {"event", "blank", "data"} /\ (route.kind \in ClaudeSide /\ e.l = "data" => ClaudeLine(e))

LEMMA KindsAre ==
    ASSUME route \in Routes
    PROVE  /\ route.kind \in {"openai", "anthropic", "gemini", "responses", "messages", "claude", "genai"}
           /\ route.tag \in BOOLEAN /\ route.single \in BOOLEAN
           /\ route.tag => route.kind \in {"openai", "anthropic", "gemini"}
  BY StreamAssumption

LEMMA LineGrows ==
    ASSUME NEW c, Bridge(c), NEW e, route \in Routes, LineOk(e)
    PROVE  \E ns : Grows(ProcessLine(c, e), c, ns)
<1> DEFINE r == ProcessLine(c, e)
<1>0. route.kind \in {"openai", "anthropic", "gemini", "responses", "messages", "claude", "genai"}
  BY KindsAre
<1>1. CASE route.kind \notin ClaudeSide /\ e.l # "data"
  <2>1. r = c
    BY <1>1 DEF ProcessLine
  <2> HIDE DEF r
  <2> QED
    BY <2>1, SamePut DEF Puts, r
<1>2. CASE route.kind = "claude"
  <2>1. r = anthropic_sniffer_process_line(c, e)
    BY <1>2 DEF ProcessLine, ClaudeSide
  <2> HIDE DEF r
  <2> QED
    BY <2>1, SnifferLine DEF r
<1>3. CASE route.kind \notin ClaudeSide /\ e.l = "data"
  <2>1. /\ route.kind \in {"openai", "responses"} => r = openai_stream_process_line(c, e)
        /\ route.kind = "gemini" => r = gemini_bridge_process_line(c, e)
        /\ route.kind = "messages" => r = oai_ant_process_line(c, e)
        /\ route.kind = "genai" => r = gemini_sniffer_process_line(c, e)
    BY <1>3 DEF ProcessLine, ClaudeSide
  <2>2. gemini_sniffer_process_line(c, e) = [c EXCEPT !.tok = e.u.tok]
    BY DEF gemini_sniffer_process_line
  <2>3. Grows(gemini_sniffer_process_line(c, e), c, <<>>)
    BY <2>2, TokSet DEF Charged
  <2> HIDE DEF r
  <2>4. CASE route.kind \in {"openai", "responses"}
    BY <2>1, <2>4, OpenAiLine DEF r
  <2>5. CASE route.kind = "gemini"
    BY <2>1, <2>5, GeminiLine DEF r
  <2>6. CASE route.kind = "messages"
    BY <2>1, <2>6, OaiAntLine DEF r
  <2>7. CASE route.kind = "genai"
    BY <2>1, <2>3, <2>7 DEF r
  <2> QED
    BY <1>0, <1>3, <2>4, <2>5, <2>6, <2>7 DEF ClaudeSide
<1>4. CASE route.kind = "anthropic"
  <2>1. r = bridge_process_line(c, e)
    BY <1>4 DEF ProcessLine, ClaudeSide
  <2> HIDE DEF r
  <2>2. CASE e.l = "event"
    <3>1. r = [c EXCEPT !.event = e.t]
      BY <2>1, <2>2 DEF bridge_process_line
    <3> QED
      BY <3>1, EventSet DEF r
  <2>3. CASE e.l = "blank"
    <3>1. r = [c EXCEPT !.event = ""]
      BY <2>1, <2>3 DEF bridge_process_line
    <3> QED
      BY <3>1, EventSet DEF r
  <2>4. CASE e.l = "data" /\ c.event # e.t
    <3>1. r = c
      BY <2>1, <2>4 DEF bridge_process_line
    <3> QED
      BY <3>1, SamePut DEF Puts, r
  <2>5. CASE e.l = "data" /\ c.event = e.t
    <3>1. ClaudeLine(e)
      BY <1>4, <2>5 DEF LineOk, ClaudeSide
    <3> QED
      BY <2>1, <2>5, <3>1, AnthropicData DEF r
  <2> QED
    BY <2>2, <2>3, <2>4, <2>5 DEF LineOk
<1> QED
  BY <1>0, <1>1, <1>2, <1>3, <1>4 DEF ClaudeSide

LEMMA FedPut == ASSUME NEW c, Bridge(c) PROVE Puts(Fed(c), c, <<>>)
  BY FieldPut DEF Fed

LEMMA FinishPut ==
    ASSUME NEW c, Bridge(c), route \in Routes
    PROVE  Puts(Finished(c), c, <<>>)
<1>0. route.kind \in {"openai", "anthropic", "gemini", "responses", "messages", "claude", "genai"}
  BY KindsAre
<1> DEFINE d == CloseTag(c)
<1>1. Puts(d, c, <<>>) /\ Bridge(d)
  BY TagsPut, PutBridge
<1>2. Puts(openai_bridge_finish(c), c, <<>>)
  BY <1>1 DEF openai_bridge_finish
<1>3. Puts(anthropic_bridge_finish(c), c, <<>>)
  <2> DEFINE g == [d EXCEPT !.done = TRUE]
  <2>1. anthropic_bridge_finish(c) = IF d.done THEN d ELSE bridge_send_chunk(g, Bare("done"))
    BY DEF anthropic_bridge_finish
  <2> HIDE DEF d
  <2>2. Puts(g, d, <<>>)
    BY <1>1, FieldPut
  <2> HIDE DEF g
  <2>3. Puts(bridge_send_chunk(g, Bare("done")), d, <<>>)
    BY <1>1, <2>2, FramePut
  <2>4. Puts(bridge_send_chunk(g, Bare("done")), c, <<>>)
    BY <1>1, <2>3, PutsOn
  <2> QED
    BY <1>1, <2>1, <2>4
<1>4. Puts(gemini_stream_bridge_finish(c), c, <<>>)
  <2> DEFINE g == [d EXCEPT !.done = TRUE]
  <2>1. gemini_stream_bridge_finish(c) = bridge_send_chunk(g, Bare("finish") \o Bare("done"))
    BY DEF gemini_stream_bridge_finish
  <2> HIDE DEF d
  <2>2. Puts(g, d, <<>>)
    BY <1>1, FieldPut
  <2> HIDE DEF g
  <2>3. Bridge(g) /\ Puts(g, c, <<>>)
    BY <1>1, <2>2, PutBridge, PutsOn
  <2>4. Puts(bridge_send_chunk(g, Bare("finish") \o Bare("done")), g, <<>>)
    BY <2>3, TwoBare, ChunkPut
  <2> QED
    BY <2>1, <2>3, <2>4, PutsOn
<1>5. Puts(oai_ant_bridge_finish(c), c, <<>>)
  <2> DEFINE h == StopThinking(c)
             g == IF h.text_started THEN bridge_send_chunk(h, BlockFrame("block_stop", TextIndex(h))) ELSE h
             j == [g EXCEPT !.done = TRUE]
  <2>1. oai_ant_bridge_finish(c) = bridge_send_chunk(j, Bare("message_delta") \o Bare("message_stop"))
    BY DEF oai_ant_bridge_finish
  <2>2. Puts(h, c, <<>>) /\ Bridge(h)
    BY StopPut, PutBridge
  <2> HIDE DEF h
  <2>3. Puts(g, h, <<>>)
    <3>1. Puts(bridge_send_chunk(h, BlockFrame("block_stop", TextIndex(h))), h, <<>>)
      BY <2>2, SamePut, FramePut
    <3> QED
      BY <2>2, <3>1, SamePut
  <2> HIDE DEF g
  <2>4. Bridge(g) /\ Puts(g, c, <<>>)
    BY <2>2, <2>3, PutBridge, PutsOn
  <2>5. Puts(j, g, <<>>)
    BY <2>4, FieldPut
  <2> HIDE DEF j
  <2>6. Bridge(j) /\ Puts(j, c, <<>>)
    BY <2>4, <2>5, PutBridge, PutsOn
  <2>7. Puts(bridge_send_chunk(j, Bare("message_delta") \o Bare("message_stop")), j, <<>>)
    BY <2>6, TwoBare, ChunkPut
  <2> QED
    BY <2>1, <2>6, <2>7, PutsOn
<1>6. Puts(c, c, <<>>)
  BY SamePut
<1> HIDE DEF d
<1> QED
  BY <1>0, <1>2, <1>3, <1>4, <1>5, <1>6 DEF Finished

-----------------------------------------------------------------------------
(* The invariant                                                             *)

Kinds == {"reason", "text", "wide", "tool"}
ItemType == [n : Nat \ {0}, k : Kinds, w : Nat]
UpFields == {"st", "blk", "n", "items", "tok", "failed", "blocks"}
UpOk(u) == DOMAIN u = UpFields /\ u.n \in Nat /\ u.items \in Seq(ItemType)

Shapes ==
    /\ route \in Routes
    /\ UpOk(up) /\ UpOk(line.u)
    /\ DOMAIN line = {"l", "t", "k", "size", "sent", "u"} /\ line.l \in {"none", "event", "data", "blank"}
    /\ line.size \in Nat /\ line.sent \in 0 .. line.size
    /\ line.l = "none" => line = NoLine
    /\ line.l = "blank" => line = Blank
    /\ DOMAIN buf = {"len", "clean", "head"} /\ buf.len \in Nat
    /\ Bridge(b)
    /\ DOMAIN acc = {"texts", "overflow"} /\ IsSeq(acc.texts) /\ acc.overflow \in BOOLEAN
    /\ DOMAIN call = {"pc", "attempt", "gone", "dirty", "late"}
    /\ DOMAIN seen = {"long", "parts"}

ToolBlocks == {"tool_use", "tool_args"}

\* An Anthropic upstream reports the prompt first and the answer at the end.
TokOk(u) == (u.st = "start" => u.tok = {}) /\ (u.st \in {"open", "block"} => u.tok = {"in"})

\* The event e, which arrives at an upstream v, completes an item.
Completes(v, e) ==
    \/ e.t \in {"reason", "text", "wide", "tool", "output"}
    \/ e.t = "content_block_start" /\ e.k = "redacted_thinking"
    \/ e.t = "content_block_delta" /\ e.k \in {"thinking_delta", "text_delta"}
    \/ e.t = "content_block_stop" /\ v.blk \in ToolBlocks

Brings(v, e) ==
    IF Completes(v, e)
    THEN /\ New(e) \in ItemType /\ e.u.items = Append(v.items, New(e))
         /\ New(e).k = "tool" <=> e.t \in {"tool", "content_block_stop"}
    ELSE e.u.items = v.items

ClaudeBrings(v, e) ==
    /\ ClaudeLine(e) /\ TokOk(e.u) /\ e.u.tok = ClaudeTok(v.tok, e)
    /\ e.t = "content_block_start" => (e.u.blk \in ToolBlocks <=> e.k = "tool_use")
    /\ e.t = "content_block_delta" => v.st = "block" /\ (e.u.blk \in ToolBlocks <=> v.blk \in ToolBlocks)
    /\ e.t = "content_block_stop" => v.st = "block"
    /\ e.u.st = "block" => e.t \in {"content_block_start", "content_block_delta"}

OpenAiBrings(v, e) ==
    /\ e.t \in {"hello", "reason", "text", "wide", "tool", "finish", "usage", "done"}
    /\ e.u.tok = IF e.t = "usage" THEN {"in", "out"} ELSE v.tok

ResponsesBrings(v, e) ==
    /\ e.t \in {"hello", "output", "usage"}
    /\ e.u.tok = IF e.t = "usage" THEN {"in", "out"} ELSE v.tok

\* What the line tells, by the upstream.
Tells(v, e) ==
    /\ UpOk(e.u) /\ Brings(v, e)
    /\ route.kind \in ClaudeSide => ClaudeBrings(v, e)
    /\ route.kind \in {"openai", "messages"} => OpenAiBrings(v, e)
    /\ route.kind = "responses" => ResponsesBrings(v, e)
    /\ route.kind \in {"gemini", "genai"} => e.t \in {"reason", "text", "tool", "finish"}

Arrives ==
    /\ route.kind \in ClaudeSide => TokOk(up)
    /\ line.l \in {"event", "data"} => Tells(up, line)

\* Nothing got lost on the way to the bridge.
Heard == Regular /\ (route.kind \in Native => ~call.gone)

Buffered ==
    /\ line.l \in {"event", "data"} => buf.clean /\ buf.len = line.sent /\ line.size < LineCap - 1
    /\ line.l \in {"none", "blank"} => buf = Empty
    /\ route.kind \in ClaudeSide /\ line.l = "data" => b.event = line.t

Followed(c, v) ==
    /\ c.tok = v.tok
    /\ route.kind = "anthropic" /\ v.st = "block" => (c.in_tool <=> v.blk \in ToolBlocks)
    /\ route.kind \notin Native => SentNumbers(c.out) = Numbers(Due(v.items))

Caught == Heard => Buffered /\ Followed(b, up)

Accumulating == Chat \cup {"responses"}

AccHolds ==
    /\ route.kind \in Accumulating /\ call.pc \in {"reading", "ended"} => acc.overflow \/ acc.texts = Texts(b.out)
    /\ route.kind \notin Accumulating => acc = NewAcc
    /\ call.pc # "ended" => cached = <<>> /\ replayed = <<>>

StreamInv == Shapes /\ Arrives /\ Caught /\ AccHolds /\ CacheHoldsAnswer


-----------------------------------------------------------------------------
(* What the client is to get                                                 *)

Arrived(v, e) == IF Completes(v, e) /\ (New(e).k # "tool" \/ ~Untranslated) THEN <<New(e).n>> ELSE <<>>

LEMMA DueAppend ==
    ASSUME NEW s \in Seq(ItemType), NEW x \in ItemType
    PROVE  Numbers(Due(Append(s, x)))
             = Numbers(Due(s)) \o (IF x.k # "tool" \/ ~Untranslated THEN <<x.n>> ELSE <<>>)
<1> DEFINE keep(v) == [i \in DOMAIN v |-> v[i].k # "tool" \/ ~Untranslated]
           t == <<x>>
<1>1. t \in Seq(ItemType) /\ Append(s, x) = s \o t /\ Len(t) = 1 /\ t[1] = x /\ DOMAIN t = 1 .. 1
  BY AppendIsConcat
<1>2. Splits(keep(s \o t), keep(s), keep(t), s, t)
  <2> HIDE DEF t
  <2>1. Len(s) \in Nat /\ Len(t) \in Nat /\ DOMAIN s = 1 .. Len(s) /\ DOMAIN t = 1 .. Len(t)
    BY <1>1, LenProperties
  <2>2. /\ DOMAIN (s \o t) = 1 .. Len(s) + Len(t)
        /\ \A i \in 1 .. Len(s) + Len(t) : (s \o t)[i] = IF i <= Len(s) THEN s[i] ELSE t[i - Len(s)]
    BY <1>1, ConcatProperties, LenProperties
  <2>3. ASSUME NEW i \in 1 .. Len(s) PROVE keep(s \o t)[i] = keep(s)[i]
    <3>1. i \in 1 .. Len(s) + Len(t) /\ i <= Len(s)
      BY <2>1
    <3> QED
      BY <2>1, <2>2, <3>1
  <2>4. ASSUME NEW i \in 1 .. Len(t) PROVE keep(s \o t)[Len(s) + i] = keep(t)[i]
    <3>1. Len(s) + i \in 1 .. Len(s) + Len(t) /\ ~(Len(s) + i <= Len(s)) /\ (Len(s) + i) - Len(s) = i
      BY <2>1
    <3> QED
      BY <2>1, <2>2, <3>1
  <2> HIDE DEF keep
  <2> QED
    BY <2>3, <2>4 DEF Splits
<1>3. Due(s \o t) = Kept(s \o t, keep(s \o t)) /\ Due(s) = Kept(s, keep(s)) /\ Due(t) = Kept(t, keep(t))
  BY DEF Due
<1>4. keep(t)[1] = (x.k # "tool" \/ ~Untranslated)
  BY <1>1
<1>5. Due(t) = IF x.k # "tool" \/ ~Untranslated THEN <<x>> ELSE <<>>
  <2> HIDE DEF keep
  <2>1. PICK l : l = keep(t)
    OBVIOUS
  <2>2. Kept(<<x>>, l) = IF l[1] THEN <<x>> ELSE <<>>
    BY KeptOne
  <2> QED
    BY <1>3, <1>4, <2>1, <2>2
<1> HIDE DEF keep, t
<1>6. Due(s \o t) = Due(s) \o Due(t)
  <2>1. PICK j, k, l : j = keep(s \o t) /\ k = keep(s) /\ l = keep(t)
    OBVIOUS
  <2>2. Splits(j, k, l, s, t)
    BY <1>2, <2>1, Zenon
  <2>3. Kept(s \o t, j) = Kept(s, k) \o Kept(t, l)
    BY <1>1, <2>2, KeptJoin
  <2> QED
    BY <1>3, <2>1, <2>3, Zenon
<1>7. IsSeq(Due(s)) /\ IsSeq(Due(t))
  BY <1>1, <1>3, KeptSeq DEF IsSeq
<1>8. Numbers(Due(s) \o Due(t)) = Numbers(Due(s)) \o Numbers(Due(t))
  BY <1>7, NumbersJoin
<1>9. Numbers(<<x>>) = <<x.n>> /\ Numbers(<<>>) = <<>>
  BY DEF Numbers
<1>10. Numbers(Due(t)) = IF x.k # "tool" \/ ~Untranslated THEN <<x.n>> ELSE <<>>
  BY <1>5, <1>9
<1> QED
  BY <1>1, <1>6, <1>8, <1>10

LEMMA NothingDue == Numbers(Due(<<>>)) = <<>>
<1>1. Due(<<>>) = <<>>
  BY KeptNone DEF Due
<1> QED
  BY <1>1 DEF Numbers

LEMMA DueIsSeq == ASSUME NEW s \in Seq(ItemType) PROVE IsSeq(Numbers(Due(s)))
<1>1. IsSeq(Due(s))
  BY KeptSeq DEF Due, IsSeq
<1> QED
  BY <1>1, NumbersJoin

\* The event e, which the upstream v sent, adds to what is due.
LEMMA DueGrows ==
    ASSUME NEW v, NEW e, UpOk(v), Brings(v, e)
    PROVE  Numbers(Due(e.u.items)) = Numbers(Due(v.items)) \o Arrived(v, e)
<1>1. v.items \in Seq(ItemType)
  BY DEF UpOk
<1>2. CASE Completes(v, e)
  <2>1. New(e) \in ItemType /\ e.u.items = Append(v.items, New(e))
    BY <1>2 DEF Brings
  <2>2. PICK x \in ItemType : x = New(e)
    BY <2>1
  <2>3. PICK s \in Seq(ItemType) : s = v.items
    BY <1>1
  <2>4. Numbers(Due(Append(s, x))) = Numbers(Due(s)) \o (IF x.k # "tool" \/ ~Untranslated THEN <<x.n>> ELSE <<>>)
    BY DueAppend
  <2>5. Arrived(v, e) = IF x.k # "tool" \/ ~Untranslated THEN <<x.n>> ELSE <<>>
    BY <1>2, <2>2 DEF Arrived
  <2> QED
    BY <2>1, <2>2, <2>3, <2>4, <2>5
<1>3. CASE ~Completes(v, e)
  <2>1. e.u.items = v.items /\ Arrived(v, e) = <<>>
    BY <1>3 DEF Brings, Arrived
  <2>2. Numbers(Due(v.items)) \o <<>> = Numbers(Due(v.items))
    BY <1>1, DueIsSeq, JoinNothing
  <2> QED
    BY <2>1, <2>2
<1> QED
  BY <1>2, <1>3

LEMMA SendsWhatArrived ==
    ASSUME NEW c, NEW r, NEW v, NEW e, Bridge(c), UpOk(v), Brings(v, e), Grows(r, c, Arrived(v, e)),
           SentNumbers(c.out) = Numbers(Due(v.items))
    PROVE  SentNumbers(r.out) = Numbers(Due(e.u.items))
<1>1. PICK ns : ns = Arrived(v, e)
  OBVIOUS
<1>2. SentNumbers(r.out) = SentNumbers(c.out) \o ns
  BY <1>1, GrowsSent
<1> QED
  BY <1>1, <1>2, DueGrows

LEMMA ArrivedIs ==
    ASSUME NEW v, NEW e, Brings(v, e), NEW p, p \in BOOLEAN,
           p <=> Completes(v, e) /\ (New(e).k # "tool" \/ ~Untranslated)
    PROVE  NumberIf(p, e) = Arrived(v, e)
<1>1. Completes(v, e) => New(e).n \in Nat /\ New(e).n # 0
  BY DEF Brings, ItemType
<1>2. Completes(v, e) => NumberOf(New(e)) = <<New(e).n>>
  BY <1>1 DEF NumberOf
<1> QED
  BY <1>2 DEF NumberIf, Arrived

-----------------------------------------------------------------------------
(* A bridge follows the upstream                                             *)

LEMMA OpenAiFollows ==
    ASSUME NEW c, NEW v, NEW e, Bridge(c), UpOk(v), Brings(v, e), route \in Routes,
           \/ route.kind = "openai" /\ OpenAiBrings(v, e)
           \/ route.kind = "responses" /\ ResponsesBrings(v, e),
           Followed(c, v)
    PROVE  Followed(openai_stream_process_line(c, e), e.u)
<1> DEFINE r == openai_stream_process_line(c, e)
<1>1. Grows(r, c, NumberIf(OpenAiSends(e), e)) /\ r.tok = IF e.t = "usage" THEN {"in", "out"} ELSE c.tok
  BY OpenAiLine
<1> HIDE DEF r
<1>2. e.t \notin {"content_block_start", "content_block_delta", "content_block_stop"}
  BY DEF OpenAiBrings, ResponsesBrings
<1>3. OpenAiSends(e) <=> Completes(v, e) /\ (New(e).k # "tool" \/ ~Untranslated)
  <2>1. Completes(v, e) <=> e.t \in {"reason", "text", "wide", "tool", "output"}
    BY <1>2 DEF Completes
  <2>2. Completes(v, e) => (New(e).k = "tool" <=> e.t = "tool")
    BY <1>2 DEF Brings
  <2>3. route.kind = "openai" => (Untranslated <=> route.tag)
    BY DEF Untranslated
  <2>4. route.kind = "responses" => ~route.tag /\ ~Untranslated /\ e.t # "tool"
    BY KindsAre DEF Untranslated, ResponsesBrings
  <2>5. route.kind = "openai" => e.t # "output"
    BY DEF OpenAiBrings
  <2> QED
    BY <2>1, <2>2, <2>3, <2>4, <2>5 DEF OpenAiSends
<1>4. NumberIf(OpenAiSends(e), e) = Arrived(v, e)
  <2>1. PICK p : p = OpenAiSends(e)
    OBVIOUS
  <2>2. p \in BOOLEAN
    BY <2>1 DEF OpenAiSends
  <2>3. NumberIf(p, e) = Arrived(v, e)
    BY <1>3, <2>1, <2>2, ArrivedIs
  <2> QED
    BY <2>1, <2>3
<1>5. SentNumbers(c.out) = Numbers(Due(v.items)) /\ c.tok = v.tok /\ route.kind # "anthropic"
  BY DEF Followed, Native
<1>6. SentNumbers(r.out) = Numbers(Due(e.u.items))
  BY <1>1, <1>4, <1>5, SendsWhatArrived
<1>7. r.tok = e.u.tok
  BY <1>1, <1>5 DEF OpenAiBrings, ResponsesBrings
<1> QED
  BY <1>5, <1>6, <1>7 DEF Followed, r

LEMMA GeminiFollows ==
    ASSUME NEW c, NEW v, NEW e, Bridge(c), UpOk(v), Brings(v, e), route.kind = "gemini",
           e.t \in {"reason", "text", "tool", "finish"}, Followed(c, v)
    PROVE  Followed(gemini_bridge_process_line(c, e), e.u)
<1> DEFINE r == gemini_bridge_process_line(c, e)
<1>1. Grows(r, c, NumberIf(e.t \in {"reason", "text", "tool"}, e)) /\ r.tok = e.u.tok
  BY GeminiLine
<1> HIDE DEF r
<1>2. NumberIf(e.t \in {"reason", "text", "tool"}, e) = Arrived(v, e)
  <2>1. PICK p : p = (e.t \in {"reason", "text", "tool"})
    OBVIOUS
  <2>0. p \in BOOLEAN
    BY <2>1
  <2>2. p <=> Completes(v, e) /\ (New(e).k # "tool" \/ ~Untranslated)
    BY <2>1 DEF Completes, Untranslated
  <2>3. NumberIf(p, e) = Arrived(v, e)
    BY <2>0, <2>2, ArrivedIs
  <2> QED
    BY <2>1, <2>3
<1>3. SentNumbers(c.out) = Numbers(Due(v.items))
  BY DEF Followed, Native
<1>4. SentNumbers(r.out) = Numbers(Due(e.u.items))
  BY <1>1, <1>2, <1>3, SendsWhatArrived
<1> QED
  BY <1>1, <1>4 DEF Followed, r

LEMMA MessagesFollow ==
    ASSUME NEW c, NEW v, NEW e, Bridge(c), UpOk(v), Brings(v, e), route.kind = "messages",
           OpenAiBrings(v, e), Followed(c, v)
    PROVE  Followed(oai_ant_process_line(c, e), e.u)
<1> DEFINE r == oai_ant_process_line(c, e)
<1>1. Grows(r, c, NumberIf(e.t \in {"reason", "text", "wide"}, e)) /\ r.tok = IF e.t = "usage" THEN {"in", "out"} ELSE c.tok
  BY OaiAntLine
<1> HIDE DEF r
<1>2. NumberIf(e.t \in {"reason", "text", "wide"}, e) = Arrived(v, e)
  <2>1. PICK p : p = (e.t \in {"reason", "text", "wide"})
    OBVIOUS
  <2>0. p \in BOOLEAN
    BY <2>1
  <2>2. Completes(v, e) <=> e.t \in {"reason", "text", "wide", "tool"}
    BY DEF Completes, OpenAiBrings
  <2>3. Completes(v, e) => (New(e).k = "tool" <=> e.t = "tool")
    BY DEF Brings, OpenAiBrings
  <2>4. Untranslated
    BY DEF Untranslated
  <2>5. p <=> Completes(v, e) /\ (New(e).k # "tool" \/ ~Untranslated)
    BY <2>1, <2>2, <2>3, <2>4
  <2>6. NumberIf(p, e) = Arrived(v, e)
    BY <2>0, <2>5, ArrivedIs
  <2> QED
    BY <2>1, <2>6
<1>3. SentNumbers(c.out) = Numbers(Due(v.items)) /\ c.tok = v.tok
  BY DEF Followed, Native
<1>4. SentNumbers(r.out) = Numbers(Due(e.u.items))
  BY <1>1, <1>2, <1>3, SendsWhatArrived
<1> QED
  BY <1>1, <1>3, <1>4 DEF Followed, OpenAiBrings, r

LEMMA AnthropicFollows ==
    ASSUME NEW c, NEW v, NEW e, Bridge(c), UpOk(v), Brings(v, e), route.kind = "anthropic",
           ClaudeBrings(v, e), e.l = "data", c.event = e.t, Followed(c, v)
    PROVE  Followed(bridge_process_line(c, e), e.u)
<1> DEFINE r == bridge_process_line(c, e)
<1>1. /\ Grows(r, c, NumberIf(ClaudeSends(c, e), e)) /\ r.tok = ClaudeTok(c.tok, e)
      /\ e.t = "content_block_start" => r.in_tool = (e.k = "tool_use")
      /\ e.t = "content_block_delta" => r.in_tool = c.in_tool
  BY AnthropicData DEF ClaudeBrings
<1> HIDE DEF r
<1>2. c.tok = v.tok /\ (v.st = "block" => (c.in_tool <=> v.blk \in ToolBlocks))
      /\ SentNumbers(c.out) = Numbers(Due(v.items))
  BY DEF Followed, Native
<1>3. ClaudeSends(c, e) <=> Completes(v, e) /\ (New(e).k # "tool" \/ ~Untranslated)
  <2>1. ~Untranslated
    BY DEF Untranslated
  <2>2. e.t \notin {"reason", "text", "wide", "tool", "output"}
    BY DEF ClaudeBrings, ClaudeLine, ClaudeEvents
  <2>3. e.t = "content_block_stop" => (c.in_tool <=> v.blk \in ToolBlocks)
    BY <1>2 DEF ClaudeBrings
  <2> QED
    BY <2>1, <2>2, <2>3 DEF ClaudeSends, Completes
<1>4. NumberIf(ClaudeSends(c, e), e) = Arrived(v, e)
  <2>1. PICK p : p = ClaudeSends(c, e)
    OBVIOUS
  <2>2. p \in BOOLEAN
    BY <2>1 DEF ClaudeSends
  <2>3. NumberIf(p, e) = Arrived(v, e)
    BY <1>3, <2>1, <2>2, ArrivedIs
  <2> QED
    BY <2>1, <2>3
<1>5. SentNumbers(r.out) = Numbers(Due(e.u.items))
  BY <1>1, <1>2, <1>4, SendsWhatArrived
<1>6. r.tok = e.u.tok
  BY <1>1, <1>2 DEF ClaudeBrings
<1>7. e.u.st = "block" => (r.in_tool <=> e.u.blk \in ToolBlocks)
  BY <1>1, <1>2 DEF ClaudeBrings
<1> QED
  BY <1>5, <1>6, <1>7 DEF Followed, r

LEMMA SnifferFollows ==
    ASSUME NEW c, NEW v, NEW e, Bridge(c), route.kind = "claude",
           ClaudeBrings(v, e), e.l = "data", c.event = e.t, Followed(c, v)
    PROVE  Followed(anthropic_sniffer_process_line(c, e), e.u)
<1> DEFINE r == anthropic_sniffer_process_line(c, e)
<1>1. r.tok = ClaudeTok(c.tok, e)
  BY SnifferLine
<1> HIDE DEF r
<1> QED
  BY <1>1 DEF Followed, ClaudeBrings, Native, r

LEMMA DataFollowed ==
    ASSUME NEW c, NEW v, NEW e, Bridge(c), UpOk(v), route \in Routes, e.l = "data", Tells(v, e),
           route.kind \in ClaudeSide => c.event = e.t, Followed(c, v)
    PROVE  Followed(ProcessLine(c, e), e.u)
<1>0. route.kind \in {"openai", "anthropic", "gemini", "responses", "messages", "claude", "genai"}
  BY KindsAre
<1>1. Brings(v, e)
  BY DEF Tells
<1>2. CASE route.kind \in {"openai", "responses"}
  <2>1. ProcessLine(c, e) = openai_stream_process_line(c, e)
    BY <1>2 DEF ProcessLine, ClaudeSide
  <2>2. CASE route.kind = "openai"
    <3>1. OpenAiBrings(v, e)
      BY <2>2 DEF Tells
    <3> QED
      BY <1>1, <2>1, <2>2, <3>1, OpenAiFollows
  <2>3. CASE route.kind = "responses"
    <3>1. ResponsesBrings(v, e)
      BY <2>3 DEF Tells
    <3> QED
      BY <1>1, <2>1, <2>3, <3>1, OpenAiFollows
  <2> QED
    BY <1>2, <2>2, <2>3
<1>3. CASE route.kind = "gemini"
  <2>1. ProcessLine(c, e) = gemini_bridge_process_line(c, e)
    BY <1>3 DEF ProcessLine, ClaudeSide
  <2> QED
    BY <1>1, <1>3, <2>1, GeminiFollows DEF Tells
<1>4. CASE route.kind = "messages"
  <2>1. ProcessLine(c, e) = oai_ant_process_line(c, e)
    BY <1>4 DEF ProcessLine, ClaudeSide
  <2> QED
    BY <1>1, <1>4, <2>1, MessagesFollow DEF Tells
<1>5. CASE route.kind = "anthropic"
  <2>1. ProcessLine(c, e) = bridge_process_line(c, e)
    BY <1>5 DEF ProcessLine, ClaudeSide
  <2> QED
    BY <1>1, <1>5, <2>1, AnthropicFollows DEF Tells, ClaudeSide
<1>6. CASE route.kind = "claude"
  <2>1. ProcessLine(c, e) = anthropic_sniffer_process_line(c, e)
    BY <1>6 DEF ProcessLine, ClaudeSide
  <2> QED
    BY <1>6, <2>1, SnifferFollows DEF Tells, ClaudeSide
<1>7. CASE route.kind = "genai"
  <2>1. ProcessLine(c, e) = gemini_sniffer_process_line(c, e)
    BY <1>7 DEF ProcessLine, ClaudeSide
  <2>2. gemini_sniffer_process_line(c, e).tok = e.u.tok
    BY DEF gemini_sniffer_process_line, Bridge, Fields
  <2> QED
    BY <1>7, <2>1, <2>2 DEF Followed, Native
<1> QED
  BY <1>0, <1>2, <1>3, <1>4, <1>5, <1>6, <1>7

\* An event line and a blank line bring nothing.
LEMMA PlainFollowed ==
    ASSUME NEW c, NEW v, NEW e, Bridge(c), route \in Routes, e.l \in {"event", "blank"}, Followed(c, v)
    PROVE  /\ Followed(ProcessLine(c, e), v)
           /\ route.kind \in ClaudeSide /\ e.l = "event" => ProcessLine(c, e).event = e.t
<1>0. Grows(c, c, <<>>)
  BY SamePut DEF Puts
<1> DEFINE r == ProcessLine(c, e)
<1>1. \/ r = c /\ route.kind \notin ClaudeSide
      \/ route.kind \in ClaudeSide /\ e.l = "event" /\ r = [c EXCEPT !.event = e.t]
      \/ route.kind \in ClaudeSide /\ e.l = "blank" /\ r = [c EXCEPT !.event = ""]
  BY DEF ProcessLine, ClaudeSide, bridge_process_line, anthropic_sniffer_process_line
<1> HIDE DEF r
<1>2. Grows(r, c, <<>>) /\ r.tok = c.tok /\ r.in_tool = c.in_tool
      /\ (route.kind \in ClaudeSide /\ e.l = "event" => r.event = e.t)
  <2>1. CASE r = c /\ route.kind \notin ClaudeSide
    BY <1>0, <2>1
  <2>2. CASE route.kind \in ClaudeSide /\ e.l = "event" /\ r = [c EXCEPT !.event = e.t]
    BY <2>2, EventSet
  <2>3. CASE route.kind \in ClaudeSide /\ e.l = "blank" /\ r = [c EXCEPT !.event = ""]
    BY <2>3, EventSet
  <2> QED
    BY <1>1, <2>1, <2>2, <2>3
<1>3. SentNumbers(r.out) = SentNumbers(c.out)
  <2>1. SentNumbers(r.out) = SentNumbers(c.out) \o <<>> /\ IsSeq(SentNumbers(c.out))
    BY <1>2, GrowsSent
  <2> QED
    BY <2>1, JoinNothing
<1> QED
  BY <1>2, <1>3 DEF Followed, r

LEMMA PutFollowed ==
    ASSUME NEW c, NEW d, NEW v, Bridge(c), Puts(d, c, <<>>), Followed(c, v)
    PROVE  Followed(d, v)
<1>1. SentNumbers(d.out) = SentNumbers(c.out) \o <<>> /\ IsSeq(SentNumbers(c.out))
  BY GrowsSent DEF Puts
<1>2. SentNumbers(d.out) = SentNumbers(c.out)
  BY <1>1, JoinNothing
<1> QED
  BY <1>2 DEF Followed, Puts

-----------------------------------------------------------------------------
(* The accumulator                                                           *)

LEMMA SuffixIs ==
    ASSUME NEW s, NEW t, IsSeq(s), IsSeq(t)
    PROVE  SubSeq(s \o t, Len(s) + 1, Len(s \o t)) = t
<1>1. PICK S : s \in Seq(S) /\ t \in Seq(S)
  BY OneSet
<1>2. Len(s \o t) = Len(s) + Len(t) /\ Len(s) \in Nat /\ Len(t) \in Nat
  BY <1>1, ConcatProperties, LenProperties
<1>3. CASE Len(t) = 0
  <2>1. t = <<>>
    BY <1>1, <1>3, EmptySeq
  <2>2. SubSeq(s \o t, Len(s) + 1, Len(s \o t)) = <<>>
    <3>1. PICK m, n : m = Len(s) + 1 /\ n = Len(s \o t)
      OBVIOUS
    <3>3. m \in Int /\ n \in Int /\ n < m
      BY <1>2, <1>3, <3>1
    <3>2. SubSeq(s \o t, m, n) = <<>>
      BY <3>3, SubSeqEmpty
    <3> QED
      BY <3>1, <3>2
  <2> QED
    BY <2>1, <2>2
<1>4. CASE Len(t) # 0
  <2>1. PICK m, n : m = Len(s) + 1 /\ n = Len(s) + Len(t)
    OBVIOUS
  <2>2. m \in Len(s) + 1 .. Len(s) + Len(t) /\ n \in Len(s) + 1 .. Len(s) + Len(t)
        /\ m - Len(s) = 1 /\ n - Len(s) = Len(t)
    BY <1>2, <1>4, <2>1
  <2>3. SubSeq(s \o t, m, n) = SubSeq(t, m - Len(s), n - Len(s))
    BY <1>1, <2>2, SubSeqOfConcat2
  <2>4. SubSeq(t, 1, Len(t)) = t
    BY <1>1, SubSeqFull
  <2> QED
    BY <1>2, <2>1, <2>2, <2>3, <2>4
<1> QED
  BY <1>3, <1>4

\* The accumulator a holds the texts of what was sent.
HoldsTexts(a, out) ==
    /\ DOMAIN a = {"texts", "overflow"} /\ IsSeq(a.texts) /\ a.overflow \in BOOLEAN
    /\ a.overflow \/ a.texts = Texts(out)

LEMMA AccumulateHolds ==
    ASSUME NEW a, NEW s, NEW t, IsSeq(s), IsSeq(t), HoldsTexts(a, s)
    PROVE  HoldsTexts(accumulate_sse_line(a, t), s \o t)
<1> DEFINE all == a.texts \o Texts(t)
           n == IF Len(all) < AccCap THEN Len(all) ELSE AccCap
           r == accumulate_sse_line(a, t)
<1>1. Texts(s \o t) = Texts(s) \o Texts(t) /\ IsSeq(Texts(s)) /\ IsSeq(Texts(t))
  BY TextsJoin
<1>2. r = IF a.overflow THEN a ELSE [texts |-> SubSeq(all, 1, n), overflow |-> Len(all) > AccCap]
  BY DEF accumulate_sse_line
<1>3. IsSeq(all)
  BY <1>1, JoinIsSeq DEF HoldsTexts
<1>4. ~a.overflow => all = Texts(s \o t)
  BY <1>1 DEF HoldsTexts
<1> HIDE DEF all, r
<1>5. PICK S : all \in Seq(S)
  BY <1>3 DEF IsSeq
<1>6. Len(all) \in Nat /\ n \in Nat /\ n <= Len(all) /\ AccCap \in Nat
  BY <1>5, LenProperties, StreamAssumption
<1>7. IsSeq(SubSeq(all, 1, n))
  <2>1. PICK m : m = n
    OBVIOUS
  <2>2. m \in Int /\ \A i \in 1 .. m : i \in 1 .. Len(all)
    BY <1>6, <2>1
  <2>3. \A i \in 1 .. m : all[i] \in S
    BY <1>5, <2>2, ElementOfSeq
  <2>4. SubSeq(all, 1, m) \in Seq(S)
    BY <2>2, <2>3, SubSeqProperties
  <2> QED
    BY <2>1, <2>4 DEF IsSeq
<1>8. ~(Len(all) > AccCap) => SubSeq(all, 1, n) = all
  <2>1. ~(Len(all) > AccCap) => n = Len(all)
    BY <1>6
  <2>2. SubSeq(all, 1, Len(all)) = all
    BY <1>5, SubSeqFull
  <2> QED
    BY <2>1, <2>2
<1>9. (Len(all) > AccCap) \in BOOLEAN
  BY <1>6
<1>10. CASE a.overflow
  BY <1>2, <1>10 DEF HoldsTexts, r
<1>11. CASE ~a.overflow
  <2>1. r.texts = SubSeq(all, 1, n) /\ r.overflow = (Len(all) > AccCap) /\ DOMAIN r = {"texts", "overflow"}
    BY <1>2, <1>11
  <2>2. r.overflow \/ r.texts = Texts(s \o t)
    BY <1>4, <1>8, <1>11, <2>1
  <2> QED
    BY <1>7, <1>9, <2>1, <2>2 DEF HoldsTexts, r
<1> QED
  BY <1>10, <1>11 DEF HoldsTexts

LEMMA AccumulatedHolds ==
    ASSUME NEW d, NEW ns, Bridge(b), Grows(d, b, ns), HoldsTexts(acc, b.out), route.kind \in Accumulating
    PROVE  HoldsTexts(Accumulated(d), d.out)
<1>1. PICK frames : IsSeq(frames) /\ d.out = b.out \o frames
  BY DEF Grows
<1>2. SubSeq(d.out, Len(b.out) + 1, Len(d.out)) = frames
  BY <1>1, SuffixIs DEF Bridge
<1>3. Accumulated(d) = accumulate_sse_line(acc, frames)
  BY <1>2 DEF Accumulated, Accumulating
<1>4. HoldsTexts(accumulate_sse_line(acc, frames), b.out \o frames)
  BY <1>1, AccumulateHolds DEF Bridge
<1> QED
  BY <1>1, <1>3, <1>4

-----------------------------------------------------------------------------
(* What a replay sends                                                       *)

LEMMA KeptAll ==
    ASSUME NEW S, NEW s \in Seq(S), NEW keep, \A i \in DOMAIN s : keep[i]
    PROVE  Kept(s, keep) = s
<1> DEFINE P(v) == [i \in DOMAIN v |-> <<v[i]>>]
           T == {m \in Nat : \A v \in Seq(S) : Len(v) = m => FlattenSeq(P(v)) = v}
<1>1. \A v \in Seq(S) : P(v) \in Seq(Seq(S)) /\ DOMAIN P(v) = 1 .. Len(v) /\ Len(P(v)) = Len(v)
  <2> TAKE v \in Seq(S)
  <2>1. Len(v) \in Nat /\ DOMAIN v = 1 .. Len(v) /\ \A i \in 1 .. Len(v) : v[i] \in S
    BY LenProperties, ElementOfSeq
  <2>2. \A i \in 1 .. Len(v) : <<v[i]>> \in Seq(S)
    BY <2>1
  <2>3. P(v) \in [1 .. Len(v) -> Seq(S)]
    BY <2>1, <2>2
  <2> HIDE DEF P
  <2>4. P(v) \in Seq(Seq(S))
    BY <2>1, <2>3, IsASeq
  <2> QED
    BY <2>1, <2>3, <2>4, LenProperties
<1>2. 0 \in T
  <2> SUFFICES ASSUME NEW v \in Seq(S), Len(v) = 0 PROVE FlattenSeq(P(v)) = v
    OBVIOUS
  <2>1. v = <<>>
    BY EmptySeq
  <2>2. P(<<>>) = <<>>
    OBVIOUS
  <2>3. FlattenSeq(<<>>) = <<>>
    BY DEF FlattenSeq
  <2> QED
    BY <2>1, <2>2, <2>3
<1>3. ASSUME NEW m \in T PROVE m + 1 \in T
  <2>1. m \in Nat /\ \A v \in Seq(S) : Len(v) = m => FlattenSeq(P(v)) = v
    OBVIOUS
  <2>2. ASSUME NEW v \in Seq(S), Len(v) = m + 1 PROVE FlattenSeq(P(v)) = v
    <3>1. v # <<>>
      BY <2>1, <2>2, EmptySeq
    <3>2. PICK w \in Seq(S), x \in S : v = Append(w, x)
      BY <3>1, SequenceEmptyOrAppend
    <3>3. Len(w) = m /\ Len(w) \in Nat /\ (\A i \in 1 .. Len(w) : v[i] = w[i]) /\ v[Len(w) + 1] = x
      BY <2>1, <2>2, <3>2, AppendProperties, LenProperties
    <3>4. FlattenSeq(P(w)) = w
      BY <2>1, <3>3
    <3>5. P(v) = Append(P(w), <<x>>)
      <4> DEFINE y == <<x>>
                 u == P(w)
                 z == P(v)
      <4>1. y \in Seq(S)
        OBVIOUS
      <4>2. u \in Seq(Seq(S)) /\ z \in Seq(Seq(S)) /\ Len(u) = m /\ Len(z) = m + 1 /\ DOMAIN z = 1 .. m + 1
            /\ DOMAIN u = 1 .. m
        BY <1>1, <2>2, <3>3
      <4>3. \A i \in 1 .. m + 1 : z[i] = <<v[i]>>
        BY <4>2
      <4>4. \A i \in 1 .. m : u[i] = <<w[i]>>
        BY <4>2
      <4> HIDE DEF u, z, y, P
      <4>5. /\ Append(u, y) \in Seq(Seq(S)) /\ Len(Append(u, y)) = m + 1 /\ Append(u, y)[m + 1] = y
            /\ \A i \in 1 .. m : Append(u, y)[i] = u[i]
        BY <4>1, <4>2, AppendProperties
      <4>6. \A i \in 1 .. m + 1 : z[i] = Append(u, y)[i]
        <5> TAKE i \in 1 .. m + 1
        <5>1. i \in 1 .. m \/ i = m + 1
          BY <2>1
        <5>2. CASE i \in 1 .. m
          BY <3>3, <4>3, <4>4, <4>5, <5>2
        <5>3. CASE i = m + 1
          BY <3>3, <4>3, <4>5, <5>3 DEF y
        <5> QED
          BY <5>1, <5>2, <5>3
      <4>7. z = Append(u, y)
        BY <4>2, <4>5, <4>6, SeqEqual
      <4> QED
        BY <4>7 DEF u, z, y
    <3>6. P(w) \in Seq(Seq(S)) /\ <<x>> \in Seq(S)
      BY <1>1
    <3> HIDE DEF P
    <3>7. FlattenSeq(P(v)) = FlattenSeq(P(w)) \o <<x>>
      <4>1. PICK u \in Seq(Seq(S)), y \in Seq(S) : u = P(w) /\ y = <<x>>
        BY <3>6
      <4>2. FlattenSeq(Append(u, y)) = FlattenSeq(u) \o y
        BY FlattenAppend
      <4> QED
        BY <3>5, <4>1, <4>2
    <3> QED
      BY <3>2, <3>4, <3>7, AppendIsConcat
  <2> QED
    BY <2>1, <2>2
<1>4. T = Nat
  <2>1. T \in SUBSET Nat
    OBVIOUS
  <2> HIDE DEF T
  <2> QED
    BY <1>2, <1>3, <2>1, AllNumbers, Zenon
<1>5. FlattenSeq(P(s)) = s
  BY <1>4, LenProperties
<1>6. [i \in DOMAIN s |-> IF keep[i] THEN <<s[i]>> ELSE <<>>] = P(s)
  OBVIOUS
<1> QED
  BY <1>5, <1>6 DEF Kept

\* n bytes in pieces of k: each piece has a byte, and together they have all.
LEMMA Cuts ==
    ASSUME NEW n \in Nat \ {0}, NEW k \in Nat \ {0}
    PROVE  LET m == (n + k - 1) \div k
           IN  /\ m \in Nat \ {0} /\ n <= m * k
               /\ \A q \in 1 .. m : q * k \in Nat /\ (q - 1) * k \in Nat /\ (q - 1) * k + 1 <= n
                                    /\ q * k = (q - 1) * k + k
<1> DEFINE a == n + k - 1
           m == a \div k
<1>1. a \in Nat /\ a = n + k - 1
  OBVIOUS
<1> HIDE DEF a
<1>2. m \in Nat /\ m * k <= a /\ a < (m + 1) * k
  BY <1>1
<1> HIDE DEF m
<1>3. (m + 1) * k = m * k + k /\ m * k \in Nat
  BY <1>2
<1>4. n <= m * k
  BY <1>1, <1>2, <1>3
<1>5. m # 0
  <2>1. m = 0 => m * k = 0
    OBVIOUS
  <2> QED
    BY <1>4, <2>1
<1>6. ASSUME NEW q \in 1 .. m
      PROVE  q * k \in Nat /\ (q - 1) * k \in Nat /\ (q - 1) * k + 1 <= n /\ q * k = (q - 1) * k + k
  <2>1. PICK h \in Nat : h = q - 1 /\ q = h + 1 /\ h + 1 <= m
    BY <1>2
  <2>2. h * k \in Nat /\ (h + 1) * k \in Nat /\ (h + 1) * k = h * k + k
    BY <2>1
  <2>3. (h + 1) * k <= m * k
    BY <1>2, <2>1
  <2>4. h * k + 1 <= n
    BY <1>1, <1>2, <1>3, <2>2, <2>3
  <2> QED
    BY <2>1, <2>2, <2>4
<1> QED
  BY <1>2, <1>4, <1>5, <1>6 DEF m, a

\* s cut after every k elements.
Cut(s, k) == [p \in 1 .. (Len(s) + k - 1) \div k |-> SubSeq(s, (p - 1) * k + 1, IF p * k < Len(s) THEN p * k ELSE Len(s))]

LEMMA CutPieces ==
    ASSUME NEW S, NEW s \in Seq(S), NEW k \in Nat \ {0}, Len(s) # 0
    PROVE  /\ Cut(s, k) \in Seq(Seq(S)) /\ Len(Cut(s, k)) # 0
           /\ \A p \in DOMAIN Cut(s, k) : Head(Cut(s, k)[p]) \in S /\ Last(Cut(s, k)[p]) \in S
<1> DEFINE n == Len(s)
           m == (n + k - 1) \div k
           To(p) == IF p * k < n THEN p * k ELSE n
           u == Cut(s, k)
<1>0. n \in Nat \ {0}
  BY LenProperties
<1>1. /\ m \in Nat \ {0} /\ n <= m * k
      /\ \A q \in 1 .. m : q * k \in Nat /\ (q - 1) * k \in Nat /\ (q - 1) * k + 1 <= n
                           /\ q * k = (q - 1) * k + k
  <2> HIDE DEF n
  <2> QED
    BY <1>0, Cuts
<1>2. u = [p \in 1 .. m |-> SubSeq(s, (p - 1) * k + 1, To(p))]
  BY DEF Cut
<1> HIDE DEF m, u
<1>3. ASSUME NEW p \in 1 .. m
      PROVE  SubSeq(s, (p - 1) * k + 1, To(p)) \in Seq(S) /\ Head(SubSeq(s, (p - 1) * k + 1, To(p))) \in S
             /\ Last(SubSeq(s, (p - 1) * k + 1, To(p))) \in S
  <2>1. PICK i, j : i = (p - 1) * k + 1 /\ j = To(p)
    OBVIOUS
  <2>2. i \in 1 .. n /\ j \in i .. n
    <3>1. (p - 1) * k \in Nat /\ (p - 1) * k + 1 <= n /\ p * k = (p - 1) * k + k /\ p * k \in Nat
      BY <1>1
    <3>2. PICK g \in Nat, h \in Nat : g = (p - 1) * k /\ h = p * k
      BY <3>1
    <3> HIDE DEF n
    <3> QED
      BY <1>0, <2>1, <3>1, <3>2
  <2>3. \A x \in i .. j : s[x] \in S
    <3>1. \A x \in i .. j : x \in 1 .. Len(s)
      BY <1>0, <2>2
    <3> QED
      BY <3>1, ElementOfSeq
  <2> DEFINE v == SubSeq(s, i, j)
  <2>4. /\ v \in Seq(S) /\ Len(v) = IF i <= j THEN j - i + 1 ELSE 0
        /\ \A x \in 1 .. j - i + 1 : v[x] = s[i + x - 1]
    <3>1. i \in Int /\ j \in Int
      BY <1>0, <2>2
    <3> QED
      BY <2>3, <3>1, SubSeqProperties
  <2> HIDE DEF v
  <2>5. Len(v) \in Nat \ {0}
    <3> HIDE DEF n
    <3> QED
      BY <1>0, <2>2, <2>4
  <2>6. v # <<>>
    BY <2>5
  <2>7. Head(v) \in S
    BY <2>4, <2>6, HeadTailProperties
  <2>8. Last(v) \in S
    <3>1. Len(v) \in 1 .. Len(v) /\ Last(v) = v[Len(v)]
      BY <2>5 DEF Last
    <3> QED
      BY <2>4, <3>1, ElementOfSeq
  <2> QED
    BY <2>1, <2>4, <2>7, <2>8 DEF v
<1>4. u \in [1 .. m -> Seq(S)]
  <2> HIDE DEF To
  <2> QED
    BY <1>2, <1>3
<1>5. u \in Seq(Seq(S)) /\ Len(u) = m /\ DOMAIN u = 1 .. m
  <2>1. u \in Seq(Seq(S))
    BY <1>1, <1>4, IsASeq
  <2> QED
    BY <1>1, <1>4, <2>1, LenProperties
<1>6. \A p \in DOMAIN u : Head(u[p]) \in S /\ Last(u[p]) \in S
  <2> HIDE DEF To
  <2> QED
    BY <1>2, <1>3, <1>5
<1> QED
  BY <1>1, <1>5, <1>6 DEF u

LEMMA CutJoin ==
    ASSUME NEW S, NEW s \in Seq(S), NEW k \in Nat \ {0}, Len(s) # 0
    PROVE  FlattenSeq(Cut(s, k)) = s
<1> DEFINE n == Len(s)
           m == (n + k - 1) \div k
           To(p) == IF p * k < n THEN p * k ELSE n
           u == Cut(s, k)
<1>0. n \in Nat \ {0}
  BY LenProperties
<1>1. /\ m \in Nat \ {0} /\ n <= m * k
      /\ \A q \in 1 .. m : q * k \in Nat /\ (q - 1) * k \in Nat /\ (q - 1) * k + 1 <= n
                           /\ q * k = (q - 1) * k + k
  <2> HIDE DEF n
  <2> QED
    BY <1>0, Cuts
<1>2. u = [p \in 1 .. m |-> SubSeq(s, (p - 1) * k + 1, To(p))]
  BY DEF Cut
<1>3. u \in Seq(Seq(S)) /\ Len(u) # 0
  BY CutPieces
<1> HIDE DEF m, u
<1>4. Len(u) = m
  <2>1. DOMAIN u = 1 .. m
    BY <1>2
  <2> QED
    BY <1>1, <1>3, <2>1, LenProperties
<1>5. PICK f \in [1 .. m -> Seq(S)] : Flattens(f, u) /\ FlattenSeq(u) = f[m]
  BY <1>3, <1>4, FlattenIs
<1>6. \A i \in 1 .. m : f[i] = IF i = 1 THEN SubSeq(s, (i - 1) * k + 1, To(i)) ELSE f[i - 1] \o SubSeq(s, (i - 1) * k + 1, To(i))
  <2>1. \A i \in 1 .. m : u[i] = SubSeq(s, (i - 1) * k + 1, To(i))
    BY <1>2
  <2>2. \A i \in 1 .. m : f[i] = IF i = 1 THEN u[i] ELSE f[i - 1] \o u[i]
    BY <1>4, <1>5 DEF Flattens
  <2> QED
    BY <2>1, <2>2, Zenon
<1>7. \A i \in 1 .. m : To(i) \in 1 .. n /\ (i < m => To(i) = i * k)
  <2> TAKE i \in 1 .. m
  <2>1. i * k \in Nat /\ i * k # 0
    <3>1. PICK g \in Nat : g = (i - 1) * k
      BY <1>1
    <3> QED
      BY <1>1, <3>1
  <2>2. i < m => i * k + 1 <= n
    <3> SUFFICES ASSUME i < m PROVE i * k + 1 <= n
      OBVIOUS
    <3>1. i + 1 \in 1 .. m /\ (i + 1) - 1 = i
      BY <1>1
    <3>2. ((i + 1) - 1) * k + 1 <= n
      BY <1>1, <3>1
    <3> QED
      BY <3>1, <3>2
  <2>3. PICK h \in Nat : h = i * k
    BY <2>1
  <2> HIDE DEF n
  <2> QED
    BY <1>0, <2>1, <2>2, <2>3
<1>8. To(m) = n
  BY <1>0, <1>1
<1> DEFINE T == {j \in Nat : j + 1 <= m => f[j + 1] = SubSeq(s, 1, To(j + 1))}
<1> HIDE DEF To
<1>9. 0 \in T
  <2>1. 1 \in 1 .. m /\ (1 - 1) * k + 1 = 1
    BY <1>1
  <2>2. f[1] = SubSeq(s, (1 - 1) * k + 1, To(1))
    BY <1>6, <2>1
  <2> QED
    BY <2>1, <2>2
<1>10. ASSUME NEW j \in T PROVE j + 1 \in T
  <2>1. j \in Nat /\ (j + 1 <= m => f[j + 1] = SubSeq(s, 1, To(j + 1)))
    OBVIOUS
  <2>2. ASSUME j + 2 <= m PROVE f[j + 2] = SubSeq(s, 1, To(j + 2))
    <3>1. j + 2 \in 1 .. m /\ j + 1 \in 1 .. m /\ j + 2 # 1 /\ (j + 2) - 1 = j + 1 /\ j + 1 < m
      BY <1>1, <2>1, <2>2
    <3>2. PICK x, y : x = To(j + 1) /\ y = To(j + 2)
      OBVIOUS
    <3>3. x \in 1 .. n /\ y \in 1 .. n /\ x = (j + 1) * k
      BY <1>7, <3>1, <3>2
    <3>4. f[j + 2] = SubSeq(s, 1, x) \o SubSeq(s, x + 1, y)
      <4>1. f[j + 2] = f[(j + 2) - 1] \o SubSeq(s, ((j + 2) - 1) * k + 1, To(j + 2))
        BY <1>6, <3>1, Zenon
      <4>2. f[j + 1] = SubSeq(s, 1, x)
        BY <2>1, <3>1, <3>2
      <4> QED
        BY <3>1, <3>2, <3>3, <4>1, <4>2, Zenon
    <3>5. x <= y
      <4>1. (j + 2) * k = ((j + 2) - 1) * k + k
        BY <1>1, <3>1
      <4>2. PICK g : g = (j + 2) * k
        OBVIOUS
      <4>3. g = x + k
        BY <3>1, <3>3, <4>1, <4>2
      <4>4. y = IF g < n THEN g ELSE n
        BY <3>2, <4>2 DEF To
      <4> HIDE DEF n
      <4> QED
        BY <1>0, <3>3, <4>3, <4>4
    <3>6. 1 \in 1 .. Len(s) + 1 /\ x \in 1 - 1 .. Len(s) /\ y \in x .. Len(s)
      BY <1>0, <3>3, <3>5
    <3>7. SubSeq(s, 1, x) \o SubSeq(s, x + 1, y) = SubSeq(s, 1, y)
      BY <3>6, ConcatAdjacentSubSeq
    <3> QED
      BY <3>2, <3>4, <3>7
  <2>3. j + 1 \in Nat /\ (j + 1) + 1 = j + 2
    BY <2>1
  <2> QED
    BY <2>2, <2>3
<1>11. T = Nat
  <2>1. T \in SUBSET Nat
    OBVIOUS
  <2> HIDE DEF T
  <2> QED
    BY <1>9, <1>10, <2>1, AllNumbers, Zenon
<1>12. PICK j \in Nat : j + 1 = m
  <2>1. m - 1 \in Nat /\ (m - 1) + 1 = m
    BY <1>1
  <2> QED
    BY <2>1
<1>13. f[m] = SubSeq(s, 1, To(m))
  <2>1. j \in T
    <3> HIDE DEF T
    <3> QED
      BY <1>11
  <2>2. j + 1 <= m
    BY <1>1, <1>12
  <2>3. f[j + 1] = SubSeq(s, 1, To(j + 1))
    BY <2>1, <2>2
  <2> QED
    BY <1>12, <2>3
<1>14. SubSeq(s, 1, n) = s
  BY SubSeqFull
<1> QED
  BY <1>5, <1>8, <1>13, <1>14 DEF u

LEMMA ReplayWhole ==
    ASSUME NEW t, IsSeq(t), t # <<>>, \A i \in DOMAIN t : t[i].w = 1
    PROVE  LET p == Pieces(t)
               whole == [i \in DOMAIN p |-> Head(p[i]).j = 1 /\ Last(p[i]).j = t[Last(p[i]).i].w]
           IN  FlattenSeq(Kept(p, whole)) = Bytes(t)
<1> DEFINE n == Len(t)
           S == {[i |-> x, j |-> 1] : x \in 1 .. n}
           v == [i \in 1 .. n |-> [i |-> i, j |-> 1]]
           p == Pieces(t)
           whole == [i \in DOMAIN p |-> Head(p[i]).j = 1 /\ Last(p[i]).j = t[Last(p[i]).i].w]
<1>1. n \in Nat \ {0} /\ DOMAIN t = 1 .. n
  BY EmptySeq, LenProperties DEF IsSeq
<1>2. v \in Seq(S) /\ DOMAIN v = 1 .. n /\ Len(v) = n
  <2>1. v \in [1 .. n -> S]
    OBVIOUS
  <2> HIDE DEF v, S
  <2>2. v \in Seq(S)
    BY <1>1, <2>1, IsASeq
  <2> QED
    BY <1>1, <2>1, <2>2, LenProperties
<1>3. Bytes(t) = v
  <2> DEFINE all == [i \in DOMAIN v |-> TRUE]
  <2>1. [i \in DOMAIN t |-> [j \in 1 .. t[i].w |-> [i |-> i, j |-> j]]] = [i \in DOMAIN v |-> <<v[i]>>]
    <3>1. ASSUME NEW i \in 1 .. n PROVE [j \in 1 .. t[i].w |-> [i |-> i, j |-> j]] = <<v[i]>>
      <4>1. t[i].w = 1 /\ v[i] = [i |-> i, j |-> 1]
        BY <1>1
      <4>2. [j \in 1 .. 1 |-> [i |-> i, j |-> j]] = << [i |-> i, j |-> 1] >>
        <5>1. \A j \in 1 .. 1 : j = 1
          OBVIOUS
        <5> QED
          BY <5>1
      <4> QED
        BY <4>1, <4>2
    <3> HIDE DEF v
    <3> QED
      BY <1>1, <1>2, <3>1
  <2>2. [i \in DOMAIN v |-> IF all[i] THEN <<v[i]>> ELSE <<>>] = [i \in DOMAIN v |-> <<v[i]>>]
    OBVIOUS
  <2>3. Kept(v, all) = v
    <3>1. \A i \in DOMAIN v : all[i]
      OBVIOUS
    <3> HIDE DEF v, all, S
    <3> QED
      BY <1>2, <3>1, KeptAll
  <2>4. Kept(v, all) = FlattenSeq([i \in DOMAIN v |-> <<v[i]>>])
    BY <2>2 DEF Kept
  <2>5. Bytes(t) = FlattenSeq([i \in DOMAIN v |-> <<v[i]>>])
    BY <2>1 DEF Bytes
  <2> QED
    BY <2>3, <2>4, <2>5
<1>4. p = Cut(v, Step)
  BY <1>3 DEF Pieces, Cut
<1>5. \A x \in S : x.j = 1 /\ x.i \in 1 .. n
  OBVIOUS
<1> HIDE DEF v, S, p
<1>6. Step \in Nat \ {0} /\ Len(v) # 0
  BY <1>1, <1>2, StreamAssumption
<1>7. p \in Seq(Seq(S)) /\ \A i \in DOMAIN p : Head(p[i]) \in S /\ Last(p[i]) \in S
  BY <1>2, <1>4, <1>6, CutPieces
<1>8. FlattenSeq(p) = v
  BY <1>2, <1>4, <1>6, CutJoin
<1>9. \A i \in DOMAIN p : whole[i]
  <2> TAKE i \in DOMAIN p
  <2>1. Head(p[i]).j = 1 /\ Last(p[i]).j = 1 /\ Last(p[i]).i \in 1 .. n
    BY <1>5, <1>7
  <2>2. t[Last(p[i]).i].w = 1
    BY <1>1, <2>1
  <2> QED
    BY <2>1, <2>2
<1>10. Kept(p, whole) = p
  <2> HIDE DEF whole
  <2> QED
    BY <1>7, <1>9, KeptAll
<1> QED
  BY <1>3, <1>8, <1>10 DEF p

-----------------------------------------------------------------------------
(* The invariant is inductive                                                *)

\* What is about the route alone does not change with it.
LEMMA SameRoute ==
    ASSUME route' = route
    PROVE  /\ Followed(b, up)' <=> Followed(b', up')
           /\ Tells(up, line)' <=> Tells(up', line')
<1>1. Untranslated' <=> Untranslated
  BY DEF Untranslated
<1>2. Due(up.items)' = Due(up'.items)
  BY <1>1 DEF Due
<1>3. Followed(b, up)' <=> Followed(b', up')
  BY <1>2 DEF Followed
<1>4. Tells(up, line)' <=> Tells(up', line')
  BY DEF Tells
<1> QED
  BY <1>3, <1>4

LEMMA SameTold ==
    ASSUME NEW v, NEW e, NEW f, e.t = f.t, e.k = f.k, e.u = f.u, Tells(v, e)
    PROVE  Tells(v, f)
<1>1. New(e) = New(f) /\ (Completes(v, e) <=> Completes(v, f))
  BY DEF New, Completes
<1>2. UpOk(f.u) /\ Brings(v, f)
  BY <1>1 DEF Tells, Brings
<1>3. ClaudeBrings(v, e) => ClaudeBrings(v, f)
  BY DEF ClaudeBrings, ClaudeLine, ClaudeTok
<1>4. (OpenAiBrings(v, e) => OpenAiBrings(v, f)) /\ (ResponsesBrings(v, e) => ResponsesBrings(v, f))
  BY DEF OpenAiBrings, ResponsesBrings
<1> QED
  BY <1>2, <1>3, <1>4 DEF Tells

LEMMA FreshStream ==
    /\ UpOk(NewUp) /\ TokOk(NewUp) /\ Bridge(bridge_new) /\ Followed(bridge_new, NewUp) /\ HoldsTexts(NewAcc, bridge_new.out)
    /\ UpOk(NoLine.u) /\ UpOk(Blank.u)
<1>1. UpOk(NewUp)
  <2>1. <<>> \in Seq(ItemType)
    BY EmptySeq
  <2> QED
    BY <2>1 DEF UpOk, NewUp, UpFields
<1>2. TokOk(NewUp)
  BY DEF TokOk, NewUp
<1>3. Bridge(bridge_new)
  BY NothingIsSeq DEF Bridge, bridge_new, Fields
<1>4. Followed(bridge_new, NewUp)
  <2>1. bridge_new.out = <<>> /\ bridge_new.tok = NewUp.tok /\ NewUp.st = "start" /\ NewUp.items = <<>>
    BY DEF bridge_new, NewUp
  <2>2. SentNumbers(<<>>) = <<>>
    BY OneSent
  <2> QED
    BY <2>1, <2>2, NothingDue DEF Followed
<1>5. HoldsTexts(NewAcc, bridge_new.out)
  <2>1. Texts(<<>>) = <<>>
    BY KeptNone DEF Texts
  <2> QED
    BY <2>1, NothingIsSeq DEF HoldsTexts, NewAcc, bridge_new
<1> QED
  BY <1>1, <1>2, <1>3, <1>4, <1>5 DEF NoLine, Blank

LEMMA InitHolds == StreamInit => StreamInv
<1> SUFFICES ASSUME StreamInit PROVE StreamInv
  OBVIOUS
<1> USE DEF StreamInit
<1>1. Shapes
  <2>1. UpOk(up) /\ UpOk(line.u) /\ Bridge(b) /\ route \in Routes
    BY FreshStream
  <2>2. DOMAIN acc = {"texts", "overflow"} /\ IsSeq(acc.texts) /\ acc.overflow \in BOOLEAN
    BY FreshStream DEF HoldsTexts
  <2>3. /\ DOMAIN line = {"l", "t", "k", "size", "sent", "u"} /\ line.l = "none" /\ line = NoLine
        /\ line.size \in Nat /\ line.sent \in 0 .. line.size
    <3>1. line = NoLine
      OBVIOUS
    <3>2. DOMAIN NoLine = {"l", "t", "k", "size", "sent", "u"} /\ NoLine.l = "none" /\ NoLine.size = 0 /\ NoLine.sent = 0
      BY DEF NoLine
    <3> QED
      BY <3>1, <3>2
  <2>4. DOMAIN buf = {"len", "clean", "head"} /\ buf.len \in Nat
    BY DEF Empty
  <2>5. DOMAIN call = {"pc", "attempt", "gone", "dirty", "late"} /\ DOMAIN seen = {"long", "parts"}
    OBVIOUS
  <2> QED
    BY <2>1, <2>2, <2>3, <2>4, <2>5 DEF Shapes
<1>2. Arrives
  BY FreshStream DEF Arrives, NoLine
<1>3. Caught
  BY FreshStream DEF Caught, Buffered, NoLine
<1>4. AccHolds /\ CacheHoldsAnswer
  BY FreshStream DEF AccHolds, CacheHoldsAnswer, HoldsTexts
<1> QED
  BY <1>1, <1>2, <1>3, <1>4 DEF StreamInv

LEMMA AccKept ==
    ASSUME Shapes, AccHolds, route.kind \in Accumulating, call.pc = "reading"
    PROVE  HoldsTexts(acc, b.out)
  BY DEF Shapes, AccHolds, HoldsTexts

-----------------------------------------------------------------------------
(* The upstream's steps                                                      *)

Told(t, k, u) == [t |-> t, k |-> k, u |-> u]

LEMMA SendsKeeps ==
    ASSUME StreamInv, NEW t, NEW k, NEW u, Sends(t, k, u), Tells(up, Told(t, k, u))
    PROVE  StreamInv'
<1>0. /\ call.pc = "reading" /\ line = NoLine
      /\ route' = route /\ up' = up /\ buf' = buf /\ b' = b /\ acc' = acc /\ call' = call
      /\ cached' = cached /\ replayed' = replayed
  BY DEF Sends
<1>1. PICK size : /\ size \in IF u.n > up.n THEN LineSizes ELSE {2}
                  /\ line' = [l |-> IF route.kind \in Evented THEN "event" ELSE "data",
                              t |-> t, k |-> k, size |-> size, sent |-> 0, u |-> u]
                  /\ seen' = [seen EXCEPT !.long = @ \/ size >= LineCap - 1]
  BY DEF Sends
<1>2. size \in Nat /\ LineCap \in Nat \ {0}
  BY <1>1, StreamAssumption
<1>3. /\ DOMAIN line' = {"l", "t", "k", "size", "sent", "u"} /\ line'.l = (IF route.kind \in Evented THEN "event" ELSE "data")
      /\ line'.t = t /\ line'.k = k /\ line'.u = u /\ line'.size = size /\ line'.sent = 0
  BY <1>1
<1>4. Tells(up, line')
  <2>1. PICK e : e = Told(t, k, u)
    OBVIOUS
  <2>2. e.t = t /\ e.k = k /\ e.u = u
    BY <2>1 DEF Told
  <2> QED
    BY <1>3, <2>1, <2>2, SameTold
<1>5. DOMAIN seen = {"long", "parts"}
  BY DEF StreamInv, Shapes
<1>6. DOMAIN seen' = {"long", "parts"} /\ (~seen'.long => ~seen.long /\ size < LineCap - 1)
  <2>1. PICK p : p = (size >= LineCap - 1)
    OBVIOUS
  <2>2. seen' = [seen EXCEPT !.long = seen.long \/ p]
    BY <1>1, <2>1
  <2>3. DOMAIN seen' = {"long", "parts"} /\ seen'.long = (seen.long \/ p)
    BY <1>5, <2>2
  <2>4. ~seen'.long => ~seen.long /\ ~p
    BY <2>3
  <2>5. ~p => size < LineCap - 1
    <3>1. ~(size >= LineCap - 1) => size < LineCap - 1
      BY <1>2
    <3> QED
      BY <2>1, <3>1, Zenon
  <2> QED
    BY <2>3, <2>4, <2>5
<1>7. Shapes'
  <2>1. UpOk(u)
    BY <1>4, <1>3 DEF Tells
  <2> QED
    BY <1>0, <1>2, <1>3, <1>6, <2>1 DEF StreamInv, Shapes
<1>8. Arrives'
  <2>1. Tells(up, line)'
    BY <1>0, <1>4, SameRoute
  <2> QED
    BY <1>0, <2>1 DEF StreamInv, Arrives
<1>9. Caught'
  <2> SUFFICES ASSUME Heard' PROVE Buffered' /\ Followed(b, up)'
    BY DEF Caught
  <2>1. Heard
    BY <1>0, <1>6 DEF Heard, Regular
  <2>2. Buffered /\ Followed(b, up)
    BY <2>1 DEF StreamInv, Caught
  <2>3. buf = Empty
    BY <1>0, <2>2 DEF Buffered, NoLine
  <2>4. size < LineCap - 1
    BY <1>6 DEF Heard, Regular
  <2>5. Buffered'
    BY <1>0, <1>3, <2>3, <2>4 DEF Buffered, Empty, Evented
  <2> QED
    BY <1>0, <2>2, <2>5, SameRoute
<1>10. AccHolds' /\ CacheHoldsAnswer'
  BY <1>0 DEF StreamInv, AccHolds, CacheHoldsAnswer
<1> QED
  BY <1>7, <1>8, <1>9, <1>10 DEF StreamInv

\* u is up with another item, of kind k.
AddsItem(u, k) == UpOk(u) /\ \E x \in ItemType : x.k = k /\ u.items = Append(up.items, x)

LEMMA AddsBrings ==
    ASSUME NEW e, NEW k, UpOk(up), AddsItem(e.u, k), Completes(up, e), k = "tool" <=> e.t \in {"tool", "content_block_stop"}
    PROVE  Brings(up, e)
<1>1. PICK x \in ItemType : x.k = k /\ e.u.items = Append(up.items, x)
  BY DEF AddsItem
<1>2. PICK s \in Seq(ItemType) : s = up.items
  BY DEF UpOk
<1>3. Last(Append(s, x)) = x
  <2>1. Len(s) \in Nat /\ Len(Append(s, x)) = Len(s) + 1 /\ Append(s, x)[Len(s) + 1] = x
    BY AppendProperties, LenProperties
  <2> QED
    BY <2>1 DEF Last
<1>4. New(e) = x
  BY <1>1, <1>2, <1>3 DEF New
<1> QED
  BY <1>1, <1>4 DEF Brings

LEMMA GrownAdds ==
    ASSUME NEW k \in Kinds, UpOk(up), NEW u, DOMAIN u = UpFields, u.n = Grown(k).n, u.items = Grown(k).items
    PROVE  AddsItem(u, k)
<1> DEFINE x == [n |-> up.n + 1, k |-> k, w |-> IF k = "wide" THEN 2 ELSE 1]
<1>1. x \in ItemType /\ x.k = k
  BY DEF UpOk, ItemType, Kinds
<1>2. Grown(k).n = up.n + 1 /\ Grown(k).items = Append(up.items, x)
  BY DEF Grown, UpOk, UpFields
<1> HIDE DEF x
<1>3. u.n \in Nat /\ u.items \in Seq(ItemType)
  <2>1. PICK s \in Seq(ItemType) : s = up.items
    BY DEF UpOk
  <2>2. Append(s, x) \in Seq(ItemType)
    BY <1>1, AppendProperties
  <2> QED
    BY <1>2, <2>1, <2>2 DEF UpOk
<1> QED
  BY <1>1, <1>2, <1>3 DEF AddsItem, UpOk

LEMMA GrownIs ==
    ASSUME NEW k, UpOk(up)
    PROVE  DOMAIN Grown(k) = UpFields /\ Grown(k).tok = up.tok /\ Grown(k).st = up.st /\ Grown(k).blk = up.blk
  BY DEF Grown, UpOk, UpFields

\* u is up with the same items.
Quiet(u) == DOMAIN u = UpFields /\ u.n = up.n /\ u.items = up.items

LEMMA QuietBrings ==
    ASSUME NEW e, UpOk(up), Quiet(e.u), ~Completes(up, e)
    PROVE  UpOk(e.u) /\ Brings(up, e)
  BY DEF UpOk, Quiet, Brings

LEMMA OpenAiKeeps == ASSUME StreamInv, OpenAiUpstream PROVE StreamInv'
<1>1. UpOk(up) /\ DOMAIN up = UpFields
  BY DEF StreamInv, Shapes, UpOk
<1>2. route.kind \in {"openai", "messages"}
  BY DEF OpenAiUpstream
<1>3. ASSUME NEW e, UpOk(e.u), Brings(up, e), OpenAiBrings(up, e) PROVE Tells(up, e)
  BY <1>2, <1>3 DEF Tells, ClaudeSide
<1>4. ASSUME NEW t \in {"hello", "finish", "usage", "done"}, NEW u, Quiet(u), Sends(t, "", u),
             u.tok = IF t = "usage" THEN {"in", "out"} ELSE up.tok
      PROVE  StreamInv'
  <2>1. PICK e : e = Told(t, "", u)
    OBVIOUS
  <2>2. e.t = t /\ e.u = u
    BY <2>1 DEF Told
  <2>3. UpOk(e.u) /\ Brings(up, e)
    BY <1>1, <1>4, <2>2, QuietBrings DEF Completes
  <2>4. OpenAiBrings(up, e)
    BY <1>4, <2>2 DEF OpenAiBrings
  <2> QED
    BY <1>3, <1>4, <2>1, <2>3, <2>4, SendsKeeps
<1>5. ASSUME NEW k \in {"reason", "text", "wide", "tool"}, Sends(k, k, Grown(k))
      PROVE  StreamInv'
  <2>1. PICK e : e = Told(k, k, Grown(k))
    OBVIOUS
  <2>2. e.t = k /\ e.u = Grown(k)
    BY <2>1 DEF Told
  <2>3. DOMAIN Grown(k) = UpFields /\ Grown(k).tok = up.tok
    BY <1>1, GrownIs
  <2>4. AddsItem(e.u, k)
    <3>1. PICK u, j : u = Grown(k) /\ j = k
      OBVIOUS
    <3>2. j \in Kinds /\ DOMAIN u = UpFields /\ u.n = Grown(j).n /\ u.items = Grown(j).items
      BY <2>3, <3>1 DEF Kinds
    <3>3. AddsItem(u, j)
      BY <1>1, <3>2, GrownAdds
    <3> QED
      BY <2>2, <3>1, <3>3
  <2>5. Completes(up, e) /\ (k = "tool" <=> e.t \in {"tool", "content_block_stop"})
    BY <2>2 DEF Completes
  <2>6. UpOk(e.u) /\ Brings(up, e)
    BY <1>1, <2>4, <2>5, AddsBrings DEF AddsItem
  <2>7. OpenAiBrings(up, e)
    BY <2>2, <2>3 DEF OpenAiBrings
  <2> QED
    BY <1>3, <1>5, <2>1, <2>6, <2>7, SendsKeeps
<1>6. CASE Sends("hello", "", [up EXCEPT !.st = "body"])
  <2>1. PICK u : u = [up EXCEPT !.st = "body"]
    OBVIOUS
  <2>2. Quiet(u) /\ u.tok = up.tok
    BY <1>1, <2>1 DEF Quiet, UpFields
  <2> QED
    BY <1>4, <1>6, <2>1, <2>2
<1>7. CASE Sends("finish", "", [up EXCEPT !.st = "fin"])
  <2>1. PICK u : u = [up EXCEPT !.st = "fin"]
    OBVIOUS
  <2>2. Quiet(u) /\ u.tok = up.tok
    BY <1>1, <2>1 DEF Quiet, UpFields
  <2> QED
    BY <1>4, <1>7, <2>1, <2>2
<1>8. CASE Sends("usage", "", [up EXCEPT !.st = "used", !.tok = {"in", "out"}])
  <2>1. PICK u : u = [up EXCEPT !.st = "used", !.tok = {"in", "out"}]
    OBVIOUS
  <2>2. Quiet(u) /\ u.tok = {"in", "out"}
    BY <1>1, <2>1 DEF Quiet, UpFields
  <2> QED
    BY <1>4, <1>8, <2>1, <2>2
<1>9. CASE Sends("done", "", [up EXCEPT !.st = "end"])
  <2>1. PICK u : u = [up EXCEPT !.st = "end"]
    OBVIOUS
  <2>2. Quiet(u) /\ u.tok = up.tok
    BY <1>1, <2>1 DEF Quiet, UpFields
  <2> QED
    BY <1>4, <1>9, <2>1, <2>2
<1> QED
  BY <1>5, <1>6, <1>7, <1>8, <1>9 DEF OpenAiUpstream

LEMMA ResponsesKeeps == ASSUME StreamInv, ResponsesUpstream PROVE StreamInv'
<1>1. UpOk(up) /\ DOMAIN up = UpFields
  BY DEF StreamInv, Shapes, UpOk
<1>2. route.kind = "responses"
  BY DEF ResponsesUpstream
<1>3. ASSUME NEW e, UpOk(e.u), Brings(up, e), ResponsesBrings(up, e) PROVE Tells(up, e)
  BY <1>2, <1>3 DEF Tells, ClaudeSide
<1>4. CASE Sends("hello", "", [up EXCEPT !.st = "body"])
  <2>1. PICK u : u = [up EXCEPT !.st = "body"]
    OBVIOUS
  <2>2. Quiet(u) /\ u.tok = up.tok
    BY <1>1, <2>1 DEF Quiet, UpFields
  <2>3. PICK e : e = Told("hello", "", u)
    OBVIOUS
  <2>4. e.t = "hello" /\ e.u = u
    BY <2>3 DEF Told
  <2>5. UpOk(e.u) /\ Brings(up, e)
    BY <1>1, <2>2, <2>4, QuietBrings DEF Completes
  <2>6. ResponsesBrings(up, e)
    BY <2>2, <2>4 DEF ResponsesBrings
  <2> QED
    BY <1>3, <1>4, <2>1, <2>3, <2>5, <2>6, SendsKeeps
<1>5. CASE Sends("output", "", Grown("text"))
  <2>1. PICK e : e = Told("output", "", Grown("text"))
    OBVIOUS
  <2>2. e.t = "output" /\ e.u = Grown("text")
    BY <2>1 DEF Told
  <2>3. DOMAIN Grown("text") = UpFields /\ Grown("text").tok = up.tok
    BY <1>1, GrownIs
  <2>4. AddsItem(e.u, "text")
    <3>1. PICK u, j : u = Grown("text") /\ j = "text"
      OBVIOUS
    <3>2. j \in Kinds /\ DOMAIN u = UpFields /\ u.n = Grown(j).n /\ u.items = Grown(j).items
      BY <2>3, <3>1 DEF Kinds
    <3>3. AddsItem(u, j)
      BY <1>1, <3>2, GrownAdds
    <3> QED
      BY <2>2, <3>1, <3>3
  <2>5. Completes(up, e) /\ ("text" = "tool" <=> e.t \in {"tool", "content_block_stop"})
    BY <2>2 DEF Completes
  <2>6. UpOk(e.u) /\ Brings(up, e)
    BY <1>1, <2>4, <2>5, AddsBrings DEF AddsItem
  <2>7. ResponsesBrings(up, e)
    BY <2>2, <2>3 DEF ResponsesBrings
  <2> QED
    BY <1>3, <1>5, <2>1, <2>6, <2>7, SendsKeeps
<1>6. CASE Sends("usage", "", [up EXCEPT !.st = "end", !.tok = {"in", "out"}])
  <2>1. PICK u : u = [up EXCEPT !.st = "end", !.tok = {"in", "out"}]
    OBVIOUS
  <2>2. Quiet(u) /\ u.tok = {"in", "out"}
    BY <1>1, <2>1 DEF Quiet, UpFields
  <2>3. PICK e : e = Told("usage", "", u)
    OBVIOUS
  <2>4. e.t = "usage" /\ e.u = u
    BY <2>3 DEF Told
  <2>5. UpOk(e.u) /\ Brings(up, e)
    BY <1>1, <2>2, <2>4, QuietBrings DEF Completes
  <2>6. ResponsesBrings(up, e)
    BY <2>2, <2>4 DEF ResponsesBrings
  <2> QED
    BY <1>3, <1>6, <2>1, <2>3, <2>5, <2>6, SendsKeeps
<1> QED
  BY <1>4, <1>5, <1>6 DEF ResponsesUpstream

LEMMA GeminiKeeps == ASSUME StreamInv, GeminiUpstream PROVE StreamInv'
<1>1. UpOk(up) /\ DOMAIN up = UpFields
  BY DEF StreamInv, Shapes, UpOk
<1>2. route.kind \in {"gemini", "genai"}
  BY DEF GeminiUpstream
<1>3. ASSUME NEW e, UpOk(e.u), Brings(up, e), e.t \in {"reason", "text", "tool", "finish"} PROVE Tells(up, e)
  BY <1>2, <1>3 DEF Tells, ClaudeSide
<1>4. ASSUME NEW k \in {"reason", "text", "tool"}, Sends(k, k, [Grown(k) EXCEPT !.st = "body", !.tok = {"in"}])
      PROVE  StreamInv'
  <2>1. PICK u : u = [Grown(k) EXCEPT !.st = "body", !.tok = {"in"}]
    OBVIOUS
  <2>2. DOMAIN Grown(k) = UpFields
    BY <1>1, GrownIs
  <2>3. DOMAIN u = UpFields /\ u.n = Grown(k).n /\ u.items = Grown(k).items
    BY <2>1, <2>2 DEF UpFields
  <2>4. AddsItem(u, k)
    <3>1. k \in Kinds
      BY DEF Kinds
    <3> QED
      BY <1>1, <2>3, <3>1, GrownAdds
  <2>5. PICK e : e = Told(k, k, u)
    OBVIOUS
  <2>6. e.t = k /\ e.u = u
    BY <2>5 DEF Told
  <2>7. Completes(up, e) /\ (k = "tool" <=> e.t \in {"tool", "content_block_stop"})
    BY <2>6 DEF Completes
  <2>8. UpOk(e.u) /\ Brings(up, e)
    BY <1>1, <2>4, <2>6, <2>7, AddsBrings DEF AddsItem
  <2> QED
    BY <1>3, <1>4, <2>1, <2>5, <2>6, <2>8, SendsKeeps
<1>5. CASE Sends("finish", "", [up EXCEPT !.st = "end", !.tok = {"in", "out"}])
  <2>1. PICK u : u = [up EXCEPT !.st = "end", !.tok = {"in", "out"}]
    OBVIOUS
  <2>2. Quiet(u)
    BY <1>1, <2>1 DEF Quiet, UpFields
  <2>3. PICK e : e = Told("finish", "", u)
    OBVIOUS
  <2>4. e.t = "finish" /\ e.u = u
    BY <2>3 DEF Told
  <2>5. UpOk(e.u) /\ Brings(up, e)
    BY <1>1, <2>2, <2>4, QuietBrings DEF Completes
  <2> QED
    BY <1>3, <1>5, <2>1, <2>3, <2>4, <2>5, SendsKeeps
<1> QED
  BY <1>4, <1>5 DEF GeminiUpstream

LEMMA ClaudeKeeps == ASSUME StreamInv, ClaudeUpstream PROVE StreamInv'
<1>1. UpOk(up) /\ DOMAIN up = UpFields
  BY DEF StreamInv, Shapes, UpOk
<1>2. TokOk(up) /\ route.kind \in ClaudeSide
  BY DEF ClaudeUpstream, StreamInv, Arrives
<1>3. ASSUME NEW e, UpOk(e.u), Brings(up, e), ClaudeBrings(up, e) PROVE Tells(up, e)
  BY <1>2, <1>3 DEF Tells, ClaudeSide
<1>4. ASSUME NEW t, NEW k, NEW u, NEW e, e = Told(t, k, u), Quiet(u), ~Completes(up, e), ClaudeBrings(up, e), Sends(t, k, u)
      PROVE  StreamInv'
  <2>1. e.u = u
    BY <1>4 DEF Told
  <2>2. UpOk(e.u) /\ Brings(up, e)
    BY <1>1, <1>4, <2>1, QuietBrings
  <2> QED
    BY <1>3, <1>4, <2>2, SendsKeeps
<1>5. ASSUME NEW t, NEW k, NEW u, NEW e, e = Told(t, k, u), NEW j \in Kinds, DOMAIN u = UpFields,
             u.n = Grown(j).n, u.items = Grown(j).items, Completes(up, e), j = "tool" <=> t \in {"tool", "content_block_stop"},
             ClaudeBrings(up, e), Sends(t, k, u)
      PROVE  StreamInv'
  <2>1. e.u = u /\ e.t = t
    BY <1>5 DEF Told
  <2>2. AddsItem(u, j)
    BY <1>1, <1>5, GrownAdds
  <2>3. UpOk(e.u) /\ Brings(up, e)
    BY <1>1, <1>5, <2>1, <2>2, AddsBrings DEF AddsItem
  <2> QED
    BY <1>3, <1>5, <2>3, SendsKeeps
<1>6. CASE up.st = "start" /\ Sends("message_start", "", [up EXCEPT !.st = "open", !.tok = {"in"}])
  <2>1. PICK u : u = [up EXCEPT !.st = "open", !.tok = {"in"}]
    OBVIOUS
  <2>2. Quiet(u) /\ u.tok = {"in"} /\ u.st = "open"
    BY <1>1, <2>1 DEF Quiet, UpFields
  <2>3. PICK e : e = Told("message_start", "", u)
    OBVIOUS
  <2>4. e.t = "message_start" /\ e.k = "" /\ e.u = u
    BY <2>3 DEF Told
  <2>5. ClaudeBrings(up, e)
    BY <1>2, <1>6, <2>2, <2>4 DEF ClaudeBrings, ClaudeLine, ClaudeEvents, ClaudeTok, TokOk, ToolBlocks
  <2> QED
    BY <1>4, <1>6, <2>1, <2>2, <2>3, <2>4, <2>5 DEF Completes
<1>7. ASSUME NEW k \in {"thinking", "text", "tool_use"}, up.st = "open",
             Sends("content_block_start", k, [up EXCEPT !.st = "block", !.blk = k, !.blocks = Append(@, k)])
      PROVE  StreamInv'
  <2>1. PICK u : u = [up EXCEPT !.st = "block", !.blk = k, !.blocks = Append(@, k)]
    OBVIOUS
  <2>2. Quiet(u) /\ u.tok = up.tok /\ u.st = "block" /\ u.blk = k
    BY <1>1, <2>1 DEF Quiet, UpFields
  <2>3. PICK e : e = Told("content_block_start", k, u)
    OBVIOUS
  <2>4. e.t = "content_block_start" /\ e.k = k /\ e.u = u
    BY <2>3 DEF Told
  <2>5. ClaudeBrings(up, e)
    BY <1>2, <1>7, <2>2, <2>4 DEF ClaudeBrings, ClaudeLine, ClaudeEvents, ClaudeTok, TokOk, ToolBlocks
  <2> QED
    BY <1>4, <1>7, <2>1, <2>2, <2>3, <2>4, <2>5 DEF Completes
<1>8. CASE up.st = "open" /\ Sends("content_block_start", "redacted_thinking", [Grown("reason") EXCEPT !.st = "block", !.blk = "redacted", !.blocks = Append(@, "thinking")])
  <2>1. PICK u : u = [Grown("reason") EXCEPT !.st = "block", !.blk = "redacted", !.blocks = Append(@, "thinking")]
    OBVIOUS
  <2>2. PICK g : g = Grown("reason")
    OBVIOUS
  <2>3. DOMAIN g = UpFields /\ g.tok = up.tok /\ g.st = up.st /\ g.blk = up.blk
    BY <1>1, <2>2, GrownIs
  <2>4. u = [g EXCEPT !.st = "block", !.blk = "redacted", !.blocks = Append(@, "thinking")]
    BY <2>1, <2>2
  <2>5. DOMAIN u = UpFields /\ u.n = g.n /\ u.items = g.items /\ u.tok = up.tok /\ u.st = "block" /\ u.blk = "redacted"
    BY <2>3, <2>4 DEF UpFields
  <2>6. PICK e : e = Told("content_block_start", "redacted_thinking", u)
    OBVIOUS
  <2>7. e.t = "content_block_start" /\ e.k = "redacted_thinking" /\ e.u = u
    BY <2>6 DEF Told
  <2>8. ClaudeBrings(up, e)
    BY <1>2, <1>8, <2>5, <2>7 DEF ClaudeBrings, ClaudeLine, ClaudeEvents, ClaudeTok, TokOk, ToolBlocks
  <2>9. Completes(up, e)
    BY <1>8, <2>7 DEF Completes, ToolBlocks
  <2>10. "reason" \in Kinds
    BY DEF Kinds
  <2>11. PICK t, k, j : t = "content_block_start" /\ k = "redacted_thinking" /\ j = "reason"
    OBVIOUS
  <2>12. e = Told(t, k, u) /\ Sends(t, k, u) /\ j \in Kinds /\ u.n = Grown(j).n /\ u.items = Grown(j).items
    BY <1>8, <2>1, <2>2, <2>5, <2>6, <2>10, <2>11
  <2>13. j = "tool" <=> t \in {"tool", "content_block_stop"}
    BY <2>11
  <2> QED
    BY <1>5, <2>5, <2>8, <2>9, <2>12, <2>13
<1>9. CASE up.st = "block" /\ Sends("content_block_delta", "thinking_delta", Grown("reason"))
  <2>1. PICK u : u = Grown("reason")
    OBVIOUS
  <2>2. PICK g : g = Grown("reason")
    OBVIOUS
  <2>3. DOMAIN g = UpFields /\ g.tok = up.tok /\ g.st = up.st /\ g.blk = up.blk
    BY <1>1, <2>2, GrownIs
  <2>4. u = g
    BY <2>1, <2>2
  <2>5. DOMAIN u = UpFields /\ u.n = g.n /\ u.items = g.items /\ u.tok = up.tok /\ u.st = up.st /\ u.blk = up.blk
    BY <2>3, <2>4 DEF UpFields
  <2>6. PICK e : e = Told("content_block_delta", "thinking_delta", u)
    OBVIOUS
  <2>7. e.t = "content_block_delta" /\ e.k = "thinking_delta" /\ e.u = u
    BY <2>6 DEF Told
  <2>8. ClaudeBrings(up, e)
    BY <1>2, <1>9, <2>5, <2>7 DEF ClaudeBrings, ClaudeLine, ClaudeEvents, ClaudeTok, TokOk, ToolBlocks
  <2>9. Completes(up, e)
    BY <1>9, <2>7 DEF Completes, ToolBlocks
  <2>10. "reason" \in Kinds
    BY DEF Kinds
  <2>11. PICK t, k, j : t = "content_block_delta" /\ k = "thinking_delta" /\ j = "reason"
    OBVIOUS
  <2>12. e = Told(t, k, u) /\ Sends(t, k, u) /\ j \in Kinds /\ u.n = Grown(j).n /\ u.items = Grown(j).items
    BY <1>9, <2>1, <2>2, <2>5, <2>6, <2>10, <2>11
  <2>13. j = "tool" <=> t \in {"tool", "content_block_stop"}
    BY <2>11
  <2> QED
    BY <1>5, <2>5, <2>8, <2>9, <2>12, <2>13
<1>10. CASE up.st = "block" /\ Sends("content_block_delta", "text_delta", Grown("text"))
  <2>1. PICK u : u = Grown("text")
    OBVIOUS
  <2>2. PICK g : g = Grown("text")
    OBVIOUS
  <2>3. DOMAIN g = UpFields /\ g.tok = up.tok /\ g.st = up.st /\ g.blk = up.blk
    BY <1>1, <2>2, GrownIs
  <2>4. u = g
    BY <2>1, <2>2
  <2>5. DOMAIN u = UpFields /\ u.n = g.n /\ u.items = g.items /\ u.tok = up.tok /\ u.st = up.st /\ u.blk = up.blk
    BY <2>3, <2>4 DEF UpFields
  <2>6. PICK e : e = Told("content_block_delta", "text_delta", u)
    OBVIOUS
  <2>7. e.t = "content_block_delta" /\ e.k = "text_delta" /\ e.u = u
    BY <2>6 DEF Told
  <2>8. ClaudeBrings(up, e)
    BY <1>2, <1>10, <2>5, <2>7 DEF ClaudeBrings, ClaudeLine, ClaudeEvents, ClaudeTok, TokOk, ToolBlocks
  <2>9. Completes(up, e)
    BY <1>10, <2>7 DEF Completes, ToolBlocks
  <2>10. "text" \in Kinds
    BY DEF Kinds
  <2>11. PICK t, k, j : t = "content_block_delta" /\ k = "text_delta" /\ j = "text"
    OBVIOUS
  <2>12. e = Told(t, k, u) /\ Sends(t, k, u) /\ j \in Kinds /\ u.n = Grown(j).n /\ u.items = Grown(j).items
    BY <1>10, <2>1, <2>2, <2>5, <2>6, <2>10, <2>11
  <2>13. j = "tool" <=> t \in {"tool", "content_block_stop"}
    BY <2>11
  <2> QED
    BY <1>5, <2>5, <2>8, <2>9, <2>12, <2>13
<1>11. CASE up.st = "block" /\ up.blk = "tool_use" /\ Sends("content_block_delta", "input_json_delta", [up EXCEPT !.blk = "tool_args"])
  <2>1. PICK u : u = [up EXCEPT !.blk = "tool_args"]
    OBVIOUS
  <2>2. Quiet(u) /\ u.tok = up.tok /\ u.st = up.st /\ u.blk = "tool_args"
    BY <1>1, <2>1 DEF Quiet, UpFields
  <2>3. PICK e : e = Told("content_block_delta", "input_json_delta", u)
    OBVIOUS
  <2>4. e.t = "content_block_delta" /\ e.k = "input_json_delta" /\ e.u = u
    BY <2>3 DEF Told
  <2>5. ClaudeBrings(up, e)
    BY <1>2, <1>11, <2>2, <2>4 DEF ClaudeBrings, ClaudeLine, ClaudeEvents, ClaudeTok, TokOk, ToolBlocks
  <2> QED
    BY <1>4, <1>11, <2>1, <2>2, <2>3, <2>4, <2>5 DEF Completes
<1>12. CASE up.st = "block" /\ up.blk = "thinking" /\ Sends("content_block_delta", "signature_delta", [up EXCEPT !.blk = "signed"])
  <2>1. PICK u : u = [up EXCEPT !.blk = "signed"]
    OBVIOUS
  <2>2. Quiet(u) /\ u.tok = up.tok /\ u.st = up.st /\ u.blk = "signed"
    BY <1>1, <2>1 DEF Quiet, UpFields
  <2>3. PICK e : e = Told("content_block_delta", "signature_delta", u)
    OBVIOUS
  <2>4. e.t = "content_block_delta" /\ e.k = "signature_delta" /\ e.u = u
    BY <2>3 DEF Told
  <2>5. ClaudeBrings(up, e)
    BY <1>2, <1>12, <2>2, <2>4 DEF ClaudeBrings, ClaudeLine, ClaudeEvents, ClaudeTok, TokOk, ToolBlocks
  <2> QED
    BY <1>4, <1>12, <2>1, <2>2, <2>3, <2>4, <2>5 DEF Completes
<1>13. CASE up.st = "block" /\ up.blk \in {"thinking", "signed", "text", "redacted"} /\ Sends("content_block_stop", "", [up EXCEPT !.st = "open"])
  <2>1. PICK u : u = [up EXCEPT !.st = "open"]
    OBVIOUS
  <2>2. Quiet(u) /\ u.tok = up.tok /\ u.st = "open"
    BY <1>1, <2>1 DEF Quiet, UpFields
  <2>3. PICK e : e = Told("content_block_stop", "", u)
    OBVIOUS
  <2>4. e.t = "content_block_stop" /\ e.k = "" /\ e.u = u
    BY <2>3 DEF Told
  <2>5. ClaudeBrings(up, e)
    BY <1>2, <1>13, <2>2, <2>4 DEF ClaudeBrings, ClaudeLine, ClaudeEvents, ClaudeTok, TokOk, ToolBlocks
  <2> QED
    BY <1>4, <1>13, <2>1, <2>2, <2>3, <2>4, <2>5 DEF Completes, ToolBlocks
<1>14. CASE up.st = "block" /\ up.blk \in {"tool_use", "tool_args"} /\ Sends("content_block_stop", "", [Grown("tool") EXCEPT !.st = "open"])
  <2>1. PICK u : u = [Grown("tool") EXCEPT !.st = "open"]
    OBVIOUS
  <2>2. PICK g : g = Grown("tool")
    OBVIOUS
  <2>3. DOMAIN g = UpFields /\ g.tok = up.tok /\ g.st = up.st /\ g.blk = up.blk
    BY <1>1, <2>2, GrownIs
  <2>4. u = [g EXCEPT !.st = "open"]
    BY <2>1, <2>2
  <2>5. DOMAIN u = UpFields /\ u.n = g.n /\ u.items = g.items /\ u.tok = up.tok /\ u.st = "open"
    BY <2>3, <2>4 DEF UpFields
  <2>6. PICK e : e = Told("content_block_stop", "", u)
    OBVIOUS
  <2>7. e.t = "content_block_stop" /\ e.k = "" /\ e.u = u
    BY <2>6 DEF Told
  <2>8. ClaudeBrings(up, e)
    BY <1>2, <1>14, <2>5, <2>7 DEF ClaudeBrings, ClaudeLine, ClaudeEvents, ClaudeTok, TokOk, ToolBlocks
  <2>9. Completes(up, e)
    BY <1>14, <2>7 DEF Completes, ToolBlocks
  <2>10. "tool" \in Kinds
    BY DEF Kinds
  <2>11. PICK t, k, j : t = "content_block_stop" /\ k = "" /\ j = "tool"
    OBVIOUS
  <2>12. e = Told(t, k, u) /\ Sends(t, k, u) /\ j \in Kinds /\ u.n = Grown(j).n /\ u.items = Grown(j).items
    BY <1>14, <2>1, <2>2, <2>5, <2>6, <2>10, <2>11
  <2>13. j = "tool" <=> t \in {"tool", "content_block_stop"}
    BY <2>11
  <2> QED
    BY <1>5, <2>5, <2>8, <2>9, <2>12, <2>13
<1>15. CASE up.st = "open" /\ Sends("message_delta", "", [up EXCEPT !.st = "fin", !.tok = {"in", "out"}])
  <2>1. PICK u : u = [up EXCEPT !.st = "fin", !.tok = {"in", "out"}]
    OBVIOUS
  <2>2. Quiet(u) /\ u.tok = {"in", "out"} /\ u.st = "fin"
    BY <1>1, <2>1 DEF Quiet, UpFields
  <2>3. PICK e : e = Told("message_delta", "", u)
    OBVIOUS
  <2>4. e.t = "message_delta" /\ e.k = "" /\ e.u = u
    BY <2>3 DEF Told
  <2>5. ClaudeBrings(up, e)
    BY <1>2, <1>15, <2>2, <2>4 DEF ClaudeBrings, ClaudeLine, ClaudeEvents, ClaudeTok, TokOk, ToolBlocks
  <2> QED
    BY <1>4, <1>15, <2>1, <2>2, <2>3, <2>4, <2>5 DEF Completes
<1>16. CASE Sends("message_stop", "", [up EXCEPT !.st = "end"])
  <2>1. PICK u : u = [up EXCEPT !.st = "end"]
    OBVIOUS
  <2>2. Quiet(u) /\ u.tok = up.tok /\ u.st = "end"
    BY <1>1, <2>1 DEF Quiet, UpFields
  <2>3. PICK e : e = Told("message_stop", "", u)
    OBVIOUS
  <2>4. e.t = "message_stop" /\ e.k = "" /\ e.u = u
    BY <2>3 DEF Told
  <2>5. ClaudeBrings(up, e)
    BY <1>2, <1>16, <2>2, <2>4 DEF ClaudeBrings, ClaudeLine, ClaudeEvents, ClaudeTok, TokOk, ToolBlocks
  <2> QED
    BY <1>4, <1>16, <2>1, <2>2, <2>3, <2>4, <2>5 DEF Completes
<1>17. CASE Sends("error", "", [up EXCEPT !.st = "end", !.failed = TRUE])
  <2>1. PICK u : u = [up EXCEPT !.st = "end", !.failed = TRUE]
    OBVIOUS
  <2>2. Quiet(u) /\ u.tok = up.tok /\ u.st = "end"
    BY <1>1, <2>1 DEF Quiet, UpFields
  <2>3. PICK e : e = Told("error", "", u)
    OBVIOUS
  <2>4. e.t = "error" /\ e.k = "" /\ e.u = u
    BY <2>3 DEF Told
  <2>5. ClaudeBrings(up, e)
    BY <1>2, <1>17, <2>2, <2>4 DEF ClaudeBrings, ClaudeLine, ClaudeEvents, ClaudeTok, TokOk, ToolBlocks
  <2> QED
    BY <1>4, <1>17, <2>1, <2>2, <2>3, <2>4, <2>5 DEF Completes
<1> QED
  BY <1>6, <1>7, <1>8, <1>9, <1>10, <1>11, <1>12, <1>13, <1>14, <1>15, <1>16, <1>17 DEF ClaudeUpstream

-----------------------------------------------------------------------------
(* The chunks' steps                                                         *)

LEMMA FedIs == ASSUME NEW c, Bridge(c) PROVE Bridge(Fed(c)) /\ Puts(Fed(c), c, <<>>) /\ Fed(c).out = c.out
<1>1. Puts(Fed(c), c, <<>>)
  BY FedPut
<1>2. Bridge(Fed(c))
  BY <1>1, PutBridge
<1>3. Fed(c).out = c.out
  BY DEF Fed, Bridge, Fields
<1> QED
  BY <1>1, <1>2, <1>3

LEMMA FeedPartKeeps == ASSUME StreamInv, FeedPart PROVE StreamInv'
<1>0. /\ call.pc = "reading" /\ line.l \in {"event", "data"} /\ b' = Fed(b)
      /\ route' = route /\ up' = up /\ acc' = acc /\ call' = call /\ cached' = cached /\ replayed' = replayed
      /\ seen' = [seen EXCEPT !.parts = @ + 1]
  BY DEF FeedPart
<1>1. PICK k \in 1 .. line.size - line.sent :
         /\ line' = [line EXCEPT !.sent = @ + k]
         /\ buf' = IF buf.len + k < LineCap - 1
                   THEN [buf EXCEPT !.len = @ + k, !.head = IF buf.len = 0 /\ buf.clean THEN line.l ELSE @]
                   ELSE [Empty EXCEPT !.clean = FALSE]
  BY DEF FeedPart
<1>2. Shapes
  BY DEF StreamInv
<1>3. LineCap \in Nat \ {0}
  BY StreamAssumption
<1>4. /\ DOMAIN line' = {"l", "t", "k", "size", "sent", "u"} /\ line'.l = line.l /\ line'.t = line.t /\ line'.k = line.k
      /\ line'.u = line.u /\ line'.size = line.size /\ line'.sent = line.sent + k
  BY <1>1, <1>2 DEF Shapes
<1>5. k \in Nat /\ line.sent \in Nat /\ line.size \in Nat /\ line.sent + k \in 0 .. line.size
  BY <1>1, <1>2 DEF Shapes
<1>6. DOMAIN seen' = {"long", "parts"} /\ seen'.long = seen.long
  BY <1>0, <1>2 DEF Shapes
<1>7. Bridge(b) /\ Bridge(b') /\ Puts(b', b, <<>>) /\ b'.out = b.out
  BY <1>0, <1>2, FedIs DEF Shapes
<1>8. DOMAIN buf' = {"len", "clean", "head"} /\ buf'.len \in Nat
  <2>1. CASE buf.len + k < LineCap - 1
    BY <1>1, <1>2, <1>5, <2>1 DEF Shapes
  <2>2. CASE ~(buf.len + k < LineCap - 1)
    BY <1>1, <2>2 DEF Empty
  <2> QED
    BY <2>1, <2>2
<1>9. Shapes'
  BY <1>0, <1>2, <1>4, <1>5, <1>6, <1>7, <1>8 DEF Shapes
<1>10. Arrives'
  <2>1. Tells(up, line)
    BY <1>0 DEF StreamInv, Arrives
  <2>2. Tells(up, line')
    BY <1>4, <2>1, SameTold
  <2>3. Tells(up, line)'
    BY <1>0, <2>2, SameRoute
  <2> QED
    BY <1>0, <2>3 DEF StreamInv, Arrives
<1>11. Caught'
  <2> SUFFICES ASSUME Heard' PROVE Buffered' /\ Followed(b, up)'
    BY DEF Caught
  <2>1. Heard
    BY <1>0, <1>6 DEF Heard, Regular
  <2>2. Buffered /\ Followed(b, up)
    BY <2>1 DEF StreamInv, Caught
  <2>3. buf.clean /\ buf.len = line.sent /\ line.size < LineCap - 1
    BY <1>0, <2>2 DEF Buffered
  <2>4. buf.len + k < LineCap - 1
    BY <1>3, <1>5, <2>3
  <2>5. buf'.clean = buf.clean /\ buf'.len = line'.sent
    BY <1>1, <1>2, <1>4, <2>3, <2>4 DEF Shapes
  <2>6. b'.event = b.event
    BY <1>7 DEF Puts
  <2>7. Buffered'
    BY <1>0, <1>4, <2>2, <2>3, <2>5, <2>6 DEF Buffered
  <2>8. Followed(b', up)
    BY <1>7, <2>2, PutFollowed
  <2> QED
    BY <1>0, <2>7, <2>8, SameRoute
<1>12. AccHolds' /\ CacheHoldsAnswer'
  BY <1>0, <1>7 DEF StreamInv, AccHolds, CacheHoldsAnswer
<1> QED
  BY <1>9, <1>10, <1>11, <1>12 DEF StreamInv

\* The line that follows one.
LEMMA FollowingIs ==
    ASSUME Shapes, line.l # "none"
    PROVE  LET f == Following(line)
           IN  \/ /\ line.l = "event" /\ f.l = "data" /\ f.t = line.t /\ f.k = line.k /\ f.u = line.u
                  /\ f.size = line.size /\ f.sent = 0 /\ DOMAIN f = {"l", "t", "k", "size", "sent", "u"}
               \/ line.l = "data" /\ route.kind \in Evented /\ f = Blank
               \/ line.l \in {"data", "blank"} /\ f = NoLine
  BY DEF Shapes, Following

LEMMA NoLines ==
    /\ NoLine.l = "none" /\ NoLine.size = 0 /\ NoLine.sent = 0 /\ DOMAIN NoLine = {"l", "t", "k", "size", "sent", "u"}
    /\ Blank.l = "blank" /\ Blank.size = 0 /\ Blank.sent = 0 /\ DOMAIN Blank = {"l", "t", "k", "size", "sent", "u"}
  BY DEF NoLine, Blank

LEMMA FeedEndGrows ==
    ASSUME StreamInv, FeedEnd
    PROVE  (\E ns : Grows(b', b, ns)) /\ acc' = Accumulated(b')
<1> DEFINE c == Fed(b)
           rest == line.size - line.sent
<1>1. b' = IF c.aborted \/ buf.len + rest >= LineCap THEN c
           ELSE IF buf.clean THEN ProcessLine(c, line)
           ELSE IF buf.len + rest = 0 THEN ProcessLine(c, Blank)
           ELSE IF buf.head = "event" THEN [c EXCEPT !.event = "?"] ELSE c
  BY DEF FeedEnd
<1>2. acc' = Accumulated(b') /\ line.l # "none"
  BY DEF FeedEnd
<1>3. Bridge(b) /\ route \in Routes
  BY DEF StreamInv, Shapes
<1>4. Bridge(c) /\ Puts(c, b, <<>>)
  BY <1>3, FedIs
<1> HIDE DEF c, rest
<1>5. LineOk(line) /\ LineOk(Blank)
  BY <1>2, NoLines DEF LineOk, StreamInv, Shapes, Arrives, Tells, ClaudeBrings
<1>6. /\ \E ns : Grows(ProcessLine(c, line), c, ns)
      /\ \E ns : Grows(ProcessLine(c, Blank), c, ns)
  BY <1>3, <1>4, <1>5, LineGrows
<1>7. (\E ns : Grows(c, c, ns)) /\ (\E ns : Grows([c EXCEPT !.event = "?"], c, ns))
  BY <1>4, SamePut, EventSet DEF Puts
<1>8. \E ns : Grows(b', c, ns)
  <2>1. b' = c \/ b' = ProcessLine(c, line) \/ b' = ProcessLine(c, Blank) \/ b' = [c EXCEPT !.event = "?"]
    BY <1>1
  <2>2. CASE b' = c
    BY <1>7, <2>2
  <2>3. CASE b' = ProcessLine(c, line)
    BY <1>6, <2>3
  <2>4. CASE b' = ProcessLine(c, Blank)
    BY <1>6, <2>4
  <2>5. CASE b' = [c EXCEPT !.event = "?"]
    BY <1>7, <2>5
  <2> QED
    BY <2>1, <2>2, <2>3, <2>4, <2>5
<1>9. PICK ns : Grows(b', c, ns)
  BY <1>8
<1>10. Grows(b', b, ns)
  <2>1. PICK d : d = b'
    OBVIOUS
  <2>2. Grows(d, c, ns)
    BY <1>9, <2>1
  <2>3. Grows(d, b, ns)
    BY <1>3, <1>4, <2>2, PutsOn
  <2> QED
    BY <2>1, <2>3
<1> QED
  BY <1>2, <1>10

LEMMA FeedEndFollows ==
    ASSUME StreamInv, FeedEnd, Heard
    PROVE  /\ Followed(b', up')
           /\ line.l = "event" /\ route.kind \in ClaudeSide => b'.event = line.t
           /\ line.l = "event" => line.size < LineCap - 1
<1> DEFINE c == Fed(b)
<1>1. Bridge(b) /\ route \in Routes /\ UpOk(up) /\ line.l \in {"event", "data", "blank"}
  BY DEF StreamInv, Shapes, FeedEnd
<1>2. Buffered /\ Followed(b, up)
  BY DEF StreamInv, Caught
<1>3. LineCap \in Nat \ {0} /\ line.size \in Nat /\ line.sent \in 0 .. line.size /\ buf.len \in Nat
  BY StreamAssumption DEF StreamInv, Shapes
<1>4. buf.clean /\ ~(buf.len + (line.size - line.sent) >= LineCap)
  <2>1. CASE line.l \in {"event", "data"}
    BY <1>2, <1>3, <2>1 DEF Buffered
  <2>2. CASE line.l = "blank"
    <3>1. buf = Empty /\ line = Blank
      BY <1>2, <2>2 DEF Buffered, StreamInv, Shapes
    <3>2. buf.clean /\ buf.len = 0 /\ line.size = 0 /\ line.sent = 0
      BY <3>1, NoLines DEF Empty
    <3> QED
      BY <1>3, <3>2
  <2> QED
    BY <1>1, <2>1, <2>2
<1>5. ~c.aborted
  <2>1. ~b.aborted
    BY DEF FeedEnd
  <2>2. ~(call.gone /\ route.kind \in Native)
    BY DEF Heard
  <2> QED
    BY <1>1, <2>1, <2>2 DEF Fed, Bridge, Fields
<1>6. b' = ProcessLine(c, line)
  BY <1>4, <1>5 DEF FeedEnd
<1>7. Bridge(c) /\ Puts(c, b, <<>>)
  BY <1>1, FedIs
<1> HIDE DEF c
<1>8. Followed(c, up) /\ c.event = b.event
  BY <1>1, <1>2, <1>7, PutFollowed DEF Puts
<1>9. CASE line.l = "data"
  <2>1. up' = line.u
    BY <1>9 DEF FeedEnd
  <2>2. Tells(up, line)
    BY <1>9 DEF StreamInv, Arrives
  <2>3. route.kind \in ClaudeSide => c.event = line.t
    BY <1>2, <1>8, <1>9 DEF Buffered
  <2>4. Followed(ProcessLine(c, line), line.u)
    BY <1>1, <1>7, <1>8, <1>9, <2>2, <2>3, DataFollowed
  <2> QED
    BY <1>6, <1>9, <2>1, <2>4
<1>10. CASE line.l # "data"
  <2>1. up' = up
    BY <1>10 DEF FeedEnd
  <2>2. /\ Followed(ProcessLine(c, line), up)
        /\ route.kind \in ClaudeSide /\ line.l = "event" => ProcessLine(c, line).event = line.t
    <3>1. line.l \in {"event", "blank"}
      BY <1>1, <1>10
    <3> QED
      BY <1>1, <1>7, <1>8, <3>1, PlainFollowed
  <2>3. line.l = "event" => line.size < LineCap - 1
    BY <1>2 DEF Buffered
  <2> QED
    BY <1>6, <2>1, <2>2, <2>3
<1> QED
  BY <1>9, <1>10

LEMMA FeedEndKeeps == ASSUME StreamInv, FeedEnd PROVE StreamInv'
<1>0. /\ call.pc = "reading" /\ line.l # "none" /\ buf' = Empty /\ up' = (IF line.l = "data" THEN line.u ELSE up)
      /\ line' = Following(line)
      /\ route' = route /\ call' = call /\ cached' = cached /\ replayed' = replayed /\ seen' = seen
  BY DEF FeedEnd, AfterLine
<1>1. Shapes
  BY DEF StreamInv
<1>2. PICK ns : Grows(b', b, ns)
  BY FeedEndGrows
<1>3. Bridge(b) /\ Bridge(b')
  <2>1. PICK d : d = b'
    OBVIOUS
  <2>2. Bridge(b) /\ Grows(d, b, ns)
    BY <1>1, <1>2, <2>1 DEF Shapes
  <2>3. Bridge(d)
    BY <2>2, GrowsBridge
  <2> QED
    BY <2>1, <2>2, <2>3
<1>4. route.kind \in Accumulating => HoldsTexts(acc', b'.out)
  <2> SUFFICES ASSUME route.kind \in Accumulating PROVE HoldsTexts(acc', b'.out)
    OBVIOUS
  <2>1. HoldsTexts(acc, b.out)
    BY <1>0, <1>1, AccKept DEF StreamInv
  <2>2. PICK d : d = b'
    OBVIOUS
  <2>3. Grows(d, b, ns)
    BY <1>2, <2>2
  <2>4. HoldsTexts(Accumulated(d), d.out)
    BY <1>3, <2>1, <2>3, AccumulatedHolds
  <2> QED
    BY <2>2, <2>4, FeedEndGrows
<1>5. route.kind \notin Accumulating => acc' = acc
  BY FeedEndGrows DEF Accumulated, Accumulating
<1>6. \/ /\ line.l = "event" /\ line'.l = "data" /\ line'.t = line.t /\ line'.k = line.k /\ line'.u = line.u
         /\ line'.size = line.size /\ line'.sent = 0 /\ DOMAIN line' = {"l", "t", "k", "size", "sent", "u"}
      \/ line.l = "data" /\ line' = Blank
      \/ line.l \in {"data", "blank"} /\ line' = NoLine
  BY <1>0, <1>1, FollowingIs
<1>7. Shapes'
  <2>1. DOMAIN acc' = {"texts", "overflow"} /\ IsSeq(acc'.texts) /\ acc'.overflow \in BOOLEAN
    BY <1>1, <1>4, <1>5 DEF Shapes, HoldsTexts
  <2>2. UpOk(up') /\ UpOk(line'.u)
    BY <1>0, <1>1, <1>6, FreshStream DEF Shapes
  <2>3. /\ DOMAIN line' = {"l", "t", "k", "size", "sent", "u"} /\ line'.l \in {"none", "event", "data", "blank"}
        /\ line'.size \in Nat /\ line'.sent \in 0 .. line'.size
        /\ line'.l = "none" => line' = NoLine
        /\ line'.l = "blank" => line' = Blank
    BY <1>1, <1>6, NoLines DEF Shapes
  <2>4. DOMAIN buf' = {"len", "clean", "head"} /\ buf'.len \in Nat
    BY <1>0 DEF Empty
  <2> QED
    BY <1>0, <1>1, <1>3, <2>1, <2>2, <2>3, <2>4 DEF Shapes
<1>8. Arrives'
  <2>1. line.l \in {"event", "data"} => Tells(up, line)
    BY DEF StreamInv, Arrives
  <2>2. route.kind \in ClaudeSide => TokOk(up')
    BY <1>0, <2>1 DEF StreamInv, Arrives, Tells, ClaudeBrings
  <2>3. ASSUME line'.l \in {"event", "data"} PROVE Tells(up, line)'
    <3>1. line.l = "event" /\ line'.t = line.t /\ line'.k = line.k /\ line'.u = line.u
      BY <1>6, <2>3, NoLines
    <3>2. up' = up /\ Tells(up, line)
      BY <1>0, <2>1, <3>1
    <3>3. Tells(up, line')
      BY <3>1, <3>2, SameTold
    <3> QED
      BY <1>0, <3>2, <3>3, SameRoute
  <2> QED
    BY <1>0, <2>2, <2>3 DEF Arrives
<1>9. Caught'
  <2> SUFFICES ASSUME Heard' PROVE Buffered' /\ Followed(b, up)'
    BY DEF Caught
  <2>1. Heard
    BY <1>0 DEF Heard, Regular
  <2>2. /\ Followed(b', up')
        /\ line.l = "event" /\ route.kind \in ClaudeSide => b'.event = line.t
        /\ line.l = "event" => line.size < LineCap - 1
    BY <2>1, FeedEndFollows
  <2>3. Buffered'
    BY <1>0, <1>6, <2>2, NoLines DEF Buffered, Empty
  <2> QED
    BY <1>0, <2>2, <2>3, SameRoute
<1>10. AccHolds' /\ CacheHoldsAnswer'
  <2>1. cached = <<>> /\ replayed = <<>>
    BY <1>0 DEF StreamInv, AccHolds
  <2>2. CacheHoldsAnswer'
    BY <1>0, <2>1 DEF CacheHoldsAnswer
  <2>3. AccHolds'
    BY <1>0, <1>4, <1>5, <2>1 DEF StreamInv, AccHolds, HoldsTexts
  <2> QED
    BY <2>2, <2>3
<1> QED
  BY <1>7, <1>8, <1>9, <1>10 DEF StreamInv

-----------------------------------------------------------------------------
(* The handler's steps                                                       *)

LEMMA ClientLeavesKeeps == ASSUME StreamInv, ClientLeaves PROVE StreamInv'
<1>0. /\ call' = [call EXCEPT !.gone = TRUE] /\ route' = route /\ up' = up /\ line' = line /\ buf' = buf /\ b' = b /\ acc' = acc
      /\ cached' = cached /\ replayed' = replayed /\ seen' = seen
  BY DEF ClientLeaves
<1>1. /\ DOMAIN call = {"pc", "attempt", "gone", "dirty", "late"} /\ DOMAIN call' = DOMAIN call /\ call'.pc = call.pc
      /\ call'.dirty = call.dirty /\ call'.gone
  BY <1>0 DEF StreamInv, Shapes
<1>2. Shapes'
  BY <1>0, <1>1 DEF StreamInv, Shapes
<1>3. Arrives'
  BY <1>0, SameRoute DEF StreamInv, Arrives
<1>4. Caught'
  <2>1. Heard' => Heard
    BY <1>0, <1>1 DEF Heard, Regular
  <2>2. Buffered => Buffered'
    BY <1>0 DEF Buffered
  <2> QED
    BY <1>0, <2>1, <2>2, SameRoute DEF StreamInv, Caught
<1>5. AccHolds' /\ CacheHoldsAnswer'
  BY <1>0, <1>1 DEF StreamInv, AccHolds, CacheHoldsAnswer
<1> QED
  BY <1>2, <1>3, <1>4, <1>5 DEF StreamInv

LEMMA AgainKeeps ==
    ASSUME StreamInv, call.pc = "reading", route' = route, up' = NewUp, line' = NoLine, cached' = cached,
           replayed' = replayed, seen' = seen, DOMAIN call' = DOMAIN call, call'.pc = call.pc,
           DOMAIN buf' = {"len", "clean", "head"}, buf'.len \in Nat,
           Bridge(b'), route.kind \in Accumulating => HoldsTexts(acc', b'.out), route.kind \notin Accumulating => acc' = NewAcc,
           ~call'.dirty => buf' = Empty /\ b' = bridge_new
    PROVE  StreamInv'
<1>1. Shapes'
  <2>1. DOMAIN acc' = {"texts", "overflow"} /\ IsSeq(acc'.texts) /\ acc'.overflow \in BOOLEAN
    BY FreshStream DEF HoldsTexts
  <2>2. UpOk(up') /\ UpOk(line'.u)
    BY FreshStream
  <2>3. /\ DOMAIN line' = {"l", "t", "k", "size", "sent", "u"} /\ line'.l = "none"
        /\ line'.size \in Nat /\ line'.sent \in 0 .. line'.size
    BY NoLines
  <2> QED
    BY <2>1, <2>2, <2>3 DEF StreamInv, Shapes
<1>2. Arrives'
  BY FreshStream, NoLines DEF Arrives
<1>3. Caught'
  <2> SUFFICES ASSUME Heard' PROVE Buffered' /\ Followed(b, up)'
    BY DEF Caught
  <2>1. buf' = Empty /\ b' = bridge_new
    BY DEF Heard, Regular
  <2>2. Buffered'
    BY <2>1, NoLines DEF Buffered
  <2>3. Followed(b', up')
    BY <2>1, FreshStream
  <2> QED
    BY <2>2, <2>3, SameRoute
<1>4. AccHolds' /\ CacheHoldsAnswer'
  <2>1. cached = <<>> /\ replayed = <<>>
    BY DEF StreamInv, AccHolds
  <2> QED
    BY <2>1 DEF AccHolds, CacheHoldsAnswer, HoldsTexts
<1> QED
  BY <1>1, <1>2, <1>3, <1>4 DEF StreamInv

LEMMA BeforeHeadersKeeps == ASSUME StreamInv, call.pc = "reading", NEW ok, BeforeHeaders(ok) PROVE StreamInv'
<1>0. route' = route /\ cached' = cached /\ replayed' = replayed /\ seen' = seen
  BY DEF BeforeHeaders
<1>1. /\ DOMAIN call = {"pc", "attempt", "gone", "dirty", "late"} /\ Bridge(b) /\ DOMAIN buf = {"len", "clean", "head"}
      /\ buf.len \in Nat
  BY DEF StreamInv, Shapes
<1>2. /\ route.kind \in Accumulating => HoldsTexts(acc, b.out)
      /\ route.kind \notin Accumulating => acc = NewAcc
  BY AccKept DEF StreamInv, AccHolds
<1>3. DOMAIN Empty = {"len", "clean", "head"} /\ Empty.len = 0
  BY DEF Empty
<1>4. CASE /\ call' = [call EXCEPT !.attempt = 2, !.dirty = buf # Empty \/ b # bridge_new]
           /\ buf' = IF buf.len > 0 THEN [buf EXCEPT !.clean = FALSE] ELSE Empty
           /\ up' = NewUp /\ line' = NoLine
           /\ UNCHANGED <<b, acc>>
  <2>1. PICK p : p = (buf # Empty \/ b # bridge_new)
    OBVIOUS
  <2>2. DOMAIN call' = DOMAIN call /\ call'.pc = call.pc /\ call'.dirty = p
    BY <1>1, <1>4, <2>1
  <2>3. ~call'.dirty => buf = Empty /\ b = bridge_new
    BY <2>1, <2>2
  <2>4. DOMAIN buf' = {"len", "clean", "head"} /\ buf'.len \in Nat
    BY <1>1, <1>3, <1>4
  <2>5. buf = Empty => buf' = Empty
    BY <1>3, <1>4
  <2> QED
    BY <1>0, <1>1, <1>2, <1>4, <2>2, <2>3, <2>4, <2>5, AgainKeeps
<1>5. CASE /\ call' = [call EXCEPT !.attempt = 2]
           /\ buf' = Empty /\ b' = bridge_new /\ acc' = NewAcc
           /\ up' = NewUp /\ line' = NoLine
  <2>1. DOMAIN call' = DOMAIN call /\ call'.pc = call.pc
    BY <1>1, <1>5
  <2>2. Bridge(b') /\ HoldsTexts(acc', b'.out)
    BY <1>5, FreshStream
  <2>3. DOMAIN buf' = {"len", "clean", "head"} /\ buf'.len \in Nat
    BY <1>3, <1>5
  <2> QED
    BY <1>0, <1>5, <2>1, <2>2, <2>3, AgainKeeps
<1>6. CASE /\ call' = [call EXCEPT !.pc = "failed"]
           /\ UNCHANGED <<up, line, buf, b, acc>>
  <2>1. DOMAIN call' = DOMAIN call /\ call'.pc = "failed" /\ call'.gone = call.gone /\ call'.dirty = call.dirty
    BY <1>1, <1>6
  <2>2. Shapes'
    BY <1>0, <1>6, <2>1 DEF StreamInv, Shapes
  <2>3. Arrives'
    BY <1>0, <1>6, SameRoute DEF StreamInv, Arrives
  <2>4. Caught'
    <3>1. Heard' => Heard
      BY <1>0, <2>1 DEF Heard, Regular
    <3>2. Buffered => Buffered'
      BY <1>0, <1>6 DEF Buffered
    <3> QED
      BY <1>0, <1>6, <3>1, <3>2, SameRoute DEF StreamInv, Caught
  <2>5. AccHolds' /\ CacheHoldsAnswer'
    <3>1. cached = <<>> /\ replayed = <<>>
      BY DEF StreamInv, AccHolds
    <3> QED
      BY <1>0, <1>2, <1>6, <2>1, <3>1 DEF AccHolds, CacheHoldsAnswer
  <2> QED
    BY <2>2, <2>3, <2>4, <2>5 DEF StreamInv
<1> QED
  BY <1>4, <1>5, <1>6 DEF BeforeHeaders

\* A stream is over: the bridge sent no more items, and nothing arrives any longer.
LEMMA OverKeeps ==
    ASSUME StreamInv, NEW d, Puts(d, b, <<>>), b' = d, route' = route, up' = up, line' = line, buf' = buf, seen' = seen,
           DOMAIN call' = DOMAIN call, call'.gone = call.gone, call'.dirty = call.dirty,
           DOMAIN acc' = {"texts", "overflow"}, IsSeq(acc'.texts), acc'.overflow \in BOOLEAN
    PROVE  Shapes' /\ Arrives' /\ Caught'
<1>1. Bridge(b) /\ Bridge(d)
  BY PutBridge DEF StreamInv, Shapes
<1>2. Shapes'
  BY <1>1 DEF StreamInv, Shapes
<1>3. Arrives'
  BY SameRoute DEF StreamInv, Arrives
<1>4. Caught'
  <2> SUFFICES ASSUME Heard' PROVE Buffered' /\ Followed(b, up)'
    BY DEF Caught
  <2>1. Heard
    BY DEF Heard, Regular
  <2>2. Buffered /\ Followed(b, up)
    BY <2>1 DEF StreamInv, Caught
  <2>3. d.event = b.event
    BY DEF Puts
  <2>4. Buffered'
    BY <2>2, <2>3 DEF Buffered
  <2>5. Followed(d, up)
    BY <1>1, <2>2, PutFollowed
  <2> QED
    BY <2>4, <2>5, SameRoute
<1> QED
  BY <1>2, <1>3, <1>4

LEMMA EndedKeeps ==
    ASSUME StreamInv, call.pc = "reading", NEW kinds, NEW c, Puts(c, b, <<>>), Ended(kinds, c)
    PROVE  StreamInv'
<1>0. /\ b' = c /\ acc' = Accumulated(c) /\ cached' = cache_store_stream(acc') /\ call' = [call EXCEPT !.pc = "ended"]
      /\ route' = route /\ up' = up /\ line' = line /\ buf' = buf /\ replayed' = replayed /\ seen' = seen
  BY DEF Ended
<1>1. Bridge(b) /\ DOMAIN call = {"pc", "attempt", "gone", "dirty", "late"}
  BY DEF StreamInv, Shapes
<1>2. DOMAIN call' = DOMAIN call /\ call'.pc = "ended" /\ call'.gone = call.gone /\ call'.dirty = call.dirty
  BY <1>0, <1>1
<1>3. route.kind \in Accumulating => HoldsTexts(acc', b'.out)
  <2> SUFFICES ASSUME route.kind \in Accumulating PROVE HoldsTexts(acc', b'.out)
    OBVIOUS
  <2>1. HoldsTexts(acc, b.out)
    BY AccKept DEF StreamInv
  <2>2. PICK ns : ns = <<>>
    OBVIOUS
  <2>3. Grows(c, b, ns)
    BY <2>2 DEF Puts
  <2>4. HoldsTexts(Accumulated(c), c.out)
    BY <1>1, <2>1, <2>3, AccumulatedHolds
  <2> QED
    BY <1>0, <2>4
<1>4. route.kind \notin Accumulating => acc' = NewAcc
  BY <1>0 DEF Accumulated, Accumulating, StreamInv, AccHolds
<1>5. DOMAIN acc' = {"texts", "overflow"} /\ IsSeq(acc'.texts) /\ acc'.overflow \in BOOLEAN
  BY <1>3, <1>4, FreshStream DEF HoldsTexts
<1>6. Shapes' /\ Arrives' /\ Caught'
  BY <1>0, <1>2, <1>5, OverKeeps
<1>7. AccHolds'
  BY <1>0, <1>2, <1>3, <1>4 DEF AccHolds, HoldsTexts
<1>8. CacheHoldsAnswer'
  <2>1. replayed' = <<>>
    BY <1>0 DEF StreamInv, AccHolds
  <2>2. cached' # <<>> => cached' = Texts(b'.out)
    <3>1. CASE route.kind \in Accumulating
      BY <1>0, <1>3, <3>1 DEF HoldsTexts, cache_store_stream
    <3>2. CASE route.kind \notin Accumulating
      BY <1>0, <1>4, <3>2 DEF NewAcc, cache_store_stream
    <3> QED
      BY <3>1, <3>2
  <2> QED
    BY <2>1, <2>2 DEF CacheHoldsAnswer
<1> QED
  BY <1>6, <1>7, <1>8 DEF StreamInv

LEMMA BrokenKeeps ==
    ASSUME StreamInv, call.pc = "reading", NEW kinds, NEW c, Puts(c, b, <<>>), NEW frames, IsSeq(frames),
           SentNumbers(frames) = <<>>, Broken(kinds, c, frames)
    PROVE  StreamInv'
<1> DEFINE d == [c EXCEPT !.out = @ \o frames]
<1>0. /\ b' = d /\ route' = route /\ up' = up /\ line' = line /\ buf' = buf /\ acc' = acc /\ cached' = cached
      /\ replayed' = replayed /\ seen' = seen
  BY DEF Broken
<1>1. PICK late : call' = [call EXCEPT !.pc = "broken", !.late = late]
  BY DEF Broken
<1>2. /\ Bridge(b) /\ DOMAIN call = {"pc", "attempt", "gone", "dirty", "late"}
      /\ DOMAIN acc = {"texts", "overflow"} /\ IsSeq(acc.texts) /\ acc.overflow \in BOOLEAN
  BY DEF StreamInv, Shapes
<1>3. DOMAIN call' = DOMAIN call /\ call'.pc = "broken" /\ call'.gone = call.gone /\ call'.dirty = call.dirty
  BY <1>1, <1>2
<1>4. Bridge(c)
  BY <1>2, PutBridge
<1>5. DOMAIN d = Fields /\ d.out = c.out \o frames /\ d.tok = c.tok /\ d.event = c.event /\ d.in_tool = c.in_tool
  BY <1>4 DEF Bridge, Fields
<1> HIDE DEF d
<1>6. Puts(d, c, <<>>)
  BY <1>5 DEF Puts, Grows
<1>7. Puts(d, b, <<>>)
  BY <1>2, <1>6, PutsOn
<1>8. Shapes' /\ Arrives' /\ Caught'
  BY <1>0, <1>2, <1>3, <1>7, OverKeeps
<1>9. AccHolds' /\ CacheHoldsAnswer'
  <2>1. cached = <<>> /\ replayed = <<>>
    BY DEF StreamInv, AccHolds
  <2> QED
    BY <1>0, <1>3, <2>1 DEF StreamInv, AccHolds, CacheHoldsAnswer
<1> QED
  BY <1>8, <1>9 DEF StreamInv

LEMMA ClosesKeeps == ASSUME StreamInv, UpstreamCloses PROVE StreamInv'
<1>1. call.pc = "reading"
  BY DEF UpstreamCloses
<1>2. Puts(Finished(b), b, <<>>) /\ Puts(b, b, <<>>)
  BY FinishPut, SamePut DEF StreamInv, Shapes
<1>3. CASE BeforeHeaders(TRUE)
  <2>1. PICK ok : ok = TRUE
    OBVIOUS
  <2> QED
    BY <1>1, <1>3, <2>1, BeforeHeadersKeeps
<1>4. CASE ChatEnds \/ ResponsesEnds \/ MessagesEnds \/ GenaiEnds
  <2>1. PICK kinds, c : Puts(c, b, <<>>) /\ Ended(kinds, c)
    BY <1>2, <1>4 DEF ChatEnds, ResponsesEnds, MessagesEnds, GenaiEnds
  <2> QED
    BY <1>1, <2>1, EndedKeeps
<1> QED
  BY <1>3, <1>4 DEF UpstreamCloses

LEMMA BreaksKeeps == ASSUME StreamInv, UpstreamBreaks PROVE StreamInv'
<1>1. call.pc = "reading"
  BY DEF UpstreamBreaks
<1>2. Puts(Finished(b), b, <<>>) /\ Puts(b, b, <<>>)
  BY FinishPut, SamePut DEF StreamInv, Shapes
<1>3. CASE BeforeHeaders(FALSE)
  <2>1. PICK ok : ok = FALSE
    OBVIOUS
  <2> QED
    BY <1>1, <1>3, <2>1, BeforeHeadersKeeps
<1>4. CASE ChatBreaks \/ ResponsesBreaks \/ MessagesBreaks \/ GenaiBreaks
  <2>1. /\ IsSeq(Bare("error")) /\ SentNumbers(Bare("error")) = <<>>
        /\ IsSeq(Bare("error") \o Bare("done")) /\ SentNumbers(Bare("error") \o Bare("done")) = <<>>
    BY BareSent, TwoBare
  <2>2. PICK kinds, c, frames : /\ Puts(c, b, <<>>) /\ IsSeq(frames) /\ SentNumbers(frames) = <<>>
                                /\ Broken(kinds, c, frames)
    BY <1>2, <1>4, <2>1 DEF ChatBreaks, ResponsesBreaks, MessagesBreaks, GenaiBreaks
  <2> QED
    BY <1>1, <2>2, BrokenKeeps
<1> QED
  BY <1>3, <1>4 DEF UpstreamBreaks

LEMMA ReplayKeeps == ASSUME StreamInv, cache_stream_replay PROVE StreamInv'
<1>0. /\ call.pc = "ended" /\ cached # <<>>
      /\ route' = route /\ up' = up /\ line' = line /\ buf' = buf /\ b' = b /\ acc' = acc /\ call' = call
      /\ cached' = cached /\ seen' = seen
  BY DEF cache_stream_replay
<1>1. LET p == Pieces(cached)
          whole == [i \in DOMAIN p |-> Head(p[i]).j = 1 /\ Last(p[i]).j = cached[Last(p[i]).i].w]
      IN  replayed' = FlattenSeq(Kept(p, whole)) \o <<"stop">>
  BY DEF cache_stream_replay
<1>2. cached = Texts(b.out)
  BY <1>0 DEF StreamInv, CacheHoldsAnswer
<1>3. IsSeq(cached)
  <2>1. IsSeq(b.out)
    BY DEF StreamInv, Shapes, Bridge
  <2> QED
    BY <1>2, <2>1, TextsJoin
<1>4. (\A i \in DOMAIN cached : cached[i].w = 1) => replayed' = Bytes(cached) \o <<"stop">>
  <2> SUFFICES ASSUME \A i \in DOMAIN cached : cached[i].w = 1 PROVE replayed' = Bytes(cached) \o <<"stop">>
    OBVIOUS
  <2>1. PICK t : t = cached
    OBVIOUS
  <2>2. IsSeq(t) /\ t # <<>> /\ \A i \in DOMAIN t : t[i].w = 1
    BY <1>0, <1>3, <2>1
  <2>3. LET p == Pieces(t)
            whole == [i \in DOMAIN p |-> Head(p[i]).j = 1 /\ Last(p[i]).j = t[Last(p[i]).i].w]
        IN  FlattenSeq(Kept(p, whole)) = Bytes(t)
    BY <2>2, ReplayWhole
  <2> QED
    BY <1>1, <2>1, <2>3
<1>5. CacheHoldsAnswer'
  <2>1. Bytes(cached)' = Bytes(cached')
    BY DEF Bytes
  <2> QED
    BY <1>0, <1>2, <1>4, <2>1 DEF CacheHoldsAnswer
<1>6. Shapes'
  BY <1>0 DEF StreamInv, Shapes
<1>7. Arrives'
  BY <1>0, SameRoute DEF StreamInv, Arrives
<1>8. Caught'
  <2>1. Heard' => Heard
    BY <1>0 DEF Heard, Regular
  <2>2. Buffered => Buffered'
    BY <1>0 DEF Buffered
  <2> QED
    BY <1>0, <2>1, <2>2, SameRoute DEF StreamInv, Caught
<1>9. AccHolds'
  BY <1>0 DEF StreamInv, AccHolds
<1> QED
  BY <1>5, <1>6, <1>7, <1>8, <1>9 DEF StreamInv

LEMMA StutterKeeps == ASSUME StreamInv, UNCHANGED streamVars PROVE StreamInv'
<1>0. /\ route' = route /\ up' = up /\ line' = line /\ buf' = buf /\ b' = b /\ acc' = acc /\ call' = call
      /\ cached' = cached /\ replayed' = replayed /\ seen' = seen
  BY DEF streamVars
<1>1. Shapes'
  BY <1>0 DEF StreamInv, Shapes
<1>2. Arrives'
  BY <1>0, SameRoute DEF StreamInv, Arrives
<1>3. Caught'
  <2>1. Heard' => Heard
    BY <1>0 DEF Heard, Regular
  <2>2. Buffered => Buffered'
    BY <1>0 DEF Buffered
  <2> QED
    BY <1>0, <2>1, <2>2, SameRoute DEF StreamInv, Caught
<1>4. AccHolds' /\ CacheHoldsAnswer'
  BY <1>0 DEF StreamInv, AccHolds, CacheHoldsAnswer
<1> QED
  BY <1>1, <1>2, <1>3, <1>4 DEF StreamInv

LEMMA StreamStep == StreamInv /\ [StreamNext]_streamVars => StreamInv'
<1> SUFFICES ASSUME StreamInv, [StreamNext]_streamVars PROVE StreamInv'
  OBVIOUS
<1>1. CASE OpenAiUpstream
  BY <1>1, OpenAiKeeps
<1>2. CASE ResponsesUpstream
  BY <1>2, ResponsesKeeps
<1>3. CASE ClaudeUpstream
  BY <1>3, ClaudeKeeps
<1>4. CASE GeminiUpstream
  BY <1>4, GeminiKeeps
<1>5. CASE FeedPart
  BY <1>5, FeedPartKeeps
<1>6. CASE FeedEnd
  BY <1>6, FeedEndKeeps
<1>7. CASE ClientLeaves
  BY <1>7, ClientLeavesKeeps
<1>8. CASE UpstreamCloses
  BY <1>8, ClosesKeeps
<1>9. CASE UpstreamBreaks
  BY <1>9, BreaksKeeps
<1>10. CASE cache_stream_replay
  BY <1>10, ReplayKeeps
<1>11. CASE UNCHANGED streamVars
  BY <1>11, StutterKeeps
<1> QED
  BY <1>1, <1>2, <1>3, <1>4, <1>5, <1>6, <1>7, <1>8, <1>9, <1>10, <1>11 DEF StreamNext

LEMMA StreamInvariant == StreamSpec => []StreamInv
<1>1. StreamInit => StreamInv
  BY InitHolds
<1>2. StreamInv /\ [StreamNext]_streamVars => StreamInv'
  BY StreamStep
<1> QED
  BY <1>1, <1>2, PTL DEF StreamSpec

\* However the bytes are cut into chunks, wherever the upstream stops and whoever leaves, the client
\* was sent each item that arrived, once and in order (the line buffers and bridges of
\* upstream/provider_*.c, the retries of core/aigate_core.c).
THEOREM AnswersAreWhole == StreamSpec => []AnswerWhole
<1>1. StreamInv => AnswerWhole
  BY DEF StreamInv, Caught, Heard, Followed, AnswerWhole, SentNumbers
<1> QED
  BY <1>1, StreamInvariant, PTL

\* The usage a bridge or sniffer has read is what the upstream reported up to there (the
\* prompt_tokens and completion_tokens that the handlers charge).
THEOREM UsageIsReported == StreamSpec => []BilledAsReported
<1>1. StreamInv => BilledAsReported
  BY DEF StreamInv, Caught, Heard, Followed, BilledAsReported
<1> QED
  BY <1>1, StreamInvariant, PTL

\* An entry of the response cache has all texts that the client was sent, and a replay sends them
\* again (cache_store_stream and cache_stream_replay of core/aigate_core.c).
THEOREM CacheHasAnswer == StreamSpec => []CacheHoldsAnswer
<1>1. StreamInv => CacheHoldsAnswer
  BY DEF StreamInv
<1> QED
  BY <1>1, StreamInvariant, PTL

-----------------------------------------------------------------------------
(* Frames that come behind others                                            *)

\* u is s with t behind it.
Joins(u, s, t) ==
    /\ Len(s) \in Nat /\ Len(t) \in Nat /\ Len(u) = Len(s) + Len(t)
    /\ DOMAIN s = 1 .. Len(s) /\ DOMAIN t = 1 .. Len(t) /\ DOMAIN u = 1 .. Len(s) + Len(t)
    /\ \A i \in 1 .. Len(s) : u[i] = s[i]
    /\ \A i \in 1 .. Len(t) : u[Len(s) + i] = t[i]

LEMMA JoinedIs == ASSUME NEW s, NEW t, IsSeq(s), IsSeq(t) PROVE Joins(s \o t, s, t)
<1>1. PICK S : s \in Seq(S) /\ t \in Seq(S)
  BY OneSet
<1>2. /\ Len(s) \in Nat /\ Len(t) \in Nat /\ DOMAIN s = 1 .. Len(s) /\ DOMAIN t = 1 .. Len(t)
      /\ s \o t \in Seq(S) /\ Len(s \o t) = Len(s) + Len(t)
  BY <1>1, LenProperties, ConcatProperties
<1>3. DOMAIN (s \o t) = 1 .. Len(s) + Len(t)
  BY <1>1, <1>2, LenProperties
<1>4. \A i \in 1 .. Len(s) + Len(t) : (s \o t)[i] = IF i <= Len(s) THEN s[i] ELSE t[i - Len(s)]
  BY <1>1, ConcatProperties
<1>5. \A i \in 1 .. Len(s) : (s \o t)[i] = s[i]
  BY <1>2, <1>4
<1>6. \A i \in 1 .. Len(t) : (s \o t)[Len(s) + i] = t[i]
  <2> TAKE i \in 1 .. Len(t)
  <2>1. Len(s) + i \in 1 .. Len(s) + Len(t) /\ ~(Len(s) + i <= Len(s)) /\ (Len(s) + i) - Len(s) = i
    BY <1>2
  <2> QED
    BY <1>4, <2>1
<1> QED
  BY <1>2, <1>3, <1>5, <1>6 DEF Joins

\* Where the frames of u come from.
LEMMA JoinedFrom ==
    ASSUME NEW u, NEW s, NEW t, Joins(u, s, t), NEW i \in DOMAIN u
    PROVE  \/ i \in DOMAIN s /\ u[i] = s[i] /\ i <= Len(s)
           \/ \E j \in DOMAIN t : i = Len(s) + j /\ u[i] = t[j] /\ i > Len(s)
<1>1. CASE i <= Len(s)
  BY <1>1 DEF Joins
<1>2. CASE ~(i <= Len(s))
  <2>1. PICK j \in 1 .. Len(t) : i = Len(s) + j
    <3>1. i - Len(s) \in 1 .. Len(t) /\ i = Len(s) + (i - Len(s))
      BY <1>2 DEF Joins
    <3> QED
      BY <3>1
  <2> QED
    BY <1>2, <2>1 DEF Joins
<1> QED
  BY <1>1, <1>2

Has(out, f) == \E i \in DOMAIN out : out[i].f = f
Once(out, f) == \A i, j \in DOMAIN out : out[i].f = f /\ out[j].f = f => i = j

LEMMA HasJoined ==
    ASSUME NEW u, NEW s, NEW t, Joins(u, s, t), NEW f
    PROVE  /\ Has(u, f) <=> Has(s, f) \/ Has(t, f)
           /\ Once(s, f) /\ ~Has(t, f) => Once(u, f)
<1>1. Has(s, f) => Has(u, f)
  BY DEF Has, Joins
<1>2. Has(t, f) => Has(u, f)
  <2> SUFFICES ASSUME NEW j \in DOMAIN t, t[j].f = f PROVE Has(u, f)
    BY DEF Has
  <2>1. Len(s) + j \in DOMAIN u /\ u[Len(s) + j] = t[j]
    BY DEF Joins
  <2> QED
    BY <2>1 DEF Has
<1>3. Has(u, f) => Has(s, f) \/ Has(t, f)
  <2> SUFFICES ASSUME NEW i \in DOMAIN u, u[i].f = f PROVE Has(s, f) \/ Has(t, f)
    BY DEF Has
  <2> QED
    BY JoinedFrom DEF Has
<1>4. ASSUME Once(s, f), ~Has(t, f) PROVE Once(u, f)
  <2> SUFFICES ASSUME NEW i \in DOMAIN u, NEW j \in DOMAIN u, u[i].f = f, u[j].f = f PROVE i = j
    BY DEF Once
  <2>1. i \in DOMAIN s /\ u[i] = s[i]
    BY <1>4, JoinedFrom DEF Has
  <2>2. j \in DOMAIN s /\ u[j] = s[j]
    BY <1>4, JoinedFrom DEF Has
  <2> QED
    BY <1>4, <2>1, <2>2 DEF Once
<1> QED
  BY <1>1, <1>2, <1>3, <1>4

\* One frame x behind s.
LEMMA OneJoined ==
    ASSUME NEW s, IsSeq(s), NEW x
    PROVE  /\ Joins(s \o <<x>>, s, <<x>>) /\ IsSeq(s \o <<x>>) /\ Len(<<x>>) = 1 /\ <<x>>[1] = x /\ DOMAIN <<x>> = {1}
           /\ \A f : Has(<<x>>, f) <=> x.f = f
<1>1. IsSeq(<<x>>)
  BY OneIsSeq
<1>2. Joins(s \o <<x>>, s, <<x>>) /\ IsSeq(s \o <<x>>)
  BY <1>1, JoinedIs, JoinIsSeq
<1>3. Len(<<x>>) = 1 /\ <<x>>[1] = x /\ DOMAIN <<x>> = {1}
  OBVIOUS
<1>4. \A f : Has(<<x>>, f) <=> x.f = f
  BY <1>3 DEF Has
<1> QED
  BY <1>2, <1>3, <1>4

LEMMA FirstOnce ==
    ASSUME NEW s, IsSeq(s), NEW x, ~Has(s, x.f)
    PROVE  Once(s \o <<x>>, x.f)
<1>1. PICK u : u = s \o <<x>>
  OBVIOUS
<1>2. PICK t : t = <<x>>
  OBVIOUS
<1>3. Joins(u, s, t) /\ DOMAIN t = {1}
  BY <1>1, <1>2, OneJoined
<1> SUFFICES ASSUME NEW i \in DOMAIN u, NEW j \in DOMAIN u, u[i].f = x.f, u[j].f = x.f PROVE i = j
  BY <1>1 DEF Once
<1>4. i = Len(s) + 1
  BY <1>3, JoinedFrom DEF Has
<1>5. j = Len(s) + 1
  BY <1>3, JoinedFrom DEF Has
<1> QED
  BY <1>4, <1>5

\* The i-th frame is behind the tag and not behind its end.
Inside(out, i) ==
    /\ \E o \in DOMAIN out : out[o].f = "tag" /\ o < i
    /\ \A c \in DOMAIN out : out[c].f = "untag" => c > i

LEMMA InsideJoined ==
    ASSUME NEW u, NEW s, NEW t, Joins(u, s, t), NEW i \in DOMAIN s
    PROVE  Inside(u, i) <=> Inside(s, i)
<1>1. i <= Len(s) /\ i \in Nat
  BY DEF Joins
<1>2. Inside(s, i) => Inside(u, i)
  <2> SUFFICES ASSUME Inside(s, i) PROVE Inside(u, i)
    OBVIOUS
  <2>1. \E o \in DOMAIN u : u[o].f = "tag" /\ o < i
    BY DEF Inside, Joins
  <2>2. ASSUME NEW c \in DOMAIN u, u[c].f = "untag" PROVE c > i
    <3>1. CASE c \in DOMAIN s /\ u[c] = s[c]
      BY <2>2, <3>1 DEF Inside
    <3>2. CASE c > Len(s)
      BY <1>1, <3>2 DEF Joins
    <3> QED
      BY <2>2, <3>1, <3>2, JoinedFrom
  <2> QED
    BY <2>1, <2>2 DEF Inside
<1>3. Inside(u, i) => Inside(s, i)
  <2> SUFFICES ASSUME Inside(u, i) PROVE Inside(s, i)
    OBVIOUS
  <2>1. PICK o \in DOMAIN u : u[o].f = "tag" /\ o < i
    BY DEF Inside
  <2>2. o \in DOMAIN s /\ u[o] = s[o]
    BY <1>1, <2>1 DEF Joins
  <2>3. ASSUME NEW c \in DOMAIN s, s[c].f = "untag" PROVE c > i
    <3>1. c \in DOMAIN u /\ u[c] = s[c]
      BY DEF Joins
    <3> QED
      BY <2>3, <3>1 DEF Inside
  <2> QED
    BY <2>1, <2>2, <2>3 DEF Inside
<1> QED
  BY <1>2, <1>3

LEMMA NewInside ==
    ASSUME NEW s, IsSeq(s), NEW x, x.f = "content"
    PROVE  Inside(s \o <<x>>, Len(s) + 1) <=> Has(s, "tag") /\ ~Has(s, "untag")
<1>1. PICK u : u = s \o <<x>>
  OBVIOUS
<1>2. PICK t : t = <<x>>
  OBVIOUS
<1>3. Joins(u, s, t) /\ DOMAIN t = {1} /\ t[1] = x
  BY <1>1, <1>2, OneJoined
<1>4. (\E o \in DOMAIN u : u[o].f = "tag" /\ o < Len(s) + 1) <=> Has(s, "tag")
  BY <1>3 DEF Has, Joins
<1>5. Has(s, "untag") => ~(\A c \in DOMAIN u : u[c].f = "untag" => c > Len(s) + 1)
  BY <1>3 DEF Has, Joins
<1>6. ~Has(s, "untag") => \A c \in DOMAIN u : u[c].f = "untag" => c > Len(s) + 1
  BY <1>3, JoinedFrom DEF Has
<1> QED
  BY <1>1, <1>4, <1>5, <1>6 DEF Inside
-----------------------------------------------------------------------------
(* The tags and [DONE]                                                       *)

Thoughtful(n, v) == \E j \in DOMAIN v.items : v.items[j].n = n /\ v.items[j].k = "reason"

TagShape(c, v) ==
    /\ c.tag_opened <=> Has(c.out, "tag")
    /\ c.tag_closed <=> Has(c.out, "untag")
    /\ c.tag_closed => c.tag_opened
    /\ Once(c.out, "tag") /\ Once(c.out, "untag")
    /\ \A i \in DOMAIN c.out : c.out[i].f = "content" =>
         c.out[i].n \in 1 .. v.n /\ (Thoughtful(c.out[i].n, v) <=> Inside(c.out, i))

Undone(c) == ~Has(c.out, "done") /\ (route.kind = "anthropic" => ~c.done)

\* The bridge c is in order in front of the upstream v, and has not sent [DONE].
InOrder(c, v) == Bridge(c) /\ Undone(c) /\ (route.tag => TagShape(c, v))

ChatFlags(d, c) == d.tag_opened = c.tag_opened /\ d.tag_closed = c.tag_closed /\ d.done = c.done
BlockFlags(d, c) ==
    /\ d.started = c.started /\ d.think_started = c.think_started /\ d.think_closed = c.think_closed
    /\ d.text_started = c.text_started /\ d.in_thinking = c.in_thinking

LEMMA ChunkIs ==
    ASSUME NEW c, Bridge(c), NEW frames, IsSeq(frames)
    PROVE  LET d == bridge_send_chunk(c, frames)
           IN  Bridge(d) /\ d.out = c.out \o frames /\ ChatFlags(d, c) /\ BlockFlags(d, c)
<1> DEFINE d == bridge_send_chunk(c, frames)
<1>1. CASE frames = <<>>
  <2>1. d = c /\ c.out \o frames = c.out
    BY <1>1, JoinNothing DEF bridge_send_chunk, Bridge
  <2> QED
    BY <2>1 DEF ChatFlags, BlockFlags
<1>2. CASE frames # <<>>
  <2>1. DOMAIN d = Fields /\ d.out = c.out \o frames /\ ChatFlags(d, c)
    BY <1>2 DEF Bridge, bridge_send_chunk, Fields, ChatFlags
  <2>2. BlockFlags(d, c)
    BY <1>2 DEF Bridge, bridge_send_chunk, Fields, BlockFlags
  <2>3. IsSeq(c.out \o frames)
    BY JoinIsSeq DEF Bridge
  <2> QED
    BY <2>1, <2>2, <2>3 DEF Bridge
<1> QED
  BY <1>1, <1>2

LEMMA BareIs ==
    ASSUME NEW f, NEW i
    PROVE  /\ IsSeq(Bare(f)) /\ IsSeq(BlockFrame(f, i)) /\ (\A g : Has(Bare(f), g) <=> g = f)
           /\ \E x : Bare(f) = <<x>> /\ x.f = f /\ x.n = 0 /\ x.i = 0
           /\ \E x : BlockFrame(f, i) = <<x>> /\ x.f = f /\ x.n = 0 /\ x.i = i
<1>1. PICK x : x = [f |-> f, i |-> 0, n |-> 0, w |-> 1]
  OBVIOUS
<1>2. PICK y : y = [f |-> f, i |-> i, n |-> 0, w |-> 1]
  OBVIOUS
<1>3. Bare(f) = <<x>> /\ x.f = f /\ x.n = 0 /\ x.i = 0
  BY <1>1 DEF Bare
<1>4. BlockFrame(f, i) = <<y>> /\ y.f = f /\ y.n = 0 /\ y.i = i
  BY <1>2 DEF BlockFrame
<1>5. \A g : Has(Bare(f), g) <=> g = f
  BY <1>3 DEF Has
<1> QED
  BY <1>3, <1>4, <1>5, OneIsSeq

LEMMA TwoBareIs ==
    ASSUME NEW f, NEW g
    PROVE  /\ IsSeq(Bare(f) \o Bare(g)) /\ (\A h : Has(Bare(f) \o Bare(g), h) <=> h \in {f, g})
           /\ Len(Bare(f) \o Bare(g)) = 2 /\ (Bare(f) \o Bare(g))[1].f = f /\ (Bare(f) \o Bare(g))[2].f = g
<1>1. PICK s, t : s = Bare(f) /\ t = Bare(g)
  OBVIOUS
<1>2. IsSeq(s) /\ IsSeq(t)
  BY <1>1, BareIs
<1>3. Joins(s \o t, s, t)
  BY <1>2, JoinedIs
<1>4. (\A h : Has(s, h) <=> h = f) /\ (\A h : Has(t, h) <=> h = g)
  BY <1>1, BareIs
<1>5. \A h : Has(s \o t, h) <=> h \in {f, g}
  <2> TAKE h
  <2>1. PICK u : u = s \o t
    OBVIOUS
  <2>2. Has(u, h) <=> Has(s, h) \/ Has(t, h)
    BY <1>3, <2>1, HasJoined
  <2> QED
    BY <1>4, <2>1, <2>2
<1>6. Len(s) = 1 /\ Len(t) = 1 /\ s[1].f = f /\ t[1].f = g
  BY <1>1 DEF Bare
<1>7. Len(s \o t) = 2 /\ (s \o t)[1] = s[1] /\ (s \o t)[2] = t[1]
  BY <1>3, <1>6 DEF Joins
<1> QED
  BY <1>1, <1>2, <1>5, <1>6, <1>7, JoinIsSeq

\* The frames say nothing of tags, texts and [DONE].
Plain(frames) == IsSeq(frames) /\ \A f \in {"content", "tag", "untag", "done"} : ~Has(frames, f)

LEMMA PlainShape ==
    ASSUME NEW c, NEW d, NEW v, Bridge(c), TagShape(c, v), NEW frames, IsSeq(frames), d.out = c.out \o frames,
           ChatFlags(d, c), ~Has(frames, "content"), ~Has(frames, "tag"), ~Has(frames, "untag")
    PROVE  TagShape(d, v)
<1>1. PICK s : s = c.out
  OBVIOUS
<1>2. PICK u : u = s \o frames
  OBVIOUS
<1>3. Joins(u, s, frames)
  BY <1>1, <1>2, JoinedIs DEF Bridge
<1>4. (Has(u, "tag") <=> Has(s, "tag")) /\ (Has(u, "untag") <=> Has(s, "untag"))
  BY <1>3, HasJoined
<1>5. Once(u, "tag") /\ Once(u, "untag")
  BY <1>1, <1>3, HasJoined DEF TagShape
<1>6. ASSUME NEW i \in DOMAIN u, u[i].f = "content"
      PROVE  u[i].n \in 1 .. v.n /\ (Thoughtful(u[i].n, v) <=> Inside(u, i))
  <2>1. i \in DOMAIN s /\ u[i] = s[i]
    BY <1>3, <1>6, JoinedFrom DEF Has
  <2>2. Inside(u, i) <=> Inside(s, i)
    BY <1>3, <2>1, InsideJoined
  <2> QED
    BY <1>1, <1>6, <2>1, <2>2 DEF TagShape
<1>7. d.out = u /\ d.tag_opened = c.tag_opened /\ d.tag_closed = c.tag_closed
  BY <1>1, <1>2 DEF ChatFlags
<1>8. /\ c.tag_opened <=> Has(s, "tag")
      /\ c.tag_closed <=> Has(s, "untag")
      /\ c.tag_closed => c.tag_opened
  BY <1>1 DEF TagShape
<1> QED
  BY <1>4, <1>5, <1>6, <1>7, <1>8 DEF TagShape

LEMMA PlainKeeps ==
    ASSUME NEW c, NEW d, NEW v, InOrder(c, v), NEW frames, Plain(frames), Bridge(d), d.out = c.out \o frames, ChatFlags(d, c)
    PROVE  InOrder(d, v)
<1>1. route.tag => TagShape(d, v)
  BY PlainShape DEF InOrder, Plain
<1>2. ~Has(d.out, "done")
  <2>1. PICK s, u : s = c.out /\ u = d.out
    OBVIOUS
  <2>2. Joins(u, s, frames)
    BY <2>1, JoinedIs DEF InOrder, Bridge, Plain
  <2>3. Has(u, "done") <=> Has(s, "done") \/ Has(frames, "done")
    BY <2>2, HasJoined
  <2> QED
    BY <2>1, <2>3 DEF InOrder, Undone, Plain
<1>3. d.done = c.done
  BY DEF ChatFlags
<1> QED
  BY <1>1, <1>2, <1>3 DEF InOrder, Undone

LEMMA SameKeeps ==
    ASSUME NEW c, NEW d, NEW v, InOrder(c, v), Bridge(d), d.out = c.out, ChatFlags(d, c)
    PROVE  InOrder(d, v)
<1>1. PICK s : s = <<>>
  OBVIOUS
<1>2. Plain(s) /\ c.out \o s = c.out
  <2>1. IsSeq(s)
    BY <1>1, NothingIsSeq
  <2>2. \A f : ~Has(s, f)
    BY <1>1 DEF Has
  <2> QED
    BY <1>1, <2>1, <2>2, JoinNothing DEF Plain, InOrder, Bridge
<1> QED
  BY <1>2, PlainKeeps

LEMMA BareKeeps ==
    ASSUME NEW c, NEW v, InOrder(c, v), NEW frames, Plain(frames)
    PROVE  /\ InOrder(bridge_send_chunk(c, frames), v)
           /\ ChatFlags(bridge_send_chunk(c, frames), c)
<1>1. PICK d : d = bridge_send_chunk(c, frames)
  OBVIOUS
<1>2. Bridge(d) /\ d.out = c.out \o frames /\ ChatFlags(d, c)
  BY <1>1, ChunkIs DEF InOrder, Plain
<1> QED
  BY <1>1, <1>2, PlainKeeps
LEMMA OpenedShape ==
    ASSUME NEW c, NEW d, NEW v, Bridge(c), TagShape(c, v), ~c.tag_opened, d.out = c.out \o Bare("tag"),
           d.tag_opened = TRUE, d.tag_closed = c.tag_closed
    PROVE  TagShape(d, v)
<1>1. PICK x : Bare("tag") = <<x>> /\ x.f = "tag"
  BY BareIs
<1>2. PICK s, t, u : s = c.out /\ t = <<x>> /\ u = s \o <<x>>
  OBVIOUS
<1>3. Joins(u, s, t) /\ (\A f : Has(t, f) <=> f = "tag")
  BY <1>1, <1>2, OneJoined DEF Bridge
<1>4. ~Has(s, "tag") /\ ~Has(s, "untag") /\ ~c.tag_closed
  BY <1>2 DEF TagShape
<1>5. Has(u, "tag") /\ ~Has(u, "untag")
  BY <1>3, <1>4, HasJoined
<1>6. Once(u, "tag")
  BY <1>1, <1>2, <1>4, FirstOnce DEF Bridge
<1>7. Once(u, "untag")
  BY <1>5 DEF Has, Once
<1>8. ASSUME NEW i \in DOMAIN u, u[i].f = "content"
      PROVE  u[i].n \in 1 .. v.n /\ (Thoughtful(u[i].n, v) <=> Inside(u, i))
  <2>0. \A j \in DOMAIN t : t[j].f # "content"
    BY <1>2, <1>1
  <2>1. i \in DOMAIN s /\ u[i] = s[i]
    BY <1>3, <1>8, <2>0, JoinedFrom
  <2>2. Inside(u, i) <=> Inside(s, i)
    BY <1>3, <2>1, InsideJoined
  <2> QED
    BY <1>2, <1>8, <2>1, <2>2 DEF TagShape
<1>9. d.out = u
  BY <1>1, <1>2
<1> QED
  BY <1>4, <1>5, <1>6, <1>7, <1>8, <1>9 DEF TagShape

LEMMA ClosedShape ==
    ASSUME NEW c, NEW d, NEW v, Bridge(c), TagShape(c, v), c.tag_opened, ~c.tag_closed, d.out = c.out \o Bare("untag"),
           d.tag_opened = c.tag_opened, d.tag_closed = TRUE
    PROVE  TagShape(d, v)
<1>1. PICK x : Bare("untag") = <<x>> /\ x.f = "untag"
  BY BareIs
<1>2. PICK s, t, u : s = c.out /\ t = <<x>> /\ u = s \o <<x>>
  OBVIOUS
<1>3. Joins(u, s, t) /\ (\A f : Has(t, f) <=> f = "untag")
  BY <1>1, <1>2, OneJoined DEF Bridge
<1>4. Has(s, "tag") /\ Once(s, "tag") /\ ~Has(s, "untag")
  BY <1>2 DEF TagShape
<1>5. Has(u, "tag") /\ Has(u, "untag") /\ Once(u, "tag")
  BY <1>3, <1>4, HasJoined
<1>6. Once(u, "untag")
  BY <1>1, <1>2, <1>4, FirstOnce DEF Bridge
<1>8. ASSUME NEW i \in DOMAIN u, u[i].f = "content"
      PROVE  u[i].n \in 1 .. v.n /\ (Thoughtful(u[i].n, v) <=> Inside(u, i))
  <2>0. \A j \in DOMAIN t : t[j].f # "content"
    BY <1>2, <1>1
  <2>1. i \in DOMAIN s /\ u[i] = s[i]
    BY <1>3, <1>8, <2>0, JoinedFrom
  <2>2. Inside(u, i) <=> Inside(s, i)
    BY <1>3, <2>1, InsideJoined
  <2> QED
    BY <1>2, <1>8, <2>1, <2>2 DEF TagShape
<1>9. d.out = u
  BY <1>1, <1>2
<1> QED
  BY <1>5, <1>6, <1>8, <1>9 DEF TagShape

\* A content frame of an item: a thought between the tags, or a text outside them.
LEMMA ContentShape ==
    ASSUME NEW c, NEW d, NEW v, Bridge(c), TagShape(c, v), NEW x, x.f = "content", d.out = c.out \o <<x>>, ChatFlags(d, c),
           x.n \in 1 .. v.n, Thoughtful(x.n, v) <=> c.tag_opened /\ ~c.tag_closed
    PROVE  TagShape(d, v)
<1>2. PICK s, t, u : s = c.out /\ t = <<x>> /\ u = s \o <<x>>
  OBVIOUS
<1>3. Joins(u, s, t) /\ ~Has(t, "tag") /\ ~Has(t, "untag") /\ t[1] = x /\ DOMAIN t = {1}
  <2>1. IsSeq(s)
    BY <1>2 DEF Bridge
  <2>2. Joins(s \o <<x>>, s, <<x>>) /\ <<x>>[1] = x /\ DOMAIN <<x>> = {1}
    BY <2>1, OneJoined
  <2> QED
    BY <1>2, <2>2 DEF Has
<1>4. (Has(u, "tag") <=> Has(s, "tag")) /\ (Has(u, "untag") <=> Has(s, "untag"))
  BY <1>3, HasJoined
<1>5. Once(u, "tag") /\ Once(u, "untag")
  <2>1. Once(s, "tag") /\ Once(s, "untag")
    BY <1>2 DEF TagShape
  <2> QED
    BY <1>3, <2>1, HasJoined
<1>6. ASSUME NEW i \in DOMAIN u, u[i].f = "content"
      PROVE  u[i].n \in 1 .. v.n /\ (Thoughtful(u[i].n, v) <=> Inside(u, i))
  <2>1. CASE i \in DOMAIN s /\ u[i] = s[i]
    <3>1. Inside(u, i) <=> Inside(s, i)
      BY <1>3, <2>1, InsideJoined
    <3> QED
      BY <1>2, <1>6, <2>1, <3>1 DEF TagShape
  <2>2. CASE i = Len(s) + 1 /\ u[i] = x
    <3>1. Inside(u, i) <=> Has(s, "tag") /\ ~Has(s, "untag")
      BY <1>2, <2>2, NewInside DEF Bridge
    <3>2. Inside(u, i) <=> c.tag_opened /\ ~c.tag_closed
      BY <1>2, <3>1 DEF TagShape
    <3> QED
      BY <2>2, <3>2
  <2> QED
    BY <1>3, <2>1, <2>2, JoinedFrom
<1>7. /\ c.tag_opened <=> Has(s, "tag")
      /\ c.tag_closed <=> Has(s, "untag")
      /\ c.tag_closed => c.tag_opened
  BY <1>2 DEF TagShape
<1>8. d.out = u /\ d.tag_opened = c.tag_opened /\ d.tag_closed = c.tag_closed
  BY <1>2 DEF ChatFlags
<1> QED
  BY <1>4, <1>5, <1>6, <1>7, <1>8 DEF TagShape

LEMMA UndoneOn ==
    ASSUME NEW c, NEW d, Bridge(c), Undone(c), NEW frames, IsSeq(frames), d.out = c.out \o frames, d.done = c.done,
           ~Has(frames, "done")
    PROVE  Undone(d)
<1>1. PICK s, u : s = c.out /\ u = d.out
  OBVIOUS
<1>2. Joins(u, s, frames)
  BY <1>1, JoinedIs DEF Bridge
<1>3. Has(u, "done") <=> Has(s, "done") \/ Has(frames, "done")
  BY <1>2, HasJoined
<1> QED
  BY <1>1, <1>3 DEF Undone

LEMMA OpenKeeps ==
    ASSUME NEW c, NEW v, InOrder(c, v)
    PROVE  LET d == OpenTag(c)
           IN  /\ InOrder(d, v) /\ (route.tag => d.tag_opened) /\ d.tag_closed = c.tag_closed /\ d.done = c.done
               /\ ~route.tag => ChatFlags(d, c)
<1>1. CASE route.tag /\ ~c.tag_opened
  <2>1. PICK g : g = [c EXCEPT !.tag_opened = TRUE]
    OBVIOUS
  <2>2. Bridge(g) /\ g.out = c.out /\ g.tag_opened = TRUE /\ g.tag_closed = c.tag_closed /\ g.done = c.done
    BY <2>1 DEF InOrder, Bridge, Fields
  <2>3. PICK d : d = OpenTag(c)
    OBVIOUS
  <2>4. d = bridge_send_chunk(g, Bare("tag"))
    BY <1>1, <2>1, <2>3 DEF OpenTag
  <2>5. IsSeq(Bare("tag")) /\ ~Has(Bare("tag"), "done")
    BY BareIs
  <2>6. Bridge(d) /\ d.out = g.out \o Bare("tag") /\ ChatFlags(d, g)
    BY <2>2, <2>4, <2>5, ChunkIs
  <2>7. d.out = c.out \o Bare("tag") /\ d.tag_opened = TRUE /\ d.tag_closed = c.tag_closed /\ d.done = c.done
    BY <2>2, <2>6 DEF ChatFlags
  <2>8. TagShape(d, v)
    BY <1>1, <2>7, OpenedShape DEF InOrder
  <2>9. Undone(d)
    BY <2>5, <2>7, UndoneOn DEF InOrder
  <2> QED
    BY <1>1, <2>3, <2>6, <2>7, <2>8, <2>9 DEF InOrder
<1>2. CASE ~(route.tag /\ ~c.tag_opened)
  <2>1. OpenTag(c) = c
    BY <1>2 DEF OpenTag
  <2> QED
    BY <1>2, <2>1 DEF ChatFlags
<1> QED
  BY <1>1, <1>2

LEMMA CloseKeeps ==
    ASSUME NEW c, NEW v, Bridge(c), route.tag => TagShape(c, v)
    PROVE  LET d == CloseTag(c)
           IN  /\ Bridge(d) /\ (route.tag => TagShape(d, v)) /\ (Undone(c) => Undone(d))
               /\ route.tag /\ c.tag_opened => d.tag_closed
               /\ ~(route.tag /\ c.tag_opened /\ ~c.tag_closed) => d = c
               /\ d.tag_opened = c.tag_opened /\ d.done = c.done
               /\ \E frames : IsSeq(frames) /\ d.out = c.out \o frames /\ ~Has(frames, "done")
<1>1. CASE route.tag /\ c.tag_opened /\ ~c.tag_closed
  <2>1. PICK g : g = [c EXCEPT !.tag_closed = TRUE]
    OBVIOUS
  <2>2. Bridge(g) /\ g.out = c.out /\ g.tag_closed = TRUE /\ g.tag_opened = c.tag_opened /\ g.done = c.done
    BY <2>1 DEF Bridge, Fields
  <2>3. PICK d : d = CloseTag(c)
    OBVIOUS
  <2>4. d = bridge_send_chunk(g, Bare("untag"))
    BY <1>1, <2>1, <2>3 DEF CloseTag
  <2>5. IsSeq(Bare("untag")) /\ ~Has(Bare("untag"), "done")
    BY BareIs
  <2>6. Bridge(d) /\ d.out = g.out \o Bare("untag") /\ ChatFlags(d, g)
    BY <2>2, <2>4, <2>5, ChunkIs
  <2>7. d.out = c.out \o Bare("untag") /\ d.tag_closed = TRUE /\ d.tag_opened = c.tag_opened /\ d.done = c.done
    BY <2>2, <2>6 DEF ChatFlags
  <2>8. TagShape(d, v)
    BY <1>1, <2>7, ClosedShape
  <2>9. Undone(c) => Undone(d)
    BY <2>5, <2>7, UndoneOn
  <2> QED
    BY <1>1, <2>3, <2>5, <2>6, <2>7, <2>8, <2>9
<1>2. CASE ~(route.tag /\ c.tag_opened /\ ~c.tag_closed)
  <2>1. CloseTag(c) = c
    BY <1>2 DEF CloseTag
  <2>2. IsSeq(<<>>) /\ c.out = c.out \o <<>> /\ ~Has(<<>>, "done")
    BY NothingIsSeq, JoinNothing DEF Bridge, Has
  <2> QED
    BY <1>2, <2>1, <2>2
<1> QED
  BY <1>1, <1>2

LEMMA ItemKeeps ==
    ASSUME NEW c, NEW v, InOrder(c, v), NEW x, x.n \in 1 .. v.n, NEW f \in {"content", "reasoning"},
           f = "content" /\ route.tag => (Thoughtful(x.n, v) <=> c.tag_opened /\ ~c.tag_closed)
    PROVE  LET d == bridge_send_chunk(c, <<Frame(f, 0, x)>>)
           IN  InOrder(d, v) /\ ChatFlags(d, c)
<1>1. PICK y : y = Frame(f, 0, x)
  OBVIOUS
<1>2. y.f = f /\ y.n = x.n
  BY <1>1 DEF Frame
<1>3. PICK d : d = bridge_send_chunk(c, <<y>>)
  OBVIOUS
<1>4. Bridge(c) /\ IsSeq(c.out)
  BY DEF InOrder, Bridge
<1>5. IsSeq(<<y>>) /\ \A g : Has(<<y>>, g) <=> f = g
  BY <1>2, <1>4, OneIsSeq, OneJoined
<1>6. Bridge(d) /\ d.out = c.out \o <<y>> /\ ChatFlags(d, c)
  BY <1>3, <1>4, <1>5, ChunkIs
<1>7. CASE f = "reasoning"
  <2>1. Plain(<<y>>)
    BY <1>5, <1>7 DEF Plain
  <2> QED
    BY <1>1, <1>3, <1>6, <2>1, PlainKeeps
<1>8. CASE f = "content"
  <2>1. route.tag => TagShape(d, v)
    <3> SUFFICES ASSUME route.tag PROVE TagShape(d, v)
      OBVIOUS
    <3>1. TagShape(c, v) /\ (Thoughtful(y.n, v) <=> c.tag_opened /\ ~c.tag_closed) /\ y.n \in 1 .. v.n /\ y.f = "content"
      BY <1>2, <1>8 DEF InOrder
    <3> QED
      BY <1>4, <1>6, <3>1, ContentShape
  <2>2. Undone(d)
    <3>1. ~Has(<<y>>, "done") /\ d.done = c.done
      BY <1>5, <1>6, <1>8 DEF ChatFlags
    <3> QED
      BY <1>4, <1>5, <1>6, <3>1, UndoneOn DEF InOrder
  <2> QED
    BY <1>1, <1>3, <1>6, <2>1, <2>2 DEF InOrder
<1> QED
  BY <1>7, <1>8

LEMMA ThoughtKeeps ==
    ASSUME NEW c, NEW v, InOrder(c, v), NEW x, x.n \in 1 .. v.n, Thoughtful(x.n, v), route.tag => ~c.tag_closed
    PROVE  LET d == Thought(c, x)
           IN  InOrder(d, v) /\ d.tag_closed = c.tag_closed
<1>1. PICK g : g = OpenTag(c)
  OBVIOUS
<1>2. InOrder(g, v) /\ (route.tag => g.tag_opened) /\ g.tag_closed = c.tag_closed
  BY <1>1, OpenKeeps
<1>3. PICK f : f = IF route.tag THEN "content" ELSE "reasoning"
  OBVIOUS
<1>4. f \in {"content", "reasoning"} /\ (f = "content" /\ route.tag => (Thoughtful(x.n, v) <=> g.tag_opened /\ ~g.tag_closed))
  BY <1>2, <1>3
<1>5. PICK d : d = bridge_send_chunk(g, <<Frame(f, 0, x)>>)
  OBVIOUS
<1>6. InOrder(d, v) /\ ChatFlags(d, g)
  BY <1>2, <1>4, <1>5, ItemKeeps
<1>7. d = Thought(c, x)
  BY <1>1, <1>3, <1>5 DEF Thought
<1> QED
  BY <1>2, <1>6, <1>7 DEF ChatFlags

LEMMA TextKeeps ==
    ASSUME NEW c, NEW v, InOrder(c, v), NEW x, x.n \in 1 .. v.n, ~Thoughtful(x.n, v)
    PROVE  LET d == Text(c, x)
           IN  InOrder(d, v) /\ d.tag_opened = c.tag_opened
<1>1. PICK g : g = CloseTag(c)
  OBVIOUS
<1>2. InOrder(g, v) /\ (route.tag /\ c.tag_opened => g.tag_closed) /\ g.tag_opened = c.tag_opened
  BY <1>1, CloseKeeps DEF InOrder
<1>3. PICK f : f = "content"
  OBVIOUS
<1>4. f \in {"content", "reasoning"} /\ (f = "content" /\ route.tag => (Thoughtful(x.n, v) <=> g.tag_opened /\ ~g.tag_closed))
  BY <1>2, <1>3
<1>5. PICK d : d = bridge_send_chunk(g, <<Frame(f, 0, x)>>)
  OBVIOUS
<1>6. InOrder(d, v) /\ ChatFlags(d, g)
  BY <1>2, <1>4, <1>5, ItemKeeps
<1>7. d = Text(c, x)
  BY <1>1, <1>3, <1>5 DEF Text
<1> QED
  BY <1>2, <1>6, <1>7 DEF ChatFlags
-----------------------------------------------------------------------------
(* The order of the upstream's events                                        *)

\* A block of thoughts is open; the answer has one; it has a text.
Thinks == {"thinking", "signed", "redacted"}
InThoughts(u) == u.st = "block" /\ u.blk \in Thinks
HasThoughts(u) == \E i \in DOMAIN u.blocks : u.blocks[i] = "thinking"
HasText(u) == \E j \in DOMAIN u.items : u.items[j].k \in {"text", "wide"}

\* Items are numbered from 1, and an open block of thoughts is in the list.
Numbered(u) == u.n = Len(u.items) /\ \A j \in DOMAIN u.items : u.items[j].n = j
BlocksOpen(u) == IsSeq(u.blocks) /\ (InThoughts(u) => HasThoughts(u))

\* The line e brings a thought.
IsThought(e) == e.t = "reason" \/ e.k \in {"redacted_thinking", "thinking_delta"}

ClaudeSteps(v, e) ==
    /\ IF e.t = "content_block_start"
       THEN \E k : e.u.blocks = Append(v.blocks, k) /\ (e.u.blk \in Thinks => k = "thinking")
       ELSE e.u.blocks = v.blocks
    /\ e.t = "content_block_start" => e.u.st = "block" /\ (e.u.blk \in Thinks <=> e.k \in {"thinking", "redacted_thinking"})
    /\ e.t = "content_block_delta" =>
         /\ e.u.st = "block" /\ (e.u.blk \in Thinks <=> v.blk \in Thinks)
         /\ e.k = "thinking_delta" => v.blk \in Thinks
         /\ e.k = "text_delta" => v.blk \notin Thinks
    /\ e.k \in {"thinking_delta", "text_delta"} => e.t = "content_block_delta"
    /\ e.k = "redacted_thinking" => e.t = "content_block_start"
    /\ e.t = "message_stop" => e.u.st = "end"
    /\ e.t = "error" => e.u.st = "end" /\ e.u.failed

Late == {"fin", "used", "end"}
OpenAiSteps(v, e) ==
    /\ e.t \in {"reason", "text", "wide"} => e.u.st \notin Late
    /\ v.st \in Late => e.u.st \in Late
    /\ e.t = "finish" => e.u.st \in Late
    /\ e.t = "done" => e.u.st = "end"

\* What the line e says of where its upstream v stands.
Steps(v, e) ==
    /\ v.st # "end" /\ Numbered(e.u) /\ BlocksOpen(e.u)
    /\ Completes(v, e) => (New(e).k = "reason" <=> IsThought(e))
    /\ e.t \in {"text", "wide"} => New(e).k \in {"text", "wide"}
    /\ route.kind \in ClaudeSide => ClaudeSteps(v, e)
    /\ route.kind \in {"openai", "messages"} => OpenAiSteps(v, e)
    /\ route.kind \notin ClaudeSide => e.u.blocks = v.blocks /\ e.k \notin {"redacted_thinking", "thinking_delta"}

\* e follows v, whose items and blocks stay.
Follows(v, e) == UpOk(v) /\ Numbered(v) /\ BlocksOpen(v) /\ Tells(v, e) /\ Steps(v, e)
Extends(v, e) ==
    /\ Len(v.items) \in Nat /\ DOMAIN v.items = 1 .. Len(v.items) /\ DOMAIN e.u.items = 1 .. Len(e.u.items)
    /\ Len(e.u.items) \in Nat /\ Len(v.items) <= Len(e.u.items)
    /\ \A j \in DOMAIN v.items : e.u.items[j] = v.items[j]
    /\ IF Completes(v, e) THEN Len(e.u.items) = Len(v.items) + 1 /\ e.u.items[Len(e.u.items)] = New(e)
                          ELSE e.u.items = v.items
    /\ \A i \in DOMAIN v.blocks : i \in DOMAIN e.u.blocks /\ e.u.blocks[i] = v.blocks[i]
    /\ route.kind = "anthropic" /\ e.t = "content_block_start" /\ e.u.blk \in Thinks =>
         \E i \in DOMAIN e.u.blocks : i \notin DOMAIN v.blocks /\ e.u.blocks[i] = "thinking"

LEMMA AppendIs ==
    ASSUME NEW s, IsSeq(s), NEW x
    PROVE  /\ Len(s) \in Nat /\ DOMAIN s = 1 .. Len(s) /\ DOMAIN Append(s, x) = 1 .. Len(s) + 1
           /\ Len(Append(s, x)) = Len(s) + 1 /\ Append(s, x)[Len(s) + 1] = x
           /\ \A i \in 1 .. Len(s) : Append(s, x)[i] = s[i]
<1>1. PICK S : s \in Seq(S)
  BY DEF IsSeq
<1>2. s \in Seq(S \cup {x}) /\ x \in S \cup {x}
  BY <1>1, SeqMonotonic
<1>3. /\ Append(s, x) \in Seq(S \cup {x}) /\ Len(Append(s, x)) = Len(s) + 1 /\ Append(s, x)[Len(s) + 1] = x
      /\ \A i \in 1 .. Len(s) : Append(s, x)[i] = s[i]
  BY <1>2, AppendProperties
<1> QED
  BY <1>2, <1>3, LenProperties

LEMMA ExtendsIs ==
    ASSUME NEW v, NEW e, Follows(v, e)
    PROVE  Extends(v, e)
<1>1. IsSeq(v.items) /\ IsSeq(v.blocks)
  BY DEF Follows, UpOk, IsSeq, BlocksOpen
<1>2. Len(v.items) \in Nat /\ DOMAIN v.items = 1 .. Len(v.items)
  BY DEF Follows, UpOk
<1>3. /\ DOMAIN e.u.items = 1 .. Len(e.u.items) /\ Len(e.u.items) \in Nat /\ Len(v.items) <= Len(e.u.items)
      /\ \A j \in DOMAIN v.items : e.u.items[j] = v.items[j]
      /\ IF Completes(v, e) THEN Len(e.u.items) = Len(v.items) + 1 /\ e.u.items[Len(e.u.items)] = New(e)
                            ELSE e.u.items = v.items
  <2>1. CASE Completes(v, e)
    <3>1. e.u.items = Append(v.items, New(e))
      BY <2>1 DEF Follows, Tells, Brings
    <3>2. PICK s, x : s = v.items /\ x = New(e)
      OBVIOUS
    <3>3. /\ DOMAIN Append(s, x) = 1 .. Len(s) + 1 /\ Len(Append(s, x)) = Len(s) + 1 /\ Append(s, x)[Len(s) + 1] = x
          /\ \A i \in 1 .. Len(s) : Append(s, x)[i] = s[i]
      BY <1>1, <3>2, AppendIs
    <3> QED
      BY <1>2, <2>1, <3>1, <3>2, <3>3
  <2>2. CASE ~Completes(v, e)
    BY <1>2, <2>2 DEF Follows, Tells, Brings
  <2> QED
    BY <2>1, <2>2
<1>4. ASSUME e.u.blocks = v.blocks, ~(route.kind = "anthropic" /\ e.t = "content_block_start") PROVE Extends(v, e)
  BY <1>2, <1>3, <1>4 DEF Extends
<1>5. ASSUME NEW k, e.u.blocks = Append(v.blocks, k), e.u.blk \in Thinks => k = "thinking" PROVE Extends(v, e)
  <2>1. PICK s : s = v.blocks
    OBVIOUS
  <2>2. /\ Len(s) \in Nat /\ DOMAIN s = 1 .. Len(s) /\ DOMAIN Append(s, k) = 1 .. Len(s) + 1 /\ Append(s, k)[Len(s) + 1] = k
        /\ \A i \in 1 .. Len(s) : Append(s, k)[i] = s[i]
    BY <1>1, <2>1, AppendIs
  <2>3. \A i \in DOMAIN v.blocks : i \in DOMAIN e.u.blocks /\ e.u.blocks[i] = v.blocks[i]
    BY <1>5, <2>1, <2>2
  <2>4. Len(s) + 1 \in DOMAIN e.u.blocks /\ Len(s) + 1 \notin DOMAIN v.blocks /\ e.u.blocks[Len(s) + 1] = k
    BY <1>5, <2>1, <2>2
  <2>5. e.u.blk \in Thinks => \E i \in DOMAIN e.u.blocks : i \notin DOMAIN v.blocks /\ e.u.blocks[i] = "thinking"
    BY <1>5, <2>4
  <2> QED
    BY <1>2, <1>3, <2>3, <2>5 DEF Extends
<1>6. CASE route.kind \in ClaudeSide
  <2>1. ClaudeSteps(v, e)
    BY <1>6 DEF Follows, Steps
  <2> QED
    BY <1>4, <1>5, <2>1 DEF ClaudeSteps
<1>7. CASE route.kind \notin ClaudeSide
  BY <1>4, <1>7 DEF Follows, Steps, ClaudeSide
<1> QED
  BY <1>6, <1>7

\* No thought comes after v; the block that opened the tag is in the list.
Past(v) ==
    IF route.kind = "anthropic" THEN ~InThoughts(v)
    ELSE HasText(v) \/ (route.kind = "openai" /\ v.st \in Late)
Began(v) == route.kind = "anthropic" => HasThoughts(v)

LEMMA FirstBefore ==
    ASSUME NEW v, NEW e, Extends(v, e), ThoughtsFirst(e.u)
    PROVE  ThoughtsFirst(v)
<1>1. \A i, j \in DOMAIN v.blocks : v.blocks[i] = "thinking" /\ v.blocks[j] = "thinking" => i = j
  BY DEF Extends, ThoughtsFirst
<1>2. \A i \in DOMAIN v.items : i \in DOMAIN e.u.items /\ e.u.items[i] = v.items[i]
  BY DEF Extends
<1>3. \A i, j \in DOMAIN v.items : v.items[i].k \in {"text", "wide"} /\ v.items[j].k = "reason" => j < i
  BY <1>2 DEF ThoughtsFirst
<1> QED
  BY <1>1, <1>3 DEF ThoughtsFirst

LEMMA ThoughtIsFirst ==
    ASSUME NEW v, NEW e, Follows(v, e), Extends(v, e), ThoughtsFirst(e.u), IsThought(e),
           route.kind \in {"openai", "anthropic", "gemini", "messages"}
    PROVE  ~Past(e.u) /\ Began(e.u) /\ Completes(v, e)
<1>1. CASE route.kind = "anthropic"
  <2>1. ClaudeSteps(v, e) /\ BlocksOpen(e.u) /\ ClaudeLine(e)
    BY <1>1 DEF Follows, Steps, ClaudeSide, Tells, ClaudeBrings
  <2>2. e.k \in {"redacted_thinking", "thinking_delta"}
    BY <2>1 DEF IsThought, ClaudeLine, ClaudeEvents
  <2>3. InThoughts(e.u) /\ Completes(v, e)
    BY <2>1, <2>2 DEF ClaudeSteps, InThoughts, Completes
  <2> QED
    BY <1>1, <2>1, <2>3 DEF Past, Began, BlocksOpen
<1>2. CASE route.kind # "anthropic"
  <2>1. e.t = "reason"
    BY <1>2 DEF IsThought, Follows, Steps, ClaudeSide
  <2>2. Completes(v, e) /\ New(e).k = "reason"
    BY <2>1 DEF Completes, Follows, Steps
  <2>3. ~HasText(e.u)
    BY <2>2 DEF Extends, ThoughtsFirst, HasText
  <2>4. route.kind = "openai" => e.u.st \notin Late
    BY <2>1 DEF Follows, Steps, OpenAiSteps
  <2> QED
    BY <1>2, <2>2, <2>3, <2>4 DEF Past, Began
<1> QED
  BY <1>1, <1>2

LEMMA PastStays ==
    ASSUME NEW v, NEW e, Follows(v, e), Extends(v, e), ThoughtsFirst(e.u), Past(v), Began(v),
           route.kind \in {"openai", "anthropic", "gemini", "messages"}
    PROVE  Past(e.u)
<1>1. CASE route.kind = "anthropic"
  <2>1. ClaudeSteps(v, e) /\ ClaudeBrings(v, e)
    BY <1>1 DEF Follows, Steps, ClaudeSide, Tells
  <2>2. CASE e.t = "content_block_start"
    <3> SUFFICES ASSUME e.u.blk \in Thinks PROVE FALSE
      BY <1>1 DEF Past, InThoughts
    <3>1. PICK i \in DOMAIN e.u.blocks : i \notin DOMAIN v.blocks /\ e.u.blocks[i] = "thinking"
      BY <1>1, <2>2 DEF Extends
    <3>2. PICK j \in DOMAIN v.blocks : v.blocks[j] = "thinking"
      BY <1>1 DEF Began, HasThoughts
    <3>3. j \in DOMAIN e.u.blocks /\ e.u.blocks[j] = "thinking"
      BY <3>2 DEF Extends
    <3> QED
      BY <3>1, <3>2, <3>3 DEF ThoughtsFirst
  <2>3. CASE e.t = "content_block_delta"
    BY <1>1, <2>1, <2>3 DEF Past, InThoughts, ClaudeSteps, ClaudeBrings
  <2>4. CASE e.t \notin {"content_block_start", "content_block_delta"}
    BY <1>1, <2>1, <2>4 DEF Past, InThoughts, ClaudeBrings
  <2> QED
    BY <2>2, <2>3, <2>4
<1>2. CASE route.kind # "anthropic"
  <2>1. HasText(v) => HasText(e.u)
    BY DEF HasText, Extends
  <2>2. route.kind = "openai" /\ v.st \in Late => e.u.st \in Late
    BY DEF Follows, Steps, OpenAiSteps
  <2> QED
    BY <1>2, <2>1, <2>2 DEF Past
<1> QED
  BY <1>1, <1>2

\* The item that e completes has the last number, and is a thought if e says so.
LEMMA NewIs ==
    ASSUME NEW v, NEW e, Follows(v, e), Extends(v, e), Completes(v, e)
    PROVE  /\ New(e).n \in 1 .. e.u.n /\ (Thoughtful(New(e).n, e.u) <=> IsThought(e))
           /\ New(e).k \in {"text", "wide"} => HasText(e.u)
<1>1. PICK m : m = Len(e.u.items)
  OBVIOUS
<1>2. m \in Nat /\ m \in DOMAIN e.u.items /\ e.u.items[m] = New(e) /\ m >= 1
  BY <1>1 DEF Extends
<1>3. e.u.n = m /\ \A j \in DOMAIN e.u.items : e.u.items[j].n = j
  BY <1>1 DEF Follows, Steps, Numbered
<1>4. New(e).n = m
  BY <1>2, <1>3
<1>5. Thoughtful(m, e.u) <=> New(e).k = "reason"
  BY <1>2, <1>3 DEF Thoughtful
<1> QED
  BY <1>2, <1>3, <1>4, <1>5 DEF Follows, Steps, HasText

LEMMA ShapePassed ==
    ASSUME NEW c, NEW v, NEW e, Follows(v, e), Extends(v, e), TagShape(c, v)
    PROVE  TagShape(c, e.u)
<1>1. v.n = Len(v.items) /\ e.u.n = Len(e.u.items) /\ v.n <= e.u.n /\ v.n \in Nat /\ e.u.n \in Nat
  BY DEF Follows, Steps, Numbered, Extends
<1>2. ASSUME NEW n \in 1 .. v.n PROVE n \in 1 .. e.u.n /\ (Thoughtful(n, v) <=> Thoughtful(n, e.u))
  <2>1. n \in DOMAIN v.items /\ n \in DOMAIN e.u.items /\ v.items[n] = e.u.items[n]
    BY <1>1 DEF Extends
  <2>2. (\A j \in DOMAIN v.items : v.items[j].n = j) /\ (\A j \in DOMAIN e.u.items : e.u.items[j].n = j)
    BY DEF Follows, Steps, Numbered
  <2>3. Thoughtful(n, v) <=> v.items[n].k = "reason"
    BY <2>1, <2>2 DEF Thoughtful
  <2>4. Thoughtful(n, e.u) <=> e.u.items[n].k = "reason"
    BY <2>1, <2>2 DEF Thoughtful
  <2> QED
    BY <1>1, <2>1, <2>3, <2>4
<1> QED
  BY <1>2 DEF TagShape
-----------------------------------------------------------------------------
(* A chat stream is in order                                                 *)

Sync(c, v) == route.tag => (c.tag_opened => Began(v)) /\ (c.tag_closed => Past(v))
TagOk(c, v) == (route.tag => TagShape(c, v)) /\ Sync(c, v)
DoneOk(c, v) ==
    /\ v.st # "end" => Undone(c)
    /\ ~v.failed => \A i \in DOMAIN c.out : c.out[i].f = "done" => i = Len(c.out)
    /\ route.kind = "anthropic" => (c.done <=> Has(c.out, "done"))
    /\ route.kind = "gemini" => ~Has(c.out, "done")
    /\ Has(c.out, "done") /\ ~v.failed /\ route.tag /\ c.tag_opened => c.tag_closed
ChatOk(c, v) == DoneOk(c, v) /\ TagOk(c, v)

LEMMA ChatPassed ==
    ASSUME NEW c, NEW v, NEW e, Follows(v, e), Extends(v, e), ThoughtsFirst(e.u), Bridge(c), route.kind \in Chat, ChatOk(c, v)
    PROVE  InOrder(c, e.u) /\ Sync(c, e.u)
<1>1. Undone(c)
  BY DEF ChatOk, DoneOk, Follows, Steps
<1>2. route.tag => TagShape(c, e.u)
  BY ShapePassed DEF ChatOk, TagOk
<1>3. Sync(c, e.u)
  <2> SUFFICES ASSUME route.tag PROVE (c.tag_opened => Began(e.u)) /\ (c.tag_closed => Past(e.u))
    BY DEF Sync
  <2>1. (c.tag_opened => Began(v)) /\ (c.tag_closed => Past(v)) /\ (c.tag_closed => c.tag_opened)
    BY DEF ChatOk, TagOk, Sync, TagShape
  <2>2. Began(v) => Began(e.u)
    BY DEF Began, HasThoughts, Extends
  <2>3. route.kind \in {"openai", "anthropic", "gemini", "messages"}
    BY DEF Chat
  <2>4. Began(v) /\ Past(v) => Past(e.u)
    BY <2>3, PastStays
  <2> QED
    BY <2>1, <2>2, <2>4
<1> QED
  BY <1>1, <1>2, <1>3 DEF InOrder

LEMMA QuietOk ==
    ASSUME NEW c, NEW v, InOrder(c, v), Sync(c, v)
    PROVE  ChatOk(c, v)
<1>1. ~Has(c.out, "done") /\ \A i \in DOMAIN c.out : c.out[i].f # "done"
  BY DEF InOrder, Undone, Has
<1> QED
  BY <1>1 DEF ChatOk, DoneOk, TagOk, InOrder, Undone

\* The bridge sends [DONE] at the end of frames.
LEMMA EndOk ==
    ASSUME NEW c, NEW d, NEW v, InOrder(c, v), Sync(c, v), NEW frames, IsSeq(frames), d.out = c.out \o frames,
           d.tag_opened = c.tag_opened, d.tag_closed = c.tag_closed, route.kind = "anthropic" => d.done,
           ~Has(frames, "content"), ~Has(frames, "tag"), ~Has(frames, "untag"), Has(frames, "done"),
           v.st = "end", route.kind # "gemini",
           v.failed \/ ((\A j \in DOMAIN frames : frames[j].f = "done" => j = Len(frames))
                        /\ (route.tag /\ c.tag_opened => c.tag_closed))
    PROVE  ChatOk(d, v)
<1>1. PICK s, u : s = c.out /\ u = d.out
  OBVIOUS
<1>2. Joins(u, s, frames)
  BY <1>1, JoinedIs DEF InOrder, Bridge
<1>3. Has(u, "done")
  BY <1>2, HasJoined
<1>4. route.tag => TagShape(d, v)
  <2> SUFFICES ASSUME route.tag PROVE TagShape(d, v)
    OBVIOUS
  <2>2. PICK h : h = [out |-> d.out, tag_opened |-> d.tag_opened, tag_closed |-> d.tag_closed, done |-> c.done]
    OBVIOUS
  <2>3. h.out = c.out \o frames /\ ChatFlags(h, c)
    BY <2>2 DEF ChatFlags
  <2>4. Bridge(c) /\ TagShape(c, v)
    BY DEF InOrder
  <2>5. TagShape(h, v)
    BY <2>3, <2>4, PlainShape
  <2>6. h.out = d.out /\ h.tag_opened = d.tag_opened /\ h.tag_closed = d.tag_closed
    BY <2>2
  <2> QED
    BY <2>5, <2>6 DEF TagShape
<1>5. Sync(d, v)
  BY DEF Sync
<1>6. ~v.failed => \A i \in DOMAIN u : u[i].f = "done" => i = Len(u)
  <2> SUFFICES ASSUME ~v.failed, NEW i \in DOMAIN u, u[i].f = "done" PROVE i = Len(u)
    OBVIOUS
  <2>1. \A j \in DOMAIN s : s[j].f # "done"
    BY <1>1 DEF InOrder, Undone, Has
  <2>2. PICK j \in DOMAIN frames : i = Len(s) + j /\ u[i] = frames[j]
    BY <1>2, <2>1, JoinedFrom
  <2> QED
    BY <1>2, <2>2 DEF Joins
<1> QED
  BY <1>1, <1>3, <1>4, <1>5, <1>6 DEF ChatOk, TagOk, DoneOk

LEMMA PlainBare ==
    ASSUME NEW f, NEW g, f \notin {"content", "tag", "untag", "done"}, g \notin {"content", "tag", "untag", "done"}
    PROVE  Plain(Bare(f)) /\ Plain(Bare(f) \o Bare(g))
<1>1. IsSeq(Bare(f)) /\ \A h : Has(Bare(f), h) <=> h = f
  BY BareIs
<1>2. IsSeq(Bare(f) \o Bare(g)) /\ \A h : Has(Bare(f) \o Bare(g), h) <=> h \in {f, g}
  BY TwoBareIs
<1> QED
  BY <1>1, <1>2 DEF Plain

LEMMA PlainFrame ==
    ASSUME NEW f, NEW i, NEW x, f \notin {"content", "tag", "untag", "done"}
    PROVE  Plain(<<Frame(f, i, x)>>)
<1>1. PICK y : y = Frame(f, i, x)
  OBVIOUS
<1>2. y.f = f
  BY <1>1 DEF Frame
<1>3. IsSeq(<<y>>) /\ \A g : Has(<<y>>, g) <=> g = f
  BY <1>2, OneIsSeq DEF Has
<1> QED
  BY <1>1, <1>3 DEF Plain

\* In order, and at one with the upstream.
Good(c, v) == InOrder(c, v) /\ Sync(c, v)

LEMMA GoodSame ==
    ASSUME NEW c, NEW d, NEW v, Good(c, v), Bridge(d), d.out = c.out, ChatFlags(d, c)
    PROVE  Good(d, v)
<1>1. InOrder(d, v)
  BY SameKeeps DEF Good
<1> QED
  BY <1>1 DEF Good, Sync, ChatFlags

LEMMA GoodPlain ==
    ASSUME NEW c, NEW v, Good(c, v), NEW frames, Plain(frames)
    PROVE  Good(bridge_send_chunk(c, frames), v)
<1>1. InOrder(bridge_send_chunk(c, frames), v) /\ ChatFlags(bridge_send_chunk(c, frames), c)
  BY BareKeeps DEF Good
<1> QED
  BY <1>1 DEF Good, Sync, ChatFlags

LEMMA GoodOpen ==
    ASSUME NEW c, NEW v, Good(c, v), Began(v)
    PROVE  Good(OpenTag(c), v) /\ OpenTag(c).tag_closed = c.tag_closed
<1>1. InOrder(OpenTag(c), v) /\ OpenTag(c).tag_closed = c.tag_closed
  BY OpenKeeps DEF Good
<1> QED
  BY <1>1 DEF Good, Sync

LEMMA GoodClose ==
    ASSUME NEW c, NEW v, Good(c, v), Past(v)
    PROVE  /\ Good(CloseTag(c), v) /\ (route.tag /\ c.tag_opened => CloseTag(c).tag_closed)
           /\ CloseTag(c).tag_opened = c.tag_opened /\ CloseTag(c).done = c.done
<1>1. PICK d : d = CloseTag(c)
  OBVIOUS
<1>2. /\ Bridge(d) /\ (route.tag => TagShape(d, v)) /\ Undone(d) /\ d.tag_opened = c.tag_opened
      /\ route.tag /\ c.tag_opened => d.tag_closed
      /\ d.done = c.done
  BY <1>1, CloseKeeps DEF Good, InOrder
<1> QED
  BY <1>1, <1>2 DEF Good, Sync, InOrder

\* The item of an event that completes one.
LEMMA GoodThought ==
    ASSUME NEW c, NEW v, NEW e, Follows(v, e), Extends(v, e), ThoughtsFirst(e.u), Good(c, e.u), IsThought(e), route.kind \in Chat
    PROVE  Good(Thought(c, New(e)), e.u)
<1>1. route.kind \in {"openai", "anthropic", "gemini", "messages"}
  BY DEF Chat
<1>2. ~Past(e.u) /\ Began(e.u) /\ Completes(v, e)
  BY <1>1, ThoughtIsFirst
<1>3. PICK x, u : x = New(e) /\ u = e.u
  OBVIOUS
<1>4. x.n \in 1 .. u.n /\ Thoughtful(x.n, u)
  BY <1>2, <1>3, NewIs
<1>5. InOrder(c, u) /\ (route.tag => ~c.tag_closed)
  BY <1>2, <1>3 DEF Good, Sync
<1>6. InOrder(Thought(c, x), u) /\ Thought(c, x).tag_closed = c.tag_closed
  BY <1>4, <1>5, ThoughtKeeps
<1> QED
  BY <1>2, <1>3, <1>5, <1>6 DEF Good, Sync

LEMMA GoodText ==
    ASSUME NEW c, NEW v, NEW e, Follows(v, e), Extends(v, e), Good(c, e.u), ~IsThought(e), Completes(v, e), Past(e.u)
    PROVE  Good(Text(c, New(e)), e.u)
<1>1. PICK x, u : x = New(e) /\ u = e.u
  OBVIOUS
<1>2. x.n \in 1 .. u.n /\ ~Thoughtful(x.n, u)
  BY <1>1, NewIs
<1>3. InOrder(c, u)
  BY <1>1 DEF Good
<1>4. InOrder(Text(c, x), u) /\ Text(c, x).tag_opened = c.tag_opened
  BY <1>2, <1>3, TextKeeps
<1> QED
  BY <1>1, <1>4 DEF Good, Sync
LEMMA GoodTok ==
    ASSUME NEW c, NEW v, Good(c, v), NEW w
    PROVE  Good([c EXCEPT !.tok = w], v) /\ Good([c EXCEPT !.event = w], v)
<1>1. PICK d : d = [c EXCEPT !.tok = w]
  OBVIOUS
<1>2. PICK g : g = [c EXCEPT !.event = w]
  OBVIOUS
<1>3. Bridge(c)
  BY DEF Good, InOrder
<1>4. Bridge(d) /\ d.out = c.out /\ ChatFlags(d, c)
  BY <1>1, <1>3 DEF Bridge, Fields, ChatFlags
<1>5. Bridge(g) /\ g.out = c.out /\ ChatFlags(g, c)
  BY <1>2, <1>3 DEF Bridge, Fields, ChatFlags
<1> QED
  BY <1>1, <1>2, <1>4, <1>5, GoodSame

\* [DONE] alone.
LEMMA DoneSent ==
    ASSUME NEW c, NEW v, Good(c, v), v.st = "end", route.kind = "openai", route.tag /\ c.tag_opened => c.tag_closed
    PROVE  ChatOk(bridge_send_chunk(c, Bare("done")), v)
<1>1. PICK d, t : d = bridge_send_chunk(c, Bare("done")) /\ t = Bare("done")
  OBVIOUS
<1>2. IsSeq(t) /\ Has(t, "done") /\ ~Has(t, "content") /\ ~Has(t, "tag") /\ ~Has(t, "untag")
  BY <1>1, BareIs
<1>3. \A j \in DOMAIN t : t[j].f = "done" => j = Len(t)
  BY <1>1 DEF Bare
<1>4. Bridge(d) /\ d.out = c.out \o t /\ ChatFlags(d, c)
  BY <1>1, <1>2, ChunkIs DEF Good, InOrder
<1> QED
  BY <1>1, <1>2, <1>3, <1>4, EndOk DEF ChatFlags, Good

LEMMA OpenAiOk ==
    ASSUME NEW c, NEW v, NEW e, Follows(v, e), Extends(v, e), ThoughtsFirst(e.u), Good(c, e.u), route.kind = "openai"
    PROVE  ChatOk(openai_stream_process_line(c, e), e.u)
<1> DEFINE d == IF e.t = "usage" THEN [c EXCEPT !.tok = {"in", "out"}] ELSE c
<1>1. Good(d, e.u)
  BY GoodTok
<1> HIDE DEF d
<1>2. e.t \in {"hello", "reason", "text", "wide", "tool", "finish", "usage", "done"} /\ OpenAiSteps(v, e) /\ route.kind \in Chat
  BY DEF Follows, Tells, OpenAiBrings, Steps, Chat
<1>3. ASSUME NEW g, Good(g, e.u) PROVE ChatOk(g, e.u)
  BY <1>3, QuietOk DEF Good
<1>4. CASE e.t = "reason"
  <2>1. Good(Thought(d, New(e)), e.u)
    BY <1>1, <1>2, <1>4, GoodThought DEF IsThought
  <2>2. openai_stream_process_line(c, e) = Thought(d, New(e))
    BY <1>4 DEF openai_stream_process_line, d
  <2> QED
    BY <1>3, <2>1, <2>2
<1>5. CASE e.t \in {"text", "wide"}
  <2>1. Completes(v, e) /\ New(e).k \in {"text", "wide"} /\ ~IsThought(e)
    BY <1>5 DEF Completes, Follows, Steps
  <2>2. Past(e.u)
    BY <2>1, NewIs DEF Past
  <2>3. Good(Text(d, New(e)), e.u)
    BY <1>1, <2>1, <2>2, GoodText
  <2>4. openai_stream_process_line(c, e) = Text(d, New(e))
    BY <1>5 DEF openai_stream_process_line, d
  <2> QED
    BY <1>3, <2>3, <2>4
<1>6. CASE e.t = "done" /\ route.tag
  <2>1. e.u.st = "end" /\ Past(e.u)
    BY <1>2, <1>6 DEF OpenAiSteps, Past, Late
  <2>2. PICK g : g = CloseTag(d)
    OBVIOUS
  <2>3. Good(g, e.u) /\ (route.tag /\ g.tag_opened => g.tag_closed)
    BY <1>1, <2>1, <2>2, GoodClose
  <2>4. openai_stream_process_line(c, e) = bridge_send_chunk(g, Bare("done"))
    BY <1>6, <2>2 DEF openai_stream_process_line, d
  <2> QED
    BY <2>1, <2>3, <2>4, DoneSent
<1>7. CASE e.t = "done" /\ ~route.tag
  <2>1. e.u.st = "end"
    BY <1>2, <1>7 DEF OpenAiSteps
  <2>2. openai_stream_process_line(c, e) = bridge_send_chunk(d, Bare("done"))
    BY <1>7 DEF openai_stream_process_line, d
  <2> QED
    BY <1>1, <1>7, <2>1, <2>2, DoneSent
<1>8. CASE e.t = "finish" /\ route.tag
  <2>1. Past(e.u)
    BY <1>2, <1>8 DEF OpenAiSteps, Past
  <2>2. Good(CloseTag(d), e.u)
    BY <1>1, <2>1, GoodClose
  <2>3. Good(bridge_send_chunk(CloseTag(d), Bare("finish")), e.u)
    BY <2>2, PlainBare, GoodPlain
  <2>4. openai_stream_process_line(c, e) = bridge_send_chunk(CloseTag(d), Bare("finish"))
    BY <1>8 DEF openai_stream_process_line, d
  <2> QED
    BY <1>3, <2>3, <2>4
<1>9. CASE e.t \in {"hello", "usage", "tool"} /\ route.tag
  <2>1. openai_stream_process_line(c, e) = d
    BY <1>9 DEF openai_stream_process_line, d
  <2> QED
    BY <1>1, <1>3, <2>1
<1>10. CASE e.t = "tool" /\ ~route.tag
  <2>1. PICK f : f = e.t
    OBVIOUS
  <2>2. Plain(<<Frame(f, 0, New(e))>>)
    BY <1>10, <2>1, PlainFrame
  <2>3. openai_stream_process_line(c, e) = bridge_send_chunk(d, <<Frame(f, 0, New(e))>>)
    BY <1>10, <2>1 DEF openai_stream_process_line, d
  <2> QED
    BY <1>1, <1>3, <2>2, <2>3, GoodPlain
<1>11. CASE e.t \in {"hello", "usage", "finish"} /\ ~route.tag
  <2>1. PICK f : f = e.t
    OBVIOUS
  <2>2. Plain(Bare(f))
    BY <1>11, <2>1, PlainBare
  <2>3. openai_stream_process_line(c, e) = bridge_send_chunk(d, Bare(f))
    BY <1>11, <2>1 DEF openai_stream_process_line, d
  <2> QED
    BY <1>1, <1>3, <2>2, <2>3, GoodPlain
<1> QED
  BY <1>2, <1>4, <1>5, <1>6, <1>7, <1>8, <1>9, <1>10, <1>11

LEMMA GeminiOk ==
    ASSUME NEW c, NEW v, NEW e, Follows(v, e), Extends(v, e), ThoughtsFirst(e.u), Good(c, e.u), route.kind = "gemini"
    PROVE  ChatOk(gemini_bridge_process_line(c, e), e.u)
<1> DEFINE d == [c EXCEPT !.tok = e.u.tok]
<1>1. Good(d, e.u)
  BY GoodTok
<1> HIDE DEF d
<1>2. e.t \in {"reason", "text", "tool", "finish"} /\ route.kind \in Chat
  BY DEF Follows, Tells, Chat
<1>3. ASSUME NEW g, Good(g, e.u) PROVE ChatOk(g, e.u)
  BY <1>3, QuietOk DEF Good
<1>4. CASE e.t = "reason"
  <2>1. Good(Thought(d, New(e)), e.u)
    BY <1>1, <1>2, <1>4, GoodThought DEF IsThought
  <2>2. gemini_bridge_process_line(c, e) = Thought(d, New(e))
    BY <1>4 DEF gemini_bridge_process_line, d
  <2> QED
    BY <1>3, <2>1, <2>2
<1>5. CASE e.t = "text"
  <2>1. Completes(v, e) /\ New(e).k \in {"text", "wide"} /\ ~IsThought(e)
    BY <1>5 DEF Completes, Follows, Steps, ClaudeSide, IsThought
  <2>2. Past(e.u)
    BY <2>1, NewIs DEF Past
  <2>3. Good(Text(d, New(e)), e.u)
    BY <1>1, <2>1, <2>2, GoodText
  <2>4. gemini_bridge_process_line(c, e) = Text(d, New(e))
    BY <1>5 DEF gemini_bridge_process_line, d
  <2> QED
    BY <1>3, <2>3, <2>4
<1>6. CASE e.t = "tool"
  <2>1. PICK f : f = "tool"
    OBVIOUS
  <2>2. Plain(<<Frame(f, 0, New(e))>>)
    BY <2>1, PlainFrame
  <2>3. gemini_bridge_process_line(c, e) = bridge_send_chunk(d, <<Frame(f, 0, New(e))>>)
    BY <1>6, <2>1 DEF gemini_bridge_process_line, d
  <2> QED
    BY <1>1, <1>3, <2>2, <2>3, GoodPlain
<1>7. CASE e.t = "finish"
  <2>1. gemini_bridge_process_line(c, e) = d
    BY <1>7 DEF gemini_bridge_process_line, d
  <2> QED
    BY <1>1, <1>3, <2>1
<1> QED
  BY <1>2, <1>4, <1>5, <1>6, <1>7

\* The flags of the blocks that the Anthropic bridge reads.
LEMMA GoodTurned ==
    ASSUME NEW c, NEW v, Good(c, v), NEW w, NEW z, NEW n
    PROVE  /\ Good([c EXCEPT !.in_thinking = w, !.in_tool = z], v)
           /\ Good([c EXCEPT !.in_thinking = w], v)
           /\ Good([c EXCEPT !.in_tool = w, !.tool_index = n], v)
<1>1. PICK d : d = [c EXCEPT !.in_thinking = w, !.in_tool = z]
  OBVIOUS
<1>2. PICK g : g = [c EXCEPT !.in_thinking = w]
  OBVIOUS
<1>3. PICK h : h = [c EXCEPT !.in_tool = w, !.tool_index = n]
  OBVIOUS
<1>4. Bridge(c)
  BY DEF Good, InOrder
<1>5. Bridge(d) /\ d.out = c.out /\ ChatFlags(d, c)
  BY <1>1, <1>4 DEF Bridge, Fields, ChatFlags
<1>6. Bridge(g) /\ g.out = c.out /\ ChatFlags(g, c)
  BY <1>2, <1>4 DEF Bridge, Fields, ChatFlags
<1>7. Bridge(h) /\ h.out = c.out /\ ChatFlags(h, c)
  BY <1>3, <1>4 DEF Bridge, Fields, ChatFlags
<1> QED
  BY <1>1, <1>2, <1>3, <1>5, <1>6, <1>7, GoodSame

LEMMA BlockStartOk ==
    ASSUME NEW c, NEW v, NEW e, Follows(v, e), Extends(v, e), ThoughtsFirst(e.u), Good(c, e.u), route.kind = "anthropic",
           e.t = "content_block_start"
    PROVE  Good(content_block_start(c, e), e.u)
<1>1. ClaudeSteps(v, e) /\ ClaudeLine(e) /\ BlocksOpen(e.u) /\ route.kind \in Chat
  BY DEF Follows, Steps, ClaudeSide, Tells, ClaudeBrings, Chat
<1>2. e.k \in {"thinking", "redacted_thinking", "text", "tool_use"}
  BY <1>1 DEF ClaudeLine
<1>3. CASE e.k \in {"thinking", "redacted_thinking"}
  <2>1. Began(e.u)
    BY <1>1, <1>3 DEF ClaudeSteps, BlocksOpen, InThoughts, Began
  <2>2. PICK g : g = [c EXCEPT !.in_thinking = TRUE, !.in_tool = FALSE]
    OBVIOUS
  <2>3. Good(g, e.u)
    BY <2>2, GoodTurned
  <2>4. Good(OpenTag(g), e.u)
    BY <2>1, <2>3, GoodOpen
  <2>5. CASE e.k = "thinking"
    <3>1. content_block_start(c, e) = OpenTag(g)
      BY <2>2, <2>5 DEF content_block_start
    <3> QED
      BY <2>4, <3>1
  <2>6. CASE e.k = "redacted_thinking"
    <3>1. content_block_start(c, e) = Thought(OpenTag(g), New(e))
      BY <2>2, <2>6 DEF content_block_start
    <3>2. IsThought(e)
      BY <2>6 DEF IsThought
    <3>3. Good(Thought(OpenTag(g), New(e)), e.u)
      BY <1>1, <2>4, <3>2, GoodThought
    <3> QED
      BY <3>1, <3>3
  <2> QED
    BY <1>3, <2>5, <2>6
<1>4. CASE e.k = "text"
  <2>1. Past(e.u)
    BY <1>1, <1>4 DEF ClaudeSteps, InThoughts, Past
  <2>2. PICK g : g = [c EXCEPT !.in_thinking = FALSE, !.in_tool = FALSE]
    OBVIOUS
  <2>3. Good(g, e.u)
    BY <2>2, GoodTurned
  <2>4. Good(CloseTag(g), e.u)
    BY <2>1, <2>3, GoodClose
  <2>5. content_block_start(c, e) = CloseTag(g)
    BY <1>4, <2>2 DEF content_block_start
  <2> QED
    BY <2>4, <2>5
<1>5. CASE e.k = "tool_use"
  <2>1. PICK g : g = [c EXCEPT !.in_thinking = FALSE, !.in_tool = TRUE]
    OBVIOUS
  <2>2. Good(g, e.u)
    BY <2>1, GoodTurned
  <2>3. content_block_start(c, e) = g
    BY <1>5, <2>1 DEF content_block_start
  <2> QED
    BY <2>2, <2>3
<1> QED
  BY <1>2, <1>3, <1>4, <1>5

LEMMA BlockDeltaOk ==
    ASSUME NEW c, NEW v, NEW e, Follows(v, e), Extends(v, e), ThoughtsFirst(e.u), Good(c, e.u), route.kind = "anthropic",
           e.t = "content_block_delta"
    PROVE  Good(content_block_delta(c, e), e.u)
<1>1. ClaudeSteps(v, e) /\ ClaudeLine(e) /\ route.kind \in Chat
  BY DEF Follows, Steps, ClaudeSide, Tells, ClaudeBrings, Chat
<1>2. e.k \in {"signature_delta", "thinking_delta", "text_delta", "input_json_delta"}
  BY <1>1 DEF ClaudeLine
<1>3. CASE e.k = "signature_delta"
  <2>1. Good(bridge_send_chunk(c, Bare("signature")), e.u)
    BY PlainBare, GoodPlain
  <2>2. content_block_delta(c, e) = c \/ content_block_delta(c, e) = bridge_send_chunk(c, Bare("signature"))
    BY <1>3 DEF content_block_delta
  <2> QED
    BY <2>1, <2>2
<1>4. CASE e.k = "thinking_delta"
  <2>1. Good(Thought(c, New(e)), e.u)
    BY <1>1, <1>4, GoodThought DEF IsThought
  <2>2. content_block_delta(c, e) = Thought(c, New(e))
    BY <1>4 DEF content_block_delta
  <2> QED
    BY <2>1, <2>2
<1>5. CASE e.k = "text_delta"
  <2>1. ~IsThought(e) /\ Completes(v, e) /\ Past(e.u)
    BY <1>1, <1>5 DEF ClaudeSteps, InThoughts, Past, IsThought, Completes
  <2>2. Good(Text(c, New(e)), e.u)
    BY <2>1, GoodText
  <2>3. content_block_delta(c, e) = Text(c, New(e))
    BY <1>5 DEF content_block_delta
  <2> QED
    BY <2>2, <2>3
<1>6. CASE e.k = "input_json_delta"
  <2>1. content_block_delta(c, e) = c
    BY <1>6 DEF content_block_delta
  <2> QED
    BY <2>1
<1> QED
  BY <1>2, <1>3, <1>4, <1>5, <1>6

LEMMA BlockStopOk ==
    ASSUME NEW c, NEW v, NEW e, Follows(v, e), Good(c, e.u), route.kind = "anthropic", e.t = "content_block_stop"
    PROVE  Good(content_block_stop(c, e), e.u)
<1>1. ClaudeBrings(v, e)
  BY DEF Follows, ClaudeSide, Tells
<1>2. Past(e.u)
  BY <1>1 DEF ClaudeBrings, InThoughts, Past
<1>3. PICK g : g = [c EXCEPT !.in_thinking = FALSE]
  OBVIOUS
<1>4. Good(CloseTag(g), e.u)
  BY <1>2, <1>3, GoodTurned, GoodClose
<1>5. PICK d : d = IF c.in_thinking THEN CloseTag(g) ELSE c
  OBVIOUS
<1>6. Good(d, e.u)
  BY <1>4, <1>5
<1>7. PICK h : h = [d EXCEPT !.in_tool = FALSE, !.tool_index = @ + 1]
  OBVIOUS
<1>8. Good(h, e.u)
  <2>1. PICK n : n = d.tool_index + 1
    OBVIOUS
  <2>2. h = [d EXCEPT !.in_tool = FALSE, !.tool_index = n]
    BY <1>6, <1>7, <2>1 DEF Good, InOrder, Bridge, Fields
  <2> QED
    BY <1>6, <2>2, GoodTurned
<1>9. Good(bridge_send_chunk(h, <<Frame("tool", d.tool_index, New(e))>>), e.u)
  BY <1>8, PlainFrame, GoodPlain
<1>10. content_block_stop(c, e) = IF d.in_tool THEN bridge_send_chunk(h, <<Frame("tool", d.tool_index, New(e))>>) ELSE d
  BY <1>3, <1>5, <1>7 DEF content_block_stop
<1> QED
  BY <1>6, <1>9, <1>10

LEMMA AnthropicOk ==
    ASSUME NEW c, NEW v, NEW e, Follows(v, e), Extends(v, e), ThoughtsFirst(e.u), Good(c, e.u), route.kind = "anthropic",
           e.l = "data"
    PROVE  ChatOk(bridge_process_line(c, e), e.u)
<1>1. ClaudeSteps(v, e) /\ e.t \in ClaudeEvents /\ ClaudeBrings(v, e)
  BY DEF Follows, Steps, ClaudeSide, Tells, ClaudeBrings, ClaudeLine
<1>2. ASSUME NEW g, Good(g, e.u) PROVE ChatOk(g, e.u)
  BY <1>2, QuietOk DEF Good
<1>3. CASE c.event # e.t
  <2>1. bridge_process_line(c, e) = c
    BY <1>3 DEF bridge_process_line
  <2> QED
    BY <1>2, <2>1
<1>4. ASSUME c.event = e.t PROVE ChatOk(bridge_process_line(c, e), e.u)
  <2>1. CASE e.t = "message_start"
    <3>1. PICK g, w : w = c.tok \cup {"in"} /\ g = [c EXCEPT !.tok = w]
      OBVIOUS
    <3>2. Good(bridge_send_chunk(g, Bare("role")), e.u)
      BY <3>1, GoodTok, PlainBare, GoodPlain
    <3>3. g = [c EXCEPT !.tok = @ \cup {"in"}]
      BY <3>1 DEF Good, InOrder, Bridge, Fields
    <3>4. bridge_process_line(c, e) = bridge_send_chunk(g, Bare("role"))
      BY <1>4, <2>1, <3>3 DEF bridge_process_line
    <3> QED
      BY <1>2, <3>2, <3>4
  <2>2. CASE e.t = "content_block_start"
    <3>1. bridge_process_line(c, e) = content_block_start(c, e)
      BY <1>4, <2>2 DEF bridge_process_line
    <3> QED
      BY <1>2, <2>2, <3>1, BlockStartOk
  <2>3. CASE e.t = "content_block_delta"
    <3>1. bridge_process_line(c, e) = content_block_delta(c, e)
      BY <1>4, <2>3 DEF bridge_process_line
    <3> QED
      BY <1>2, <2>3, <3>1, BlockDeltaOk
  <2>4. CASE e.t = "content_block_stop"
    <3>1. bridge_process_line(c, e) = content_block_stop(c, e)
      BY <1>4, <2>4 DEF bridge_process_line
    <3> QED
      BY <1>2, <2>4, <3>1, BlockStopOk
  <2>5. CASE e.t = "message_delta"
    <3>1. PICK g, w : w = c.tok \cup {"out"} /\ g = [c EXCEPT !.tok = w]
      OBVIOUS
    <3>2. Good(bridge_send_chunk(g, Bare("finish") \o Bare("usage")), e.u)
      BY <3>1, GoodTok, PlainBare, GoodPlain
    <3>3. g = [c EXCEPT !.tok = @ \cup {"out"}]
      BY <3>1 DEF Good, InOrder, Bridge, Fields
    <3>4. bridge_process_line(c, e) = bridge_send_chunk(g, Bare("finish") \o Bare("usage"))
      BY <1>4, <2>5, <3>3 DEF bridge_process_line, message_delta
    <3> QED
      BY <1>2, <3>2, <3>4
  <2>6. CASE e.t = "message_stop"
    <3>1. Past(e.u) /\ e.u.st = "end"
      BY <1>1, <2>6 DEF ClaudeSteps, Past, InThoughts
    <3>2. PICK g : g = CloseTag(c)
      OBVIOUS
    <3>3. Good(g, e.u) /\ (route.tag /\ g.tag_opened => g.tag_closed)
      BY <3>1, <3>2, GoodClose
    <3>4. PICK h : h = [g EXCEPT !.done = TRUE]
      OBVIOUS
    <3>5. Bridge(h) /\ h.out = g.out /\ h.tag_opened = g.tag_opened /\ h.tag_closed = g.tag_closed /\ h.done
      BY <3>3, <3>4 DEF Good, InOrder, Bridge, Fields
    <3>6. PICK d, t : d = bridge_send_chunk(h, t) /\ t = Bare("done")
      OBVIOUS
    <3>7. IsSeq(t) /\ Has(t, "done") /\ ~Has(t, "content") /\ ~Has(t, "tag") /\ ~Has(t, "untag")
      BY <3>6, BareIs
    <3>8. \A j \in DOMAIN t : t[j].f = "done" => j = Len(t)
      BY <3>6 DEF Bare
    <3>9. d.out = h.out \o t /\ ChatFlags(d, h)
      BY <3>5, <3>6, <3>7, ChunkIs
    <3>10. d.out = g.out \o t /\ d.tag_opened = g.tag_opened /\ d.tag_closed = g.tag_closed /\ d.done
      BY <3>5, <3>9 DEF ChatFlags
    <3>11. ChatOk(d, e.u)
      BY <3>1, <3>3, <3>7, <3>8, <3>10, EndOk DEF Good
    <3>12. bridge_process_line(c, e) = d
      BY <1>4, <2>6, <3>2, <3>4, <3>6 DEF bridge_process_line, message_stop
    <3> QED
      BY <3>11, <3>12
  <2>7. CASE e.t = "error"
    <3>1. e.u.failed /\ e.u.st = "end"
      BY <1>1, <2>7 DEF ClaudeSteps
    <3>4. PICK h : h = [c EXCEPT !.done = TRUE]
      OBVIOUS
    <3>5. Bridge(h) /\ h.out = c.out /\ h.tag_opened = c.tag_opened /\ h.tag_closed = c.tag_closed /\ h.done
      BY <3>4 DEF Good, InOrder, Bridge, Fields
    <3>6. PICK d, t : d = bridge_send_chunk(h, t) /\ t = Bare("error") \o Bare("done")
      OBVIOUS
    <3>7. IsSeq(t) /\ Has(t, "done") /\ ~Has(t, "content") /\ ~Has(t, "tag") /\ ~Has(t, "untag")
      BY <3>6, TwoBareIs
    <3>9. d.out = h.out \o t /\ ChatFlags(d, h)
      BY <3>5, <3>6, <3>7, ChunkIs
    <3>10. d.out = c.out \o t /\ d.tag_opened = c.tag_opened /\ d.tag_closed = c.tag_closed /\ d.done
      BY <3>5, <3>9 DEF ChatFlags
    <3>11. ChatOk(d, e.u)
      BY <3>1, <3>7, <3>10, EndOk DEF Good
    <3>12. bridge_process_line(c, e) = d
      BY <1>4, <2>7, <3>4, <3>6 DEF bridge_process_line, error_event
    <3> QED
      BY <3>11, <3>12
  <2> QED
    BY <1>1, <2>1, <2>2, <2>3, <2>4, <2>5, <2>6, <2>7 DEF ClaudeEvents
<1> QED
  BY <1>3, <1>4
-----------------------------------------------------------------------------
(* A message's blocks are in order                                           *)

At(out, f, i) == {p \in DOMAIN out : out[p].f = f /\ out[p].i = i}
Behind(B, A) == \A y \in B : \E x \in A : x < y
Ahead(A, B) == \A x \in A : \A y \in B : x < y

\* The blocks of the frames sent so far, the open ones included.
Blocks(out) ==
    /\ out # <<>> => out[1].f = "message_start"
    /\ \A p \in DOMAIN out : out[p].f \in {"thinking", "text"} => out[p].i \in {0, 1}
    /\ \A i \in {0, 1} : AtMostOne(At(out, "block_start", i)) /\ AtMostOne(At(out, "block_stop", i))
    /\ \A i \in {0, 1}, f \in {"thinking", "text"} :
         Behind(At(out, f, i), At(out, "block_start", i)) /\ Ahead(At(out, f, i), At(out, "block_stop", i))
    /\ Behind(At(out, "block_start", 1), At(out, "block_stop", 0))

\* How they follow from the flags of the bridge.
BlocksBy(c) ==
    /\ At(c.out, "thinking", 1) = {} /\ At(c.out, "block_stop", 1) = {}
    /\ At(c.out, "block_start", 0) # {} <=> c.think_started \/ c.text_started
    /\ At(c.out, "block_start", 1) # {} <=> c.think_started /\ c.text_started
    /\ At(c.out, "block_stop", 0) # {} <=> c.think_closed
    /\ c.think_closed => c.think_started
    /\ c.think_started /\ c.text_started => c.think_closed
    /\ c.in_thinking <=> c.think_started /\ ~c.think_closed
    /\ At(c.out, "text", 0) # {} => ~c.think_started
MsgShape(c) ==
    /\ Blocks(c.out) /\ BlocksBy(c)
    /\ c.started <=> c.out # <<>>
    /\ c.headers => c.out # <<>>

LEMMA AtJoined ==
    ASSUME NEW u, NEW s, NEW t, Joins(u, s, t), NEW f, NEW i
    PROVE  /\ At(u, f, i) = At(s, f, i) \cup {Len(s) + p : p \in At(t, f, i)}
           /\ At(s, f, i) \subseteq 1 .. Len(s)
<1>1. ASSUME NEW p \in At(u, f, i) PROVE p \in At(s, f, i) \cup {Len(s) + q : q \in At(t, f, i)}
  <2>1. p \in DOMAIN u /\ u[p].f = f /\ u[p].i = i
    BY DEF At
  <2>2. CASE p \in DOMAIN s /\ u[p] = s[p]
    BY <2>1, <2>2 DEF At
  <2>3. CASE \E j \in DOMAIN t : p = Len(s) + j /\ u[p] = t[j]
    BY <2>1, <2>3 DEF At
  <2> QED
    BY <2>1, <2>2, <2>3, JoinedFrom
<1>2. ASSUME NEW p \in At(s, f, i) PROVE p \in At(u, f, i)
  BY DEF At, Joins
<1>3. ASSUME NEW q \in At(t, f, i) PROVE Len(s) + q \in At(u, f, i)
  <2>1. q \in 1 .. Len(t) /\ t[q].f = f /\ t[q].i = i
    BY DEF At, Joins
  <2>2. Len(s) + q \in DOMAIN u /\ u[Len(s) + q] = t[q]
    BY <2>1 DEF Joins
  <2> QED
    BY <2>1, <2>2 DEF At
<1>4. At(s, f, i) \subseteq 1 .. Len(s)
  BY DEF At, Joins
<1> QED
  BY <1>1, <1>2, <1>3, <1>4

\* One more frame x.
OneMore(u, s, x) ==
    /\ Len(s) \in Nat /\ u # <<>> /\ Len(u) = Len(s) + 1 /\ u[Len(u)] = x
    /\ s # <<>> => u[1] = s[1]
    /\ s = <<>> => u[1] = x
    /\ \A f, i : At(s, f, i) \subseteq 1 .. Len(s)
    /\ \A f, i : At(u, f, i) = IF x.f = f /\ x.i = i THEN At(s, f, i) \cup {Len(s) + 1} ELSE At(s, f, i)

LEMMA OneMoreIs ==
    ASSUME NEW s, IsSeq(s), NEW x
    PROVE  OneMore(s \o <<x>>, s, x)
<1>1. PICK u, t : u = s \o <<x>> /\ t = <<x>>
  OBVIOUS
<1>2. Joins(u, s, t) /\ Len(t) = 1 /\ t[1] = x /\ DOMAIN t = {1}
  BY <1>1, OneJoined
<1>3. Len(s) \in Nat /\ Len(u) = Len(s) + 1 /\ u[Len(u)] = x /\ DOMAIN u = 1 .. Len(s) + 1
  BY <1>2 DEF Joins
<1>4. u # <<>>
  BY <1>3
<1>5. s # <<>> => u[1] = s[1]
  <2>1. s # <<>> => Len(s) >= 1
    <3>1. PICK S : s \in Seq(S)
      BY DEF IsSeq
    <3> QED
      BY <1>3, <3>1, EmptySeq
  <2> QED
    BY <1>2, <1>3, <2>1 DEF Joins
<1>6. s = <<>> => u[1] = x
  BY <1>3
<1>7. ASSUME NEW f, NEW i
      PROVE  /\ At(s, f, i) \subseteq 1 .. Len(s)
             /\ At(u, f, i) = IF x.f = f /\ x.i = i THEN At(s, f, i) \cup {Len(s) + 1} ELSE At(s, f, i)
  <2>1. At(u, f, i) = At(s, f, i) \cup {Len(s) + p : p \in At(t, f, i)} /\ At(s, f, i) \subseteq 1 .. Len(s)
    BY <1>2, AtJoined
  <2>2. At(t, f, i) = IF x.f = f /\ x.i = i THEN {1} ELSE {}
    BY <1>2 DEF At
  <2> QED
    BY <2>1, <2>2
<1> QED
  BY <1>1, <1>3, <1>4, <1>5, <1>6, <1>7 DEF OneMore

LEMMA IndexedFrames ==
    ASSUME NEW s, NEW u, IsSeq(s), NEW x, u = s \o <<x>>, \A p \in DOMAIN s : s[p].f \in {"thinking", "text"} => s[p].i \in {0, 1},
           x.f \in {"thinking", "text"} => x.i \in {0, 1}
    PROVE  \A p \in DOMAIN u : u[p].f \in {"thinking", "text"} => u[p].i \in {0, 1}
<1>1. PICK t : t = <<x>>
  OBVIOUS
<1>2. Joins(u, s, t) /\ t[1] = x /\ DOMAIN t = {1}
  BY <1>1, OneJoined
<1> QED
  BY <1>2, JoinedFrom

\* A frame that is not about blocks.
LEMMA BareBlocks ==
    ASSUME NEW s, IsSeq(s), Blocks(s), NEW f, f \notin {"thinking", "text", "block_start", "block_stop"},
           s # <<>> \/ f = "message_start"
    PROVE  LET u == s \o Bare(f)
           IN  /\ Blocks(u) /\ IsSeq(u) /\ u # <<>> /\ Last(u).f = f
               /\ \A i : \A g \in {"thinking", "text", "block_start", "block_stop"} : At(u, g, i) = At(s, g, i)
<1>1. PICK x : Bare(f) = <<x>> /\ x.f = f
  BY BareIs
<1>2. PICK u : u = s \o <<x>>
  OBVIOUS
<1>3. OneMore(u, s, x) /\ IsSeq(u)
  BY <1>2, OneMoreIs, OneJoined
<1>4. \A i : \A g \in {"thinking", "text", "block_start", "block_stop"} : At(u, g, i) = At(s, g, i)
  BY <1>1, <1>3 DEF OneMore
<1>5. u # <<>> /\ u[1].f = "message_start" /\ Last(u).f = f
  BY <1>1, <1>3 DEF OneMore, Blocks, Last
<1>6. \A p \in DOMAIN u : u[p].f \in {"thinking", "text"} => u[p].i \in {0, 1}
  BY <1>1, <1>2, IndexedFrames DEF Blocks
<1>7. Blocks(u)
  BY <1>4, <1>5, <1>6 DEF Blocks
<1> QED
  BY <1>1, <1>2, <1>3, <1>4, <1>5, <1>7

\* The seven sets of frames that the bridge's flags tell about.
BlockOrder(start0, start1, stop0, thoughts, texts0, texts1) ==
    /\ AtMostOne(start0) /\ AtMostOne(start1) /\ AtMostOne(stop0)
    /\ Behind(thoughts, start0) /\ Ahead(thoughts, stop0)
    /\ Behind(texts0, start0) /\ Ahead(texts0, stop0) /\ Behind(texts1, start1)
    /\ Behind(start1, stop0)

LEMMA BlocksAre ==
    ASSUME NEW out, At(out, "thinking", 1) = {}, At(out, "block_stop", 1) = {}
    PROVE  Blocks(out) <=>
             /\ out # <<>> => out[1].f = "message_start"
             /\ \A p \in DOMAIN out : out[p].f \in {"thinking", "text"} => out[p].i \in {0, 1}
             /\ BlockOrder(At(out, "block_start", 0), At(out, "block_start", 1), At(out, "block_stop", 0),
                           At(out, "thinking", 0), At(out, "text", 0), At(out, "text", 1))
<1> DEFINE start0 == At(out, "block_start", 0)
           start1 == At(out, "block_start", 1)
           stop0 == At(out, "block_stop", 0)
           stop1 == At(out, "block_stop", 1)
           thoughts == At(out, "thinking", 0)
           thoughts1 == At(out, "thinking", 1)
           texts0 == At(out, "text", 0)
           texts1 == At(out, "text", 1)
<1>1. (\A i \in {0, 1} : AtMostOne(At(out, "block_start", i)) /\ AtMostOne(At(out, "block_stop", i)))
        <=> AtMostOne(start0) /\ AtMostOne(start1) /\ AtMostOne(stop0) /\ AtMostOne(stop1)
  OBVIOUS
<1>2. (\A i \in {0, 1}, f \in {"thinking", "text"} :
         Behind(At(out, f, i), At(out, "block_start", i)) /\ Ahead(At(out, f, i), At(out, "block_stop", i)))
        <=> /\ Behind(thoughts, start0) /\ Ahead(thoughts, stop0) /\ Behind(thoughts1, start1) /\ Ahead(thoughts1, stop1)
            /\ Behind(texts0, start0) /\ Ahead(texts0, stop0) /\ Behind(texts1, start1) /\ Ahead(texts1, stop1)
  OBVIOUS
<1>3. stop1 = {} /\ thoughts1 = {}
  OBVIOUS
<1> HIDE DEF start0, start1, stop0, stop1, thoughts, thoughts1, texts0, texts1
<1>4. AtMostOne(stop1) /\ Behind(thoughts1, start1) /\ Ahead(thoughts1, stop1) /\ Ahead(texts1, stop1)
  BY <1>3 DEF AtMostOne, Behind, Ahead
<1>5. Behind(At(out, "block_start", 1), At(out, "block_stop", 0)) <=> Behind(start1, stop0)
  BY DEF start1, stop0
<1>6. BlockOrder(At(out, "block_start", 0), At(out, "block_start", 1), At(out, "block_stop", 0),
                 At(out, "thinking", 0), At(out, "text", 0), At(out, "text", 1))
        <=> BlockOrder(start0, start1, stop0, thoughts, texts0, texts1)
  BY DEF start0, start1, stop0, thoughts, texts0, texts1
<1>7. Blocks(out) <=>
             /\ out # <<>> => out[1].f = "message_start"
             /\ \A p \in DOMAIN out : out[p].f \in {"thinking", "text"} => out[p].i \in {0, 1}
             /\ BlockOrder(start0, start1, stop0, thoughts, texts0, texts1)
  BY <1>1, <1>2, <1>4, <1>5 DEF Blocks, BlockOrder
<1> QED
  BY <1>6, <1>7
LEMMA OrderOn ==
    ASSUME NEW m \in Nat, NEW start0, NEW start1, NEW stop0, NEW thoughts, NEW texts0, NEW texts1,
           BlockOrder(start0, start1, stop0, thoughts, texts0, texts1),
           \A s \in {start0, start1, stop0, thoughts, texts0, texts1} : s \subseteq 1 .. m
    PROVE  LET N == {m + 1}
           IN  /\ start0 = {} => BlockOrder(start0 \cup N, start1, stop0, thoughts, texts0, texts1)
               /\ start1 = {} /\ stop0 # {} => BlockOrder(start0, start1 \cup N, stop0, thoughts, texts0, texts1)
               /\ stop0 = {} => BlockOrder(start0, start1, stop0 \cup N, thoughts, texts0, texts1)
               /\ start0 # {} /\ stop0 = {} => BlockOrder(start0, start1, stop0, thoughts \cup N, texts0, texts1)
               /\ start0 # {} /\ stop0 = {} => BlockOrder(start0, start1, stop0, thoughts, texts0 \cup N, texts1)
               /\ start1 # {} => BlockOrder(start0, start1, stop0, thoughts, texts0, texts1 \cup N)
<1> DEFINE N == {m + 1}
<1> USE DEF BlockOrder
<1>1. \A s \in {start0, start1, stop0, thoughts, texts0, texts1} : \A x \in s : x \in Nat /\ x < m + 1
  OBVIOUS
<1>2. ASSUME NEW s \in {start0, start1, stop0, thoughts, texts0, texts1}
      PROVE  s = {} => AtMostOne(s \cup N)
  BY DEF AtMostOne
<1>3. ASSUME NEW s \in {start0, start1, stop0, thoughts, texts0, texts1}, NEW t \in {start0, start1, stop0, thoughts, texts0, texts1}
      PROVE  /\ s # {} /\ Behind(t, s) => Behind(t \cup N, s)
             /\ Behind(t, s) => Behind(t, s \cup N)
             /\ Ahead(t, s) => Ahead(t, s \cup N)
             /\ s = {} => Ahead(t \cup N, s)
             /\ s = {} /\ Behind(t, s) => t = {}
  <2>1. s # {} /\ Behind(t, s) => Behind(t \cup N, s)
    BY <1>1 DEF Behind
  <2>2. Behind(t, s) => Behind(t, s \cup N)
    BY DEF Behind
  <2>3. Ahead(t, s) => Ahead(t, s \cup N)
    BY <1>1 DEF Ahead
  <2>4. s = {} => Ahead(t \cup N, s)
    BY DEF Ahead
  <2>5. s = {} /\ Behind(t, s) => t = {}
    BY DEF Behind
  <2> QED
    BY <2>1, <2>2, <2>3, <2>4, <2>5
<1> HIDE DEF N
<1>4. start0 = {} => BlockOrder(start0 \cup N, start1, stop0, thoughts, texts0, texts1)
  BY <1>2, <1>3
<1>5. start1 = {} /\ stop0 # {} => BlockOrder(start0, start1 \cup N, stop0, thoughts, texts0, texts1)
  BY <1>2, <1>3
<1>6. stop0 = {} => BlockOrder(start0, start1, stop0 \cup N, thoughts, texts0, texts1)
  BY <1>2, <1>3
<1>7. start0 # {} /\ stop0 = {} => BlockOrder(start0, start1, stop0, thoughts \cup N, texts0, texts1)
  BY <1>3
<1>8. start0 # {} /\ stop0 = {} => BlockOrder(start0, start1, stop0, thoughts, texts0 \cup N, texts1)
  BY <1>3
<1>9. start1 # {} => BlockOrder(start0, start1, stop0, thoughts, texts0, texts1 \cup N)
  BY <1>3
<1> QED
  BY <1>4, <1>5, <1>6, <1>7, <1>8, <1>9 DEF N

\* The bridge sends x, a frame of a block, and has the flags of d.
LEMMA ShapeOn ==
    ASSUME NEW c, NEW d, NEW x, Bridge(c), MsgShape(c), c.started, d.out = c.out \o <<x>>, d.started, BlocksBy(d),
           <<x.f, x.i>> \in {<<"block_start", 0>>, <<"block_start", 1>>, <<"block_stop", 0>>, <<"thinking", 0>>,
                             <<"text", 0>>, <<"text", 1>>},
           x.f = "block_start" /\ x.i = 0 => At(c.out, "block_start", 0) = {},
           x.f = "block_start" /\ x.i = 1 => At(c.out, "block_start", 1) = {} /\ At(c.out, "block_stop", 0) # {},
           x.f = "block_stop" => At(c.out, "block_stop", 0) = {},
           x.f = "thinking" => At(c.out, "block_start", 0) # {} /\ At(c.out, "block_stop", 0) = {},
           x.f = "text" /\ x.i = 0 => At(c.out, "block_start", 0) # {} /\ At(c.out, "block_stop", 0) = {},
           x.f = "text" /\ x.i = 1 => At(c.out, "block_start", 1) # {}
    PROVE  MsgShape(d)
<1>1. PICK s, u : s = c.out /\ u = d.out
  OBVIOUS
<1>2. IsSeq(s) /\ OneMore(u, s, x)
  BY <1>1, OneMoreIs DEF Bridge
<1>3. PICK start0, start1, stop0, thoughts, texts0, texts1 :
        /\ start0 = At(s, "block_start", 0) /\ start1 = At(s, "block_start", 1) /\ stop0 = At(s, "block_stop", 0)
        /\ thoughts = At(s, "thinking", 0) /\ texts0 = At(s, "text", 0) /\ texts1 = At(s, "text", 1)
  OBVIOUS
<1>4. /\ s # <<>> /\ s[1].f = "message_start"
      /\ \A p \in DOMAIN s : s[p].f \in {"thinking", "text"} => s[p].i \in {0, 1}
      /\ BlockOrder(start0, start1, stop0, thoughts, texts0, texts1)
  <2>1. Blocks(s) /\ At(s, "thinking", 1) = {} /\ At(s, "block_stop", 1) = {} /\ s # <<>>
    BY <1>1 DEF MsgShape, BlocksBy
  <2> QED
    BY <1>3, <2>1, BlocksAre
<1>5. PICK N : N = {Len(s) + 1}
  OBVIOUS
<1>6. /\ start0 = {} => BlockOrder(start0 \cup N, start1, stop0, thoughts, texts0, texts1)
      /\ start1 = {} /\ stop0 # {} => BlockOrder(start0, start1 \cup N, stop0, thoughts, texts0, texts1)
      /\ stop0 = {} => BlockOrder(start0, start1, stop0 \cup N, thoughts, texts0, texts1)
      /\ start0 # {} /\ stop0 = {} => BlockOrder(start0, start1, stop0, thoughts \cup N, texts0, texts1)
      /\ start0 # {} /\ stop0 = {} => BlockOrder(start0, start1, stop0, thoughts, texts0 \cup N, texts1)
      /\ start1 # {} => BlockOrder(start0, start1, stop0, thoughts, texts0, texts1 \cup N)
  <2>1. Len(s) \in Nat /\ \A f, i : At(s, f, i) \subseteq 1 .. Len(s)
    BY <1>2 DEF OneMore
  <2>2. \A t \in {start0, start1, stop0, thoughts, texts0, texts1} : t \subseteq 1 .. Len(s)
    BY <1>3, <2>1
  <2> QED
    BY <1>4, <1>5, <2>1, <2>2, OrderOn
<1>7. \A f, i : At(u, f, i) = IF x.f = f /\ x.i = i THEN At(s, f, i) \cup N ELSE At(s, f, i)
  BY <1>2, <1>5 DEF OneMore
<1>8. BlockOrder(At(u, "block_start", 0), At(u, "block_start", 1), At(u, "block_stop", 0),
                 At(u, "thinking", 0), At(u, "text", 0), At(u, "text", 1))
  <2>1. /\ At(u, "block_start", 0) = (IF x.f = "block_start" /\ x.i = 0 THEN start0 \cup N ELSE start0)
        /\ At(u, "block_start", 1) = (IF x.f = "block_start" /\ x.i = 1 THEN start1 \cup N ELSE start1)
        /\ At(u, "block_stop", 0) = (IF x.f = "block_stop" /\ x.i = 0 THEN stop0 \cup N ELSE stop0)
        /\ At(u, "thinking", 0) = (IF x.f = "thinking" /\ x.i = 0 THEN thoughts \cup N ELSE thoughts)
        /\ At(u, "text", 0) = (IF x.f = "text" /\ x.i = 0 THEN texts0 \cup N ELSE texts0)
        /\ At(u, "text", 1) = (IF x.f = "text" /\ x.i = 1 THEN texts1 \cup N ELSE texts1)
    BY <1>3, <1>7
  <2>2. /\ x.f = "block_start" /\ x.i = 0 => start0 = {}
        /\ x.f = "block_start" /\ x.i = 1 => start1 = {} /\ stop0 # {}
        /\ x.f = "block_stop" => stop0 = {}
        /\ x.f = "thinking" => start0 # {} /\ stop0 = {}
        /\ x.f = "text" /\ x.i = 0 => start0 # {} /\ stop0 = {}
        /\ x.f = "text" /\ x.i = 1 => start1 # {}
    BY <1>1, <1>3
  <2>3. CASE x.f = "block_start" /\ x.i = 0
    <3>1. BlockOrder(start0 \cup N, start1, stop0, thoughts, texts0, texts1)
      BY <1>6, <2>2, <2>3
    <3>2. /\ At(u, "block_start", 0) = start0 \cup N /\ At(u, "block_start", 1) = start1 /\ At(u, "block_stop", 0) = stop0
          /\ At(u, "thinking", 0) = thoughts /\ At(u, "text", 0) = texts0 /\ At(u, "text", 1) = texts1
      BY <2>1, <2>3
    <3> QED
      BY <3>1, <3>2
  <2>4. CASE x.f = "block_start" /\ x.i = 1
    <3>1. BlockOrder(start0, start1 \cup N, stop0, thoughts, texts0, texts1)
      BY <1>6, <2>2, <2>4
    <3>2. /\ At(u, "block_start", 0) = start0 /\ At(u, "block_start", 1) = start1 \cup N /\ At(u, "block_stop", 0) = stop0
          /\ At(u, "thinking", 0) = thoughts /\ At(u, "text", 0) = texts0 /\ At(u, "text", 1) = texts1
      BY <2>1, <2>4
    <3> QED
      BY <3>1, <3>2
  <2>5. CASE x.f = "block_stop" /\ x.i = 0
    <3>1. BlockOrder(start0, start1, stop0 \cup N, thoughts, texts0, texts1)
      BY <1>6, <2>2, <2>5
    <3>2. /\ At(u, "block_start", 0) = start0 /\ At(u, "block_start", 1) = start1 /\ At(u, "block_stop", 0) = stop0 \cup N
          /\ At(u, "thinking", 0) = thoughts /\ At(u, "text", 0) = texts0 /\ At(u, "text", 1) = texts1
      BY <2>1, <2>5
    <3> QED
      BY <3>1, <3>2
  <2>6. CASE x.f = "thinking" /\ x.i = 0
    <3>1. BlockOrder(start0, start1, stop0, thoughts \cup N, texts0, texts1)
      BY <1>6, <2>2, <2>6
    <3>2. /\ At(u, "block_start", 0) = start0 /\ At(u, "block_start", 1) = start1 /\ At(u, "block_stop", 0) = stop0
          /\ At(u, "thinking", 0) = thoughts \cup N /\ At(u, "text", 0) = texts0 /\ At(u, "text", 1) = texts1
      BY <2>1, <2>6
    <3> QED
      BY <3>1, <3>2
  <2>7. CASE x.f = "text" /\ x.i = 0
    <3>1. BlockOrder(start0, start1, stop0, thoughts, texts0 \cup N, texts1)
      BY <1>6, <2>2, <2>7
    <3>2. /\ At(u, "block_start", 0) = start0 /\ At(u, "block_start", 1) = start1 /\ At(u, "block_stop", 0) = stop0
          /\ At(u, "thinking", 0) = thoughts /\ At(u, "text", 0) = texts0 \cup N /\ At(u, "text", 1) = texts1
      BY <2>1, <2>7
    <3> QED
      BY <3>1, <3>2
  <2>8. CASE x.f = "text" /\ x.i = 1
    <3>1. BlockOrder(start0, start1, stop0, thoughts, texts0, texts1 \cup N)
      BY <1>6, <2>2, <2>8
    <3>2. /\ At(u, "block_start", 0) = start0 /\ At(u, "block_start", 1) = start1 /\ At(u, "block_stop", 0) = stop0
          /\ At(u, "thinking", 0) = thoughts /\ At(u, "text", 0) = texts0 /\ At(u, "text", 1) = texts1 \cup N
      BY <2>1, <2>8
    <3> QED
      BY <3>1, <3>2
  <2>9. \/ x.f = "block_start" /\ x.i = 0
        \/ x.f = "block_start" /\ x.i = 1
        \/ x.f = "block_stop" /\ x.i = 0
        \/ x.f = "thinking" /\ x.i = 0
        \/ x.f = "text" /\ x.i = 0
        \/ x.f = "text" /\ x.i = 1
    OBVIOUS
  <2> QED
    BY <2>3, <2>4, <2>5, <2>6, <2>7, <2>8, <2>9
<1>9. u # <<>> /\ u[1].f = "message_start"
  BY <1>2, <1>4 DEF OneMore
<1>10. \A p \in DOMAIN u : u[p].f \in {"thinking", "text"} => u[p].i \in {0, 1}
  BY <1>1, <1>2, <1>4, IndexedFrames
<1>11. Blocks(u)
  <2>1. At(u, "thinking", 1) = {} /\ At(u, "block_stop", 1) = {}
    BY <1>1 DEF BlocksBy
  <2> QED
    BY <1>8, <1>9, <1>10, <2>1, BlocksAre
<1> QED
  BY <1>1, <1>9, <1>11 DEF MsgShape

\* The bridge of a message in front of the upstream v.
MsgGood(c, v) ==
    /\ Bridge(c) /\ MsgShape(c)
    /\ c.text_started => HasText(v)
    /\ c.think_closed => c.text_started

LEMMA StartedOk ==
    ASSUME NEW c, NEW v, MsgGood(c, v)
    PROVE  LET d == IF c.started THEN c ELSE bridge_send_chunk([c EXCEPT !.started = TRUE], Bare("message_start"))
           IN  MsgGood(d, v) /\ d.started
<1>1. CASE c.started
  BY <1>1
<1>2. CASE ~c.started
  <2>1. PICK g : g = [c EXCEPT !.started = TRUE]
    OBVIOUS
  <2>2. Bridge(g) /\ g.out = c.out /\ g.started = TRUE
    BY <2>1 DEF MsgGood, Bridge, Fields
  <2>3. /\ g.think_started = c.think_started /\ g.think_closed = c.think_closed /\ g.text_started = c.text_started
        /\ g.in_thinking = c.in_thinking
    BY <2>1 DEF MsgGood, Bridge, Fields
  <2>4. PICK d : d = bridge_send_chunk(g, Bare("message_start"))
    OBVIOUS
  <2>5. Bridge(d) /\ d.out = g.out \o Bare("message_start") /\ BlockFlags(d, g)
    <3>1. IsSeq(Bare("message_start"))
      BY BareIs
    <3> QED
      BY <2>2, <2>4, <3>1, ChunkIs
  <2>6. PICK s, u : s = c.out /\ u = s \o Bare("message_start")
    OBVIOUS
  <2>7. IsSeq(s) /\ Blocks(s)
    BY <2>6 DEF MsgGood, MsgShape, Bridge
  <2>8. /\ Blocks(u) /\ u # <<>>
        /\ \A i : \A h \in {"thinking", "text", "block_start", "block_stop"} : At(u, h, i) = At(s, h, i)
    BY <2>6, <2>7, BareBlocks
  <2>9. d.out = u
    BY <2>2, <2>5, <2>6
  <2>10. BlocksBy(d)
    <3>1. /\ At(u, "thinking", 1) = At(s, "thinking", 1) /\ At(u, "block_stop", 1) = At(s, "block_stop", 1)
          /\ At(u, "block_start", 0) = At(s, "block_start", 0) /\ At(u, "block_start", 1) = At(s, "block_start", 1)
          /\ At(u, "block_stop", 0) = At(s, "block_stop", 0) /\ At(u, "text", 0) = At(s, "text", 0)
      BY <2>8
    <3>2. BlocksBy(c)
      BY DEF MsgGood, MsgShape
    <3> QED
      BY <2>3, <2>5, <2>6, <2>9, <3>1, <3>2 DEF BlocksBy, BlockFlags
  <2>11. d.started = TRUE /\ d.text_started = c.text_started /\ d.think_closed = c.think_closed
    BY <2>2, <2>3, <2>5 DEF BlockFlags
  <2> QED
    BY <1>2, <2>1, <2>4, <2>5, <2>8, <2>9, <2>10, <2>11 DEF MsgGood, MsgShape
<1> QED
  BY <1>1, <1>2
\* What a frame x behind s changes in the sets that BlocksBy reads.
LEMMA SetsOn ==
    ASSUME NEW s, IsSeq(s), NEW x
    PROVE  LET u == s \o <<x>>
           IN  /\ \A f, i : x.f # f \/ x.i # i => At(u, f, i) = At(s, f, i)
               /\ At(u, x.f, x.i) # {}
<1>1. PICK u : u = s \o <<x>>
  OBVIOUS
<1>2. OneMore(u, s, x)
  BY <1>1, OneMoreIs
<1>3. \A f, i : x.f # f \/ x.i # i => At(u, f, i) = At(s, f, i)
  BY <1>2 DEF OneMore
<1>4. At(u, x.f, x.i) = At(s, x.f, x.i) \cup {Len(s) + 1}
  BY <1>2 DEF OneMore
<1> QED
  BY <1>1, <1>3, <1>4

LEMMA ThoughtBlock ==
    ASSUME NEW c, NEW v, MsgGood(c, v), c.started, ~HasText(v), NEW x
    PROVE  LET h == IF c.think_started THEN c
                    ELSE bridge_send_chunk([c EXCEPT !.think_started = TRUE, !.in_thinking = TRUE], BlockFrame("block_start", 0))
           IN  MsgGood(bridge_send_chunk(h, <<Frame("thinking", 0, x)>>), v)
<1> DEFINE h == IF c.think_started THEN c
                ELSE bridge_send_chunk([c EXCEPT !.think_started = TRUE, !.in_thinking = TRUE], BlockFrame("block_start", 0))
<1>1. Bridge(c) /\ MsgShape(c) /\ BlocksBy(c) /\ ~c.text_started /\ IsSeq(c.out)
  BY DEF MsgGood, MsgShape, Bridge
<1>2. MsgGood(h, v) /\ h.started /\ h.think_started /\ ~h.text_started
  <2>1. CASE c.think_started
    BY <1>1, <2>1
  <2>2. CASE ~c.think_started
    <3>1. PICK g : g = [c EXCEPT !.think_started = TRUE, !.in_thinking = TRUE]
      OBVIOUS
    <3>2. /\ Bridge(g) /\ g.out = c.out /\ g.started = c.started /\ g.think_started = TRUE /\ g.think_closed = c.think_closed
          /\ g.text_started = c.text_started /\ g.in_thinking = TRUE
      BY <1>1, <3>1 DEF Bridge, Fields
    <3>3. PICK y : BlockFrame("block_start", 0) = <<y>> /\ y.f = "block_start" /\ y.i = 0
      BY BareIs
    <3>4. PICK d : d = bridge_send_chunk(g, <<y>>)
      OBVIOUS
    <3>5. Bridge(d) /\ d.out = g.out \o <<y>> /\ BlockFlags(d, g)
      BY <3>2, <3>4, OneIsSeq, ChunkIs
    <3>6. PICK s, u : s = c.out /\ u = d.out
      OBVIOUS
    <3>7. u = s \o <<y>> /\ IsSeq(s)
      BY <1>1, <3>2, <3>5, <3>6
    <3>8. (\A f, i : y.f # f \/ y.i # i => At(u, f, i) = At(s, f, i)) /\ At(u, y.f, y.i) # {}
      BY <3>7, SetsOn
    <3>9. /\ At(u, "thinking", 1) = At(s, "thinking", 1) /\ At(u, "block_stop", 1) = At(s, "block_stop", 1)
          /\ At(u, "block_start", 0) # {} /\ At(u, "block_start", 1) = At(s, "block_start", 1)
          /\ At(u, "block_stop", 0) = At(s, "block_stop", 0) /\ At(u, "text", 0) = At(s, "text", 0)
      BY <3>3, <3>8
    <3>10. At(s, "text", 0) = {}
      <4>1. At(s, "block_start", 0) = {}
        BY <1>1, <2>2, <3>6 DEF BlocksBy
      <4>2. Blocks(s)
        BY <1>1, <3>6 DEF MsgShape
      <4>3. Behind(At(s, "text", 0), At(s, "block_start", 0))
        BY <4>2 DEF Blocks
      <4> QED
        BY <4>1, <4>3 DEF Behind
    <3>11. BlocksBy(d)
      BY <1>1, <2>2, <3>2, <3>5, <3>6, <3>9, <3>10 DEF BlocksBy, BlockFlags
    <3>12. At(c.out, "block_start", 0) = {}
      BY <1>1, <2>2 DEF BlocksBy
    <3>13. d.started /\ d.think_started /\ d.text_started = c.text_started
      BY <3>2, <3>5 DEF BlockFlags
    <3>14. MsgShape(d)
      <4>1. Bridge(c) /\ MsgShape(c) /\ c.started /\ d.out = c.out \o <<y>> /\ d.started /\ BlocksBy(d)
        BY <1>1, <3>2, <3>5, <3>11, <3>13
      <4> QED
        BY <3>3, <3>12, <4>1, ShapeOn
    <3>15. h = d
      BY <2>2, <3>1, <3>3, <3>4
    <3>16. ~d.think_closed
      BY <1>1, <2>2, <3>2, <3>5 DEF BlockFlags, BlocksBy
    <3> QED
      BY <1>1, <3>5, <3>13, <3>14, <3>15, <3>16 DEF MsgGood
  <2> QED
    BY <2>1, <2>2
<1> HIDE DEF h
<1>3. Bridge(h) /\ MsgShape(h) /\ BlocksBy(h) /\ IsSeq(h.out)
  BY <1>2 DEF MsgGood, MsgShape, Bridge
<1>4. PICK y : y = Frame("thinking", 0, x)
  OBVIOUS
<1>5. y.f = "thinking" /\ y.i = 0
  BY <1>4 DEF Frame
<1>6. PICK d : d = bridge_send_chunk(h, <<y>>)
  OBVIOUS
<1>7. Bridge(d) /\ d.out = h.out \o <<y>> /\ BlockFlags(d, h)
  BY <1>3, <1>6, OneIsSeq, ChunkIs
<1>8. PICK s, u : s = h.out /\ u = d.out
  OBVIOUS
<1>9. (\A f, i : y.f # f \/ y.i # i => At(u, f, i) = At(s, f, i)) /\ At(u, y.f, y.i) # {}
  BY <1>3, <1>7, <1>8, SetsOn
<1>10. /\ At(u, "thinking", 1) = At(s, "thinking", 1) /\ At(u, "block_stop", 1) = At(s, "block_stop", 1)
       /\ At(u, "block_start", 0) = At(s, "block_start", 0) /\ At(u, "block_start", 1) = At(s, "block_start", 1)
       /\ At(u, "block_stop", 0) = At(s, "block_stop", 0) /\ At(u, "text", 0) = At(s, "text", 0)
  BY <1>5, <1>9
<1>11. BlocksBy(d)
  BY <1>3, <1>7, <1>8, <1>10 DEF BlocksBy, BlockFlags
<1>12. At(h.out, "block_start", 0) # {}
  BY <1>2, <1>3 DEF BlocksBy
<1>13. At(h.out, "block_stop", 0) = {}
  <2>1. ~h.think_closed
    BY <1>2 DEF MsgGood
  <2> QED
    BY <1>3, <2>1 DEF BlocksBy
<1>14. d.started /\ d.text_started = h.text_started /\ d.think_closed = h.think_closed
  BY <1>2, <1>7 DEF BlockFlags
<1>15. MsgShape(d)
  BY <1>2, <1>3, <1>5, <1>7, <1>11, <1>12, <1>13, <1>14, ShapeOn
<1>16. MsgGood(d, v)
  BY <1>2, <1>7, <1>14, <1>15 DEF MsgGood
<1> QED
  BY <1>4, <1>6, <1>16 DEF h

\* A bridge with the frames of c and the flags of g has sent y.
SentBy(d, c, g, y) ==
    /\ Bridge(d) /\ d.out = c.out \o <<y>> /\ BlockFlags(d, g)
    /\ \A f, i : y.f # f \/ y.i # i => At(d.out, f, i) = At(c.out, f, i)
    /\ At(d.out, y.f, y.i) # {}

LEMMA GivesFrame ==
    ASSUME NEW c, NEW g, Bridge(c), Bridge(g), g.out = c.out, NEW y
    PROVE  SentBy(bridge_send_chunk(g, <<y>>), c, g, y)
<1>1. PICK d : d = bridge_send_chunk(g, <<y>>)
  OBVIOUS
<1>2. Bridge(d) /\ d.out = g.out \o <<y>> /\ BlockFlags(d, g)
  BY <1>1, OneIsSeq, ChunkIs
<1>3. PICK s, u : s = c.out /\ u = d.out
  OBVIOUS
<1>4. u = s \o <<y>> /\ IsSeq(s)
  BY <1>2, <1>3 DEF Bridge
<1>5. (\A f, i : y.f # f \/ y.i # i => At(u, f, i) = At(s, f, i)) /\ At(u, y.f, y.i) # {}
  BY <1>4, SetsOn
<1>6. Bridge(d) /\ d.out = c.out \o <<y>> /\ BlockFlags(d, g)
  BY <1>2
<1>7. \A f, i : y.f # f \/ y.i # i => At(d.out, f, i) = At(c.out, f, i)
  BY <1>3, <1>5
<1>8. At(d.out, y.f, y.i) # {}
  BY <1>3, <1>5
<1>9. SentBy(d, c, g, y)
  BY <1>6, <1>7, <1>8 DEF SentBy
<1> QED
  BY <1>1, <1>9

\* The block of thoughts is stopped.
LEMMA Stops ==
    ASSUME NEW c, NEW v, MsgGood(c, v), c.started
    PROVE  LET d == StopThinking(c)
           IN  /\ Bridge(d) /\ MsgShape(d) /\ d.started /\ (d.think_started => d.think_closed)
               /\ d.text_started = c.text_started /\ d.think_started = c.think_started
<1>1. Bridge(c) /\ MsgShape(c) /\ BlocksBy(c)
  BY DEF MsgGood, MsgShape
<1>2. CASE ~(c.in_thinking /\ ~c.think_closed)
  <2>1. StopThinking(c) = c
    BY <1>2 DEF StopThinking
  <2> QED
    BY <1>1, <1>2, <2>1 DEF BlocksBy
<1>3. CASE c.in_thinking /\ ~c.think_closed
  <2>1. PICK g : g = [c EXCEPT !.think_closed = TRUE, !.in_thinking = FALSE]
    OBVIOUS
  <2>2. /\ Bridge(g) /\ g.out = c.out /\ g.started = c.started /\ g.think_started = c.think_started /\ g.think_closed = TRUE
        /\ g.text_started = c.text_started /\ g.in_thinking = FALSE
    BY <1>1, <2>1 DEF Bridge, Fields
  <2>3. PICK y : BlockFrame("block_stop", 0) = <<y>> /\ y.f = "block_stop" /\ y.i = 0
    BY BareIs
  <2>4. PICK d : d = bridge_send_chunk(g, <<y>>)
    OBVIOUS
  <2>5. /\ Bridge(d) /\ d.out = c.out \o <<y>> /\ BlockFlags(d, g)
        /\ \A f, i : y.f # f \/ y.i # i => At(d.out, f, i) = At(c.out, f, i)
        /\ At(d.out, y.f, y.i) # {}
    <3>1. SentBy(d, c, g, y)
      BY <1>1, <2>2, <2>4, GivesFrame
    <3> QED
      BY <3>1 DEF SentBy
  <2>6. /\ At(d.out, "thinking", 1) = At(c.out, "thinking", 1) /\ At(d.out, "block_stop", 1) = At(c.out, "block_stop", 1)
        /\ At(d.out, "block_start", 0) = At(c.out, "block_start", 0) /\ At(d.out, "block_start", 1) = At(c.out, "block_start", 1)
        /\ At(d.out, "block_stop", 0) # {} /\ At(d.out, "text", 0) = At(c.out, "text", 0)
    BY <2>3, <2>5
  <2>7. /\ d.started /\ d.think_started = c.think_started /\ d.think_closed /\ d.text_started = c.text_started /\ ~d.in_thinking
    BY <2>2, <2>5 DEF BlockFlags
  <2>8. BlocksBy(d)
    BY <1>1, <1>3, <2>6, <2>7 DEF BlocksBy
  <2>9. At(c.out, "block_stop", 0) = {}
    BY <1>1, <1>3 DEF BlocksBy
  <2>10. MsgShape(d)
    <3>1. Bridge(c) /\ MsgShape(c) /\ c.started /\ d.out = c.out \o <<y>> /\ d.started /\ BlocksBy(d)
      BY <1>1, <2>5, <2>7, <2>8
    <3> QED
      BY <2>3, <2>9, <3>1, ShapeOn
  <2>11. StopThinking(c) = d
    BY <1>3, <2>1, <2>3, <2>4 DEF StopThinking
  <2> QED
    BY <2>5, <2>7, <2>10, <2>11
<1> QED
  BY <1>2, <1>3

\* The block of texts is started.
TextsOpen(h) ==
    IF h.text_started THEN h
    ELSE bridge_send_chunk([h EXCEPT !.text_started = TRUE], BlockFrame("block_start", TextIndex(h)))

LEMMA TextBlock ==
    ASSUME NEW h, Bridge(h), MsgShape(h), h.started, h.think_started => h.think_closed
    PROVE  LET j == TextsOpen(h)
           IN  Bridge(j) /\ MsgShape(j) /\ j.started /\ (j.think_started => j.think_closed) /\ j.text_started
<1>1. BlocksBy(h)
  BY DEF MsgShape
<1>2. CASE h.text_started
  <2>1. TextsOpen(h) = h
    BY <1>2 DEF TextsOpen
  <2> QED
    BY <1>2, <2>1
<1>3. CASE ~h.text_started
  <2>1. PICK g : g = [h EXCEPT !.text_started = TRUE]
    OBVIOUS
  <2>2. /\ Bridge(g) /\ g.out = h.out /\ g.started = h.started /\ g.think_started = h.think_started
        /\ g.think_closed = h.think_closed /\ g.text_started = TRUE /\ g.in_thinking = h.in_thinking
    BY <2>1 DEF Bridge, Fields
  <2>3. PICK k : k = TextIndex(h)
    OBVIOUS
  <2>4. PICK y : BlockFrame("block_start", k) = <<y>> /\ y.f = "block_start" /\ y.i = k
    BY BareIs
  <2>5. PICK d : d = bridge_send_chunk(g, <<y>>)
    OBVIOUS
  <2>6. /\ Bridge(d) /\ d.out = h.out \o <<y>> /\ BlockFlags(d, g)
        /\ \A f, i : y.f # f \/ y.i # i => At(d.out, f, i) = At(h.out, f, i)
        /\ At(d.out, y.f, y.i) # {}
    <3>1. SentBy(d, h, g, y)
      BY <2>2, <2>5, GivesFrame
    <3> QED
      BY <3>1 DEF SentBy
  <2>7. /\ d.started /\ d.think_started = h.think_started /\ d.think_closed = h.think_closed /\ d.text_started = TRUE
        /\ d.in_thinking = h.in_thinking
    BY <2>2, <2>6 DEF BlockFlags
  <2>8. /\ At(d.out, "thinking", 1) = At(h.out, "thinking", 1) /\ At(d.out, "block_stop", 1) = At(h.out, "block_stop", 1)
        /\ At(d.out, "block_stop", 0) = At(h.out, "block_stop", 0) /\ At(d.out, "text", 0) = At(h.out, "text", 0)
    BY <2>4, <2>6
  <2>9. Bridge(h) /\ MsgShape(h) /\ h.started /\ d.out = h.out \o <<y>> /\ d.started
    BY <2>6, <2>7
  <2>10. MsgShape(d)
    <3>1. CASE h.think_started
      <4>1. k = 1
        BY <2>3, <3>1 DEF TextIndex
      <4>2. At(d.out, "block_start", 1) # {} /\ At(d.out, "block_start", 0) = At(h.out, "block_start", 0)
        BY <2>4, <2>6, <4>1
      <4>3. BlocksBy(d)
        BY <1>1, <1>3, <2>7, <2>8, <3>1, <4>2 DEF BlocksBy
      <4>4. At(h.out, "block_start", 1) = {} /\ At(h.out, "block_stop", 0) # {}
        BY <1>1, <1>3, <3>1 DEF BlocksBy
      <4> QED
        BY <2>4, <2>9, <4>1, <4>3, <4>4, ShapeOn
    <3>2. CASE ~h.think_started
      <4>1. k = 0
        BY <2>3, <3>2 DEF TextIndex
      <4>2. At(d.out, "block_start", 0) # {} /\ At(d.out, "block_start", 1) = At(h.out, "block_start", 1)
        BY <2>4, <2>6, <4>1
      <4>3. BlocksBy(d)
        BY <1>1, <1>3, <2>7, <2>8, <3>2, <4>2 DEF BlocksBy
      <4>4. At(h.out, "block_start", 0) = {}
        BY <1>1, <1>3, <3>2 DEF BlocksBy
      <4> QED
        BY <2>4, <2>9, <4>1, <4>3, <4>4, ShapeOn
    <3> QED
      BY <3>1, <3>2
  <2>11. TextsOpen(h) = d
    BY <1>3, <2>1, <2>3, <2>4, <2>5 DEF TextsOpen
  <2> QED
    BY <2>6, <2>7, <2>10, <2>11
<1> QED
  BY <1>2, <1>3

LEMMA TextFrame ==
    ASSUME NEW j, Bridge(j), MsgShape(j), j.started, j.think_started => j.think_closed, j.text_started, NEW v, HasText(v), NEW x
    PROVE  MsgGood(bridge_send_chunk(j, <<Frame("text", TextIndex(j), x)>>), v)
<1>1. BlocksBy(j)
  BY DEF MsgShape
<1>2. PICK k : k = TextIndex(j)
  OBVIOUS
<1>3. PICK y : y = Frame("text", k, x)
  OBVIOUS
<1>4. y.f = "text" /\ y.i = k
  BY <1>3 DEF Frame
<1>5. PICK d : d = bridge_send_chunk(j, <<y>>)
  OBVIOUS
<1>6. /\ Bridge(d) /\ d.out = j.out \o <<y>> /\ BlockFlags(d, j)
      /\ \A f, i : y.f # f \/ y.i # i => At(d.out, f, i) = At(j.out, f, i)
  <2>1. SentBy(d, j, j, y)
    BY <1>5, GivesFrame
  <2> QED
    BY <2>1 DEF SentBy
<1>7. /\ At(d.out, "thinking", 1) = At(j.out, "thinking", 1) /\ At(d.out, "block_stop", 1) = At(j.out, "block_stop", 1)
      /\ At(d.out, "block_stop", 0) = At(j.out, "block_stop", 0)
      /\ At(d.out, "block_start", 0) = At(j.out, "block_start", 0) /\ At(d.out, "block_start", 1) = At(j.out, "block_start", 1)
  BY <1>4, <1>6
<1>8. k = IF j.think_started THEN 1 ELSE 0
  BY <1>2 DEF TextIndex
<1>9. k = 1 => At(d.out, "text", 0) = At(j.out, "text", 0)
  BY <1>4, <1>6
<1>10. d.started /\ BlocksBy(d)
  BY <1>1, <1>6, <1>7, <1>8, <1>9 DEF BlocksBy, BlockFlags
<1>11. k = 1 => At(j.out, "block_start", 1) # {}
  BY <1>1, <1>8 DEF BlocksBy
<1>12. k = 0 => At(j.out, "block_start", 0) # {} /\ At(j.out, "block_stop", 0) = {}
  BY <1>1, <1>8 DEF BlocksBy
<1>13. MsgShape(d)
  <2>1. Bridge(j) /\ MsgShape(j) /\ j.started /\ d.out = j.out \o <<y>> /\ d.started /\ BlocksBy(d)
    BY <1>6, <1>10
  <2>2. CASE k = 1
    BY <1>4, <1>11, <2>1, <2>2, ShapeOn
  <2>3. CASE k = 0
    BY <1>4, <1>12, <2>1, <2>3, ShapeOn
  <2> QED
    BY <1>8, <2>2, <2>3
<1>14. d.text_started
  BY <1>6 DEF BlockFlags
<1> QED
  BY <1>2, <1>3, <1>5, <1>6, <1>13, <1>14 DEF MsgGood

LEMMA MsgSame ==
    ASSUME NEW c, NEW d, NEW v, MsgGood(c, v), Bridge(d), d.out = c.out, BlockFlags(d, c), d.headers => c.headers
    PROVE  MsgGood(d, v)
<1>1. BlocksBy(d)
  BY DEF MsgGood, MsgShape, BlocksBy, BlockFlags
<1> QED
  BY <1>1 DEF MsgGood, MsgShape, BlockFlags

LEMMA MessagesOk ==
    ASSUME NEW c, NEW v, NEW e, Follows(v, e), Extends(v, e), ThoughtsFirst(e.u), MsgGood(c, e.u), route.kind = "messages"
    PROVE  MsgGood(oai_ant_process_line(c, e), e.u)
<1>1. CASE e.t = "done"
  <2>1. oai_ant_process_line(c, e) = c
    BY <1>1 DEF oai_ant_process_line
  <2> QED
    BY <2>1
<1>2. CASE e.t # "done"
  <2>1. PICK d : d = IF c.started THEN c ELSE bridge_send_chunk([c EXCEPT !.started = TRUE], Bare("message_start"))
    OBVIOUS
  <2>2. MsgGood(d, e.u) /\ d.started
    BY <2>1, StartedOk
  <2>3. PICK g : g = IF e.t = "usage" THEN [d EXCEPT !.tok = {"in", "out"}] ELSE d
    OBVIOUS
  <2>4. MsgGood(g, e.u) /\ g.started
    <3>1. Bridge(d)
      BY <2>2 DEF MsgGood
    <3>2. Bridge(g) /\ g.out = d.out /\ BlockFlags(g, d) /\ g.headers = d.headers
      BY <2>3, <3>1 DEF Bridge, Fields, BlockFlags
    <3>3. MsgGood(g, e.u)
      BY <2>2, <3>2, MsgSame
    <3> QED
      BY <2>2, <3>2, <3>3 DEF BlockFlags
  <2>5. CASE e.t = "reason"
    <3>1. ~Past(e.u)
      BY <2>5, ThoughtIsFirst DEF IsThought
    <3>2. ~HasText(e.u)
      BY <3>1 DEF Past
    <3>3. PICK h : h = IF g.think_started THEN g
                       ELSE bridge_send_chunk([g EXCEPT !.think_started = TRUE, !.in_thinking = TRUE], BlockFrame("block_start", 0))
      OBVIOUS
    <3>4. PICK x, u : x = New(e) /\ u = e.u
      OBVIOUS
    <3>5. MsgGood(bridge_send_chunk(h, <<Frame("thinking", 0, x)>>), u)
      BY <2>4, <3>2, <3>3, <3>4, ThoughtBlock
    <3>6. oai_ant_process_line(c, e) = bridge_send_chunk(h, <<Frame("thinking", 0, x)>>)
      BY <1>2, <2>1, <2>3, <2>5, <3>3, <3>4 DEF oai_ant_process_line
    <3> QED
      BY <3>4, <3>5, <3>6
  <2>6. CASE e.t \in {"text", "wide"}
    <3>1. Completes(v, e) /\ New(e).k \in {"text", "wide"}
      BY <2>6 DEF Completes, Follows, Steps
    <3>2. HasText(e.u)
      BY <3>1, NewIs
    <3>3. PICK h : h = StopThinking(g)
      OBVIOUS
    <3>4. Bridge(h) /\ MsgShape(h) /\ h.started /\ (h.think_started => h.think_closed)
      BY <2>4, <3>3, Stops
    <3>5. PICK j : j = TextsOpen(h)
      OBVIOUS
    <3>6. Bridge(j) /\ MsgShape(j) /\ j.started /\ (j.think_started => j.think_closed) /\ j.text_started
      BY <3>4, <3>5, TextBlock
    <3>7. PICK x, u : x = New(e) /\ u = e.u
      OBVIOUS
    <3>8. MsgGood(bridge_send_chunk(j, <<Frame("text", TextIndex(j), x)>>), u)
      BY <3>2, <3>6, <3>7, TextFrame
    <3>9. oai_ant_process_line(c, e) = bridge_send_chunk(j, <<Frame("text", TextIndex(j), x)>>)
      BY <1>2, <2>1, <2>3, <2>6, <3>3, <3>5, <3>7 DEF oai_ant_process_line, TextsOpen
    <3> QED
      BY <3>7, <3>8, <3>9
  <2>7. CASE e.t \notin {"reason", "text", "wide"}
    <3>1. oai_ant_process_line(c, e) = g
      BY <1>2, <2>1, <2>3, <2>7 DEF oai_ant_process_line
    <3> QED
      BY <2>4, <3>1
  <2> QED
    BY <2>5, <2>6, <2>7
<1> QED
  BY <1>1, <1>2

LEMMA MsgPassed ==
    ASSUME NEW c, NEW v, NEW e, Extends(v, e), MsgGood(c, v)
    PROVE  MsgGood(c, e.u)
<1>1. HasText(v) => HasText(e.u)
  BY DEF HasText, Extends
<1> QED
  BY <1>1 DEF MsgGood

-----------------------------------------------------------------------------
(* The end of a stream                                                       *)

DoneLast(out) == \A i \in DOMAIN out : out[i].f = "done" => i = Len(out)

LEMMA DoneBehind ==
    ASSUME NEW s, IsSeq(s), ~Has(s, "done"), NEW t, IsSeq(t), DoneLast(t)
    PROVE  DoneLast(s \o t)
<1>1. PICK u : u = s \o t
  OBVIOUS
<1>2. Joins(u, s, t)
  BY <1>1, JoinedIs
<1>3. ASSUME NEW i \in DOMAIN u, u[i].f = "done" PROVE i = Len(u)
  <2>1. \A j \in DOMAIN s : s[j].f # "done"
    BY DEF Has
  <2>2. PICK j \in DOMAIN t : i = Len(s) + j /\ u[i] = t[j]
    BY <1>2, <1>3, <2>1, JoinedFrom
  <2>3. j = Len(t)
    BY <1>3, <2>2 DEF DoneLast
  <2> QED
    BY <1>2, <2>2, <2>3 DEF Joins
<1> QED
  BY <1>1, <1>3 DEF DoneLast

LEMMA NoDone == ASSUME NEW s, ~Has(s, "done") PROVE DoneLast(s)
  BY DEF Has, DoneLast

\* A chat stream that has ended.
ChatOver(c, v) ==
    /\ ~v.failed => DoneLast(c.out)
    /\ route.kind # "openai" => Has(c.out, "done")
    /\ route.tag => TagShape(c, v) /\ (c.tag_opened => c.tag_closed)

LEMMA OpenAiOver ==
    ASSUME NEW c, NEW v, Bridge(c), ChatOk(c, v), route.kind = "openai"
    PROVE  ChatOver(CloseTag(c), v)
<1>1. PICK d : d = CloseTag(c)
  OBVIOUS
<1>2. /\ Bridge(d) /\ (route.tag => TagShape(d, v))
      /\ route.tag /\ c.tag_opened => d.tag_closed
      /\ ~(route.tag /\ c.tag_opened /\ ~c.tag_closed) => d = c
      /\ d.tag_opened = c.tag_opened
  BY <1>1, CloseKeeps DEF ChatOk, TagOk
<1>3. PICK frames : IsSeq(frames) /\ d.out = c.out \o frames /\ ~Has(frames, "done")
  BY <1>1, CloseKeeps DEF ChatOk, TagOk
<1>4. ASSUME ~v.failed PROVE DoneLast(d.out)
  <2>1. CASE Has(c.out, "done")
    <3>1. d = c
      BY <1>2, <1>4, <2>1 DEF ChatOk, DoneOk
    <3> QED
      BY <1>4, <3>1 DEF ChatOk, DoneOk, DoneLast
  <2>2. CASE ~Has(c.out, "done")
    <3>1. DoneLast(frames) /\ IsSeq(c.out)
      BY <1>3, NoDone DEF Bridge
    <3>2. DoneLast(c.out \o frames)
      BY <1>3, <2>2, <3>1, DoneBehind
    <3> QED
      BY <1>3, <3>2
  <2> QED
    BY <2>1, <2>2
<1> QED
  BY <1>1, <1>2, <1>4 DEF ChatOver

\* [DONE] behind a bridge that has sent none.
LEMMA DoneAdded ==
    ASSUME NEW c, NEW v, Bridge(c), ~Has(c.out, "done"), route.tag => TagShape(c, v) /\ (c.tag_opened => c.tag_closed),
           NEW t, IsSeq(t), Has(t, "done"), DoneLast(t), ~Has(t, "content"), ~Has(t, "tag"), ~Has(t, "untag")
    PROVE  ChatOver(bridge_send_chunk([c EXCEPT !.done = TRUE], t), v)
<1>1. PICK h : h = [c EXCEPT !.done = TRUE]
  OBVIOUS
<1>2. Bridge(h) /\ h.out = c.out /\ h.tag_opened = c.tag_opened /\ h.tag_closed = c.tag_closed
  BY <1>1 DEF Bridge, Fields
<1>3. PICK d : d = bridge_send_chunk(h, t)
  OBVIOUS
<1>4. Bridge(d) /\ d.out = h.out \o t /\ ChatFlags(d, h)
  BY <1>2, <1>3, ChunkIs
<1>5. d.out = c.out \o t /\ IsSeq(c.out)
  BY <1>2, <1>4 DEF Bridge
<1>6. DoneLast(c.out \o t)
  BY <1>5, DoneBehind
<1>7. Has(c.out \o t, "done")
  <2>1. PICK s, u : s = c.out /\ u = s \o t
    OBVIOUS
  <2>2. Joins(u, s, t)
    BY <1>5, <2>1, JoinedIs
  <2>3. Has(u, "done")
    BY <2>2, HasJoined
  <2> QED
    BY <2>1, <2>3
<1>8. route.tag => TagShape(d, v)
  <2> SUFFICES ASSUME route.tag PROVE TagShape(d, v)
    OBVIOUS
  <2>1. TagShape(h, v)
    BY <1>2 DEF TagShape
  <2> QED
    BY <1>2, <1>4, <2>1, PlainShape
<1>9. d.tag_opened = c.tag_opened /\ d.tag_closed = c.tag_closed
  BY <1>2, <1>4 DEF ChatFlags
<1> QED
  BY <1>1, <1>3, <1>5, <1>6, <1>7, <1>8, <1>9 DEF ChatOver

LEMMA AnthropicOver ==
    ASSUME NEW c, NEW v, Bridge(c), ChatOk(c, v), route.kind = "anthropic"
    PROVE  ChatOver(anthropic_bridge_finish(c), v)
<1>1. PICK d : d = CloseTag(c)
  OBVIOUS
<1>2. /\ Bridge(d) /\ (route.tag => TagShape(d, v)) /\ (Undone(c) => Undone(d))
      /\ route.tag /\ c.tag_opened => d.tag_closed
      /\ ~(route.tag /\ c.tag_opened /\ ~c.tag_closed) => d = c
      /\ d.tag_opened = c.tag_opened /\ d.done = c.done
  BY <1>1, CloseKeeps DEF ChatOk, TagOk
<1>3. PICK frames : IsSeq(frames) /\ d.out = c.out \o frames /\ ~Has(frames, "done")
  BY <1>1, CloseKeeps DEF ChatOk, TagOk
<1>4. c.done <=> Has(c.out, "done")
  BY DEF ChatOk, DoneOk
<1>5. CASE d.done
  <2>1. Has(c.out, "done")
    BY <1>2, <1>4, <1>5
  <2>2. Has(d.out, "done")
    <3>1. PICK s, u : s = c.out /\ u = d.out
      OBVIOUS
    <3>2. Joins(u, s, frames)
      BY <1>3, <3>1, JoinedIs DEF Bridge
    <3>3. Has(u, "done")
      BY <2>1, <3>1, <3>2, HasJoined
    <3> QED
      BY <3>1, <3>3
  <2>3. ~v.failed => DoneLast(d.out)
    <3> SUFFICES ASSUME ~v.failed PROVE DoneLast(d.out)
      OBVIOUS
    <3>1. d = c
      BY <1>2, <2>1 DEF ChatOk, DoneOk
    <3> QED
      BY <3>1 DEF ChatOk, DoneOk, DoneLast
  <2>4. ChatOver(d, v)
    BY <1>2, <2>2, <2>3 DEF ChatOver
  <2>5. anthropic_bridge_finish(c) = d
    BY <1>1, <1>5 DEF anthropic_bridge_finish
  <2> QED
    BY <2>4, <2>5
<1>6. CASE ~d.done
  <2>1. ~Has(d.out, "done")
    BY <1>2, <1>4, <1>6 DEF Undone
  <2>2. PICK t : t = Bare("done")
    OBVIOUS
  <2>3. IsSeq(t) /\ Has(t, "done") /\ ~Has(t, "content") /\ ~Has(t, "tag") /\ ~Has(t, "untag")
    BY <2>2, BareIs
  <2>4. DoneLast(t)
    BY <2>2 DEF Bare, DoneLast
  <2>5. ChatOver(bridge_send_chunk([d EXCEPT !.done = TRUE], t), v)
    BY <1>2, <2>1, <2>3, <2>4, DoneAdded
  <2>6. anthropic_bridge_finish(c) = bridge_send_chunk([d EXCEPT !.done = TRUE], t)
    BY <1>1, <1>6, <2>2 DEF anthropic_bridge_finish
  <2> QED
    BY <2>5, <2>6
<1> QED
  BY <1>5, <1>6

LEMMA GeminiOver ==
    ASSUME NEW c, NEW v, Bridge(c), ChatOk(c, v), route.kind = "gemini"
    PROVE  ChatOver(gemini_stream_bridge_finish(c), v)
<1>1. PICK d : d = CloseTag(c)
  OBVIOUS
<1>2. /\ Bridge(d) /\ (route.tag => TagShape(d, v)) /\ (Undone(c) => Undone(d))
      /\ route.tag /\ c.tag_opened => d.tag_closed
      /\ d.tag_opened = c.tag_opened
  BY <1>1, CloseKeeps DEF ChatOk, TagOk
<1>3. ~Has(d.out, "done")
  BY <1>2 DEF ChatOk, DoneOk, Undone
<1>4. PICK t : t = Bare("finish") \o Bare("done")
  OBVIOUS
<1>5. /\ IsSeq(t) /\ Has(t, "done") /\ ~Has(t, "content") /\ ~Has(t, "tag") /\ ~Has(t, "untag")
      /\ Len(t) = 2 /\ t[1].f = "finish"
  BY <1>4, TwoBareIs
<1>6. DoneLast(t)
  <2>1. PICK S : t \in Seq(S)
    BY <1>5 DEF IsSeq
  <2>2. DOMAIN t = 1 .. 2
    BY <1>5, <2>1, LenProperties
  <2> QED
    BY <1>5, <2>2 DEF DoneLast
<1>7. ChatOver(bridge_send_chunk([d EXCEPT !.done = TRUE], t), v)
  BY <1>2, <1>3, <1>5, <1>6, DoneAdded
<1>8. gemini_stream_bridge_finish(c) = bridge_send_chunk([d EXCEPT !.done = TRUE], t)
  BY <1>1, <1>4 DEF gemini_stream_bridge_finish
<1> QED
  BY <1>7, <1>8

LEMMA FinishOver ==
    ASSUME NEW c, NEW v, Bridge(c), ChatOk(c, v), route.kind \in Chat
    PROVE  ChatOver(Finished(c), v)
<1>1. CASE route.kind = "openai"
  BY <1>1, OpenAiOver DEF Finished, openai_bridge_finish
<1>2. CASE route.kind = "anthropic"
  BY <1>2, AnthropicOver DEF Finished
<1>3. CASE route.kind = "gemini"
  BY <1>3, GeminiOver DEF Finished
<1> QED
  BY <1>1, <1>2, <1>3 DEF Chat

\* An error and [DONE] behind an answer that broke.
LEMMA BreakOver ==
    ASSUME NEW c, NEW v, Bridge(c), ChatOk(c, v), NEW d, d.out = c.out \o (Bare("error") \o Bare("done")),
           d.tag_opened = c.tag_opened, d.tag_closed = c.tag_closed
    PROVE  /\ ~Has(c.out, "done") => DoneLast(d.out)
           /\ Last(d.out).f = "done" /\ (route.tag => TagShape(d, v))
<1>1. PICK t : t = Bare("error") \o Bare("done")
  OBVIOUS
<1>2. /\ IsSeq(t) /\ ~Has(t, "content") /\ ~Has(t, "tag") /\ ~Has(t, "untag")
      /\ Len(t) = 2 /\ t[1].f = "error" /\ t[2].f = "done"
  BY <1>1, TwoBareIs
<1>3. DOMAIN t = 1 .. 2
  <2>1. PICK S : t \in Seq(S)
    BY <1>2 DEF IsSeq
  <2> QED
    BY <1>2, <2>1, LenProperties
<1>4. DoneLast(t)
  BY <1>2, <1>3 DEF DoneLast
<1>5. ~Has(c.out, "done") => DoneLast(c.out \o t)
  BY <1>2, <1>4, DoneBehind DEF Bridge
<1>6. Last(d.out).f = "done"
  <2>1. PICK s, u : s = c.out /\ u = d.out
    OBVIOUS
  <2>2. Joins(u, s, t)
    BY <1>1, <1>2, <2>1, JoinedIs DEF Bridge
  <2>3. u[Len(u)] = t[2]
    BY <1>2, <2>2 DEF Joins
  <2> QED
    BY <1>2, <2>1, <2>3 DEF Last
<1>7. route.tag => TagShape(d, v)
  <2> SUFFICES ASSUME route.tag PROVE TagShape(d, v)
    OBVIOUS
  <2>1. TagShape(c, v)
    BY DEF ChatOk, TagOk
  <2>2. PICK h : h = [out |-> d.out, tag_opened |-> d.tag_opened, tag_closed |-> d.tag_closed, done |-> c.done]
    OBVIOUS
  <2>3. h.out = c.out \o t /\ ChatFlags(h, c)
    BY <1>1, <2>2 DEF ChatFlags
  <2>5. TagShape(h, v)
    BY <1>2, <2>1, <2>3, PlainShape
  <2>6. h.out = d.out /\ h.tag_opened = d.tag_opened /\ h.tag_closed = d.tag_closed
    BY <2>2
  <2> QED
    BY <2>5, <2>6 DEF TagShape
<1> QED
  BY <1>1, <1>5, <1>6, <1>7

\* A block is stopped once, behind what it holds.
LEMMA BlockStopped ==
    ASSUME NEW s, IsSeq(s), Blocks(s), s # <<>>, NEW y, y.f = "block_stop", y.i \in {0, 1}, At(s, "block_stop", y.i) = {}
    PROVE  LET u == s \o <<y>>
           IN  /\ Blocks(u) /\ IsSeq(u) /\ u # <<>>
               /\ \A i \in {0, 1} : At(u, "block_start", i) = At(s, "block_start", i)
               /\ \A i \in {0, 1} : At(s, "block_stop", i) # {} => At(u, "block_stop", i) # {}
               /\ At(u, "block_stop", y.i) # {}
<1>1. PICK u : u = s \o <<y>>
  OBVIOUS
<1>2. OneMore(u, s, y) /\ IsSeq(u)
  BY <1>1, OneMoreIs, OneJoined
<1>3. PICK n : n = Len(s)
  OBVIOUS
<1>4. n \in Nat /\ \A f, i : At(s, f, i) \subseteq 1 .. n
  BY <1>2, <1>3 DEF OneMore
<1>5. \A f, i : At(u, f, i) = IF y.f = f /\ y.i = i THEN At(s, f, i) \cup {n + 1} ELSE At(s, f, i)
  BY <1>2, <1>3 DEF OneMore
<1>6. \A i \in {0, 1} : \A f \in {"thinking", "text", "block_start"} : At(u, f, i) = At(s, f, i)
  BY <1>5
<1>7. ASSUME NEW i \in {0, 1}
      PROVE  At(u, "block_stop", i) = IF y.i = i THEN {n + 1} ELSE At(s, "block_stop", i)
  <2>1. At(u, "block_stop", i) = IF y.i = i THEN At(s, "block_stop", i) \cup {n + 1} ELSE At(s, "block_stop", i)
    BY <1>5
  <2> QED
    BY <2>1
<1>8. \A i \in {0, 1} : AtMostOne(At(u, "block_start", i)) /\ AtMostOne(At(u, "block_stop", i))
  <2> TAKE i \in {0, 1}
  <2>1. AtMostOne(At(s, "block_start", i)) /\ AtMostOne(At(s, "block_stop", i))
    BY DEF Blocks
  <2>2. At(u, "block_start", i) = At(s, "block_start", i)
    BY <1>6
  <2>3. AtMostOne(At(u, "block_stop", i))
    <3>1. CASE y.i = i
      <4>1. At(u, "block_stop", i) = {n + 1}
        BY <1>7, <3>1
      <4> QED
        BY <4>1 DEF AtMostOne
    <3>2. CASE y.i # i
      <4>1. At(u, "block_stop", i) = At(s, "block_stop", i)
        BY <1>7, <3>2
      <4> QED
        BY <2>1, <4>1
    <3> QED
      BY <3>1, <3>2
  <2> QED
    BY <2>1, <2>2, <2>3
<1>9. ASSUME NEW i \in {0, 1}, NEW f \in {"thinking", "text"}
      PROVE  Behind(At(u, f, i), At(u, "block_start", i)) /\ Ahead(At(u, f, i), At(u, "block_stop", i))
  <2>1. Behind(At(s, f, i), At(s, "block_start", i)) /\ Ahead(At(s, f, i), At(s, "block_stop", i))
    BY DEF Blocks
  <2>2. At(u, f, i) = At(s, f, i) /\ At(u, "block_start", i) = At(s, "block_start", i)
    BY <1>6
  <2>3. Ahead(At(s, f, i), At(u, "block_stop", i))
    <3>1. CASE y.i = i
      <4>1. At(u, "block_stop", i) = {n + 1}
        BY <1>7, <3>1
      <4>2. At(s, f, i) \subseteq 1 .. n
        BY <1>4
      <4> QED
        BY <1>4, <4>1, <4>2 DEF Ahead
    <3>2. CASE y.i # i
      <4>1. At(u, "block_stop", i) = At(s, "block_stop", i)
        BY <1>7, <3>2
      <4> QED
        BY <2>1, <4>1
    <3> QED
      BY <3>1, <3>2
  <2> QED
    BY <2>1, <2>2, <2>3
<1>10. Behind(At(u, "block_start", 1), At(u, "block_stop", 0))
  <2>1. Behind(At(s, "block_start", 1), At(s, "block_stop", 0))
    BY DEF Blocks
  <2>2. At(u, "block_start", 1) = At(s, "block_start", 1)
    BY <1>6
  <2>3. CASE y.i = 0
    <3>1. At(s, "block_start", 1) = {}
      BY <2>1, <2>3 DEF Behind
    <3> QED
      BY <2>2, <3>1 DEF Behind
  <2>4. CASE y.i # 0
    <3>1. At(u, "block_stop", 0) = At(s, "block_stop", 0)
      BY <1>7, <2>4
    <3> QED
      BY <2>1, <2>2, <3>1
  <2> QED
    BY <2>3, <2>4
<1>11. u # <<>> /\ u[1].f = "message_start"
  BY <1>2 DEF OneMore, Blocks
<1>12. \A p \in DOMAIN u : u[p].f \in {"thinking", "text"} => u[p].i \in {0, 1}
  BY <1>1, IndexedFrames DEF Blocks
<1>13. Blocks(u)
  BY <1>8, <1>9, <1>10, <1>11, <1>12 DEF Blocks
<1>14. At(u, "block_stop", y.i) # {} /\ \A i \in {0, 1} : At(s, "block_stop", i) # {} => At(u, "block_stop", i) # {}
  BY <1>7
<1> QED
  BY <1>1, <1>2, <1>6, <1>11, <1>13, <1>14

\* All blocks that were started are stopped.
AllStopped(out) == \A i \in {0, 1} : At(out, "block_start", i) # {} => At(out, "block_stop", i) # {}
MsgOver(out) == Blocks(out) /\ IsSeq(out) /\ out # <<>> /\ AllStopped(out) /\ Last(out).f = "message_stop"

LEMMA BlocksStopped ==
    ASSUME NEW d, Bridge(d), MsgShape(d), d.started, d.think_started => d.think_closed
    PROVE  LET g == IF d.text_started THEN bridge_send_chunk(d, BlockFrame("block_stop", TextIndex(d))) ELSE d
           IN  Bridge(g) /\ Blocks(g.out) /\ g.out # <<>> /\ AllStopped(g.out)
<1>1. BlocksBy(d) /\ Blocks(d.out) /\ d.out # <<>> /\ IsSeq(d.out)
  BY DEF MsgShape, Bridge
<1>2. CASE ~d.text_started
  <2>1. AllStopped(d.out)
    BY <1>1, <1>2 DEF AllStopped, BlocksBy
  <2> QED
    BY <1>1, <1>2, <2>1
<1>3. CASE d.text_started
  <2>1. PICK k : k = TextIndex(d)
    OBVIOUS
  <2>2. k = IF d.think_started THEN 1 ELSE 0
    BY <2>1 DEF TextIndex
  <2>3. PICK y : BlockFrame("block_stop", k) = <<y>> /\ y.f = "block_stop" /\ y.i = k
    BY BareIs
  <2>4. PICK g : g = bridge_send_chunk(d, <<y>>)
    OBVIOUS
  <2>5. Bridge(g) /\ g.out = d.out \o <<y>>
    BY <2>4, OneIsSeq, ChunkIs
  <2>6. At(d.out, "block_stop", y.i) = {} /\ y.i \in {0, 1}
    BY <1>1, <2>2, <2>3 DEF BlocksBy
  <2>7. PICK s, u : s = d.out /\ u = g.out
    OBVIOUS
  <2>8. /\ Blocks(u) /\ u # <<>>
        /\ \A i \in {0, 1} : At(u, "block_start", i) = At(s, "block_start", i)
        /\ \A i \in {0, 1} : At(s, "block_stop", i) # {} => At(u, "block_stop", i) # {}
        /\ At(u, "block_stop", y.i) # {}
    <3>1. IsSeq(s) /\ Blocks(s) /\ s # <<>> /\ At(s, "block_stop", y.i) = {} /\ u = s \o <<y>>
      BY <1>1, <2>5, <2>6, <2>7
    <3> QED
      BY <2>3, <2>6, <3>1, BlockStopped
  <2>9. AllStopped(u)
    <3>1. At(u, "block_start", 0) = At(s, "block_start", 0) /\ At(u, "block_start", 1) = At(s, "block_start", 1)
      BY <2>8
    <3>2. At(s, "block_stop", 0) # {} => At(u, "block_stop", 0) # {}
      BY <2>8
    <3>3. k = 0 => At(u, "block_stop", 0) # {}
      BY <2>3, <2>8
    <3>4. k = 1 => At(u, "block_stop", 1) # {}
      BY <2>3, <2>8
    <3>5. CASE d.think_started
      BY <1>1, <2>2, <2>7, <3>2, <3>4, <3>5 DEF AllStopped, BlocksBy
    <3>6. CASE ~d.think_started
      <4>1. At(s, "block_start", 1) = {}
        BY <1>1, <2>7, <3>6 DEF BlocksBy
      <4> QED
        BY <2>2, <3>1, <3>3, <3>6, <4>1 DEF AllStopped
    <3> QED
      BY <3>5, <3>6
  <2> QED
    BY <1>3, <2>1, <2>3, <2>4, <2>5, <2>7, <2>8, <2>9
<1> QED
  BY <1>2, <1>3

\* A frame that is not about blocks stops none.
LEMMA BareStops ==
    ASSUME NEW s, IsSeq(s), Blocks(s), s # <<>>, AllStopped(s), NEW f, f \notin {"thinking", "text", "block_start", "block_stop"}
    PROVE  LET u == s \o Bare(f)
           IN  Blocks(u) /\ IsSeq(u) /\ u # <<>> /\ AllStopped(u) /\ Last(u).f = f
<1>1. PICK u : u = s \o Bare(f)
  OBVIOUS
<1>2. /\ Blocks(u) /\ IsSeq(u) /\ u # <<>> /\ Last(u).f = f
      /\ \A i : \A g \in {"thinking", "text", "block_start", "block_stop"} : At(u, g, i) = At(s, g, i)
  BY <1>1, BareBlocks
<1>3. \A i \in {0, 1} : At(u, "block_start", i) = At(s, "block_start", i) /\ At(u, "block_stop", i) = At(s, "block_stop", i)
  BY <1>2
<1>4. AllStopped(u)
  BY <1>3 DEF AllStopped
<1> QED
  BY <1>1, <1>2, <1>4

LEMMA MessagesOver ==
    ASSUME NEW c, NEW v, MsgGood(c, v), c.headers
    PROVE  LET d == oai_ant_bridge_finish(c)
           IN  MsgOver(d.out) /\ Bridge(d)
<1>1. c.started
  BY DEF MsgGood, MsgShape
<1>2. PICK d : d = StopThinking(c)
  OBVIOUS
<1>3. Bridge(d) /\ MsgShape(d) /\ d.started /\ (d.think_started => d.think_closed)
  BY <1>1, <1>2, Stops
<1>4. PICK g : g = IF d.text_started THEN bridge_send_chunk(d, BlockFrame("block_stop", TextIndex(d))) ELSE d
  OBVIOUS
<1>5. Bridge(g) /\ Blocks(g.out) /\ g.out # <<>> /\ AllStopped(g.out) /\ IsSeq(g.out)
  BY <1>3, <1>4, BlocksStopped DEF Bridge
<1>6. PICK h : h = [g EXCEPT !.done = TRUE]
  OBVIOUS
<1>7. Bridge(h) /\ h.out = g.out
  BY <1>5, <1>6 DEF Bridge, Fields
<1>8. PICK s, t, u : s = g.out /\ t = s \o Bare("message_delta") /\ u = t \o Bare("message_stop")
  OBVIOUS
<1>9. Blocks(t) /\ IsSeq(t) /\ t # <<>> /\ AllStopped(t)
  BY <1>5, <1>8, BareStops
<1>10. Blocks(u) /\ IsSeq(u) /\ u # <<>> /\ AllStopped(u) /\ Last(u).f = "message_stop"
  BY <1>8, <1>9, BareStops
<1>11. PICK k : k = bridge_send_chunk(h, Bare("message_delta") \o Bare("message_stop"))
  OBVIOUS
<1>12. Bridge(k) /\ k.out = h.out \o (Bare("message_delta") \o Bare("message_stop"))
  <2>1. PICK w : w = Bare("message_delta") \o Bare("message_stop")
    OBVIOUS
  <2>2. IsSeq(w)
    BY <2>1, TwoBareIs
  <2>3. k = bridge_send_chunk(h, w)
    BY <1>11, <2>1
  <2> QED
    BY <1>7, <2>1, <2>2, <2>3, ChunkIs
<1>13. k.out = u
  <2>1. IsSeq(Bare("message_delta")) /\ IsSeq(Bare("message_stop"))
    BY BareIs
  <2>2. Associates(s, Bare("message_delta"), Bare("message_stop"))
    BY <1>5, <1>8, <2>1, JoinThree
  <2> QED
    BY <1>7, <1>8, <1>12, <2>2 DEF Associates
<1>14. oai_ant_bridge_finish(c) = k
  BY <1>2, <1>4, <1>6, <1>11 DEF oai_ant_bridge_finish
<1> QED
  BY <1>10, <1>12, <1>13, <1>14 DEF MsgOver

-----------------------------------------------------------------------------
(* The protocol as an invariant                                              *)

\* The bridge c while it reads, and at any time under the handler k.
Reads(c, v) == (route.kind \in Chat => ChatOk(c, v)) /\ (route.kind = "messages" => MsgGood(c, v))
Settled(c, v, k) ==
    /\ route.kind \in Chat =>
         /\ ~k.late /\ ~v.failed => DoneLast(c.out)
         /\ k.pc = "ended" /\ route.kind # "openai" => Has(c.out, "done")
         /\ k.pc = "broken" => Last(c.out).f = "done"
         /\ route.tag => TagShape(c, v) /\ (k.pc = "ended" /\ c.tag_opened => c.tag_closed)
    /\ route.kind = "messages" => Blocks(c.out) /\ (k.pc = "ended" => MsgOver(c.out))
Speaks(c, v, k) == Settled(c, v, k) /\ (k.pc = "reading" => Reads(c, v))

\* The upstream tells its answer in order, and the bridge gives it to the client in order.
Orderly ==
    /\ Numbered(up) /\ BlocksOpen(up)
    /\ line.l \in {"event", "data"} => Steps(up, line)
    /\ Regular /\ ThoughtsFirst(up) => Speaks(b, up, call)

LEMMA ReadsSettled ==
    ASSUME NEW c, NEW v, NEW k, Reads(c, v), k.pc \notin {"ended", "broken"}
    PROVE  Settled(c, v, k)
  BY DEF Reads, Settled, ChatOk, DoneOk, TagOk, DoneLast, MsgGood, MsgShape

LEMMA TagsFollow ==
    ASSUME TagShape(b, up), call.pc = "ended" /\ b.tag_opened => b.tag_closed
    PROVE  TagsAroundThoughts
<1>1. AtMostOne(Positions({"tag"})) /\ AtMostOne(Positions({"untag"}))
  BY DEF TagShape, Once, AtMostOne, Positions
<1>2. ASSUME NEW i \in Positions({"content"})
      PROVE  (\E j \in DOMAIN up.items : up.items[j].n = b.out[i].n /\ up.items[j].k = "reason")
               <=> (\E o \in Positions({"tag"}) : o < i) /\ (\A c \in Positions({"untag"}) : c > i)
  <2>1. i \in DOMAIN b.out /\ b.out[i].f = "content"
    BY DEF Positions
  <2>2. Thoughtful(b.out[i].n, up) <=> Inside(b.out, i)
    BY <2>1 DEF TagShape
  <2>3. Inside(b.out, i) <=> (\E o \in Positions({"tag"}) : o < i) /\ (\A c \in Positions({"untag"}) : c > i)
    BY DEF Inside, Positions
  <2> QED
    BY <2>2, <2>3 DEF Thoughtful
<1>3. call.pc = "ended" /\ Positions({"tag"}) # {} => Positions({"untag"}) # {}
  BY DEF TagShape, Has, Positions
<1> QED
  BY <1>1, <1>2, <1>3 DEF TagsAroundThoughts

LEMMA BlocksFollow ==
    ASSUME Blocks(b.out), call.pc = "ended" => MsgOver(b.out)
    PROVE  BlocksInOrder
<1>1. \A i : Started(i) = At(b.out, "block_start", i) /\ Stopped(i) = At(b.out, "block_stop", i)
  BY DEF Started, Stopped, At, Positions
<1>2. ASSUME NEW p \in Positions({"thinking", "text"})
      PROVE  (\E j \in Started(b.out[p].i) : j < p) /\ (\A j \in Stopped(b.out[p].i) : p < j)
  <2>1. PICK i, f : i = b.out[p].i /\ f = b.out[p].f
    OBVIOUS
  <2>2. p \in DOMAIN b.out /\ f \in {"thinking", "text"} /\ i \in {0, 1}
    BY <2>1 DEF Positions, Blocks
  <2>3. p \in At(b.out, f, i)
    BY <2>1, <2>2 DEF At
  <2>4. Behind(At(b.out, f, i), At(b.out, "block_start", i)) /\ Ahead(At(b.out, f, i), At(b.out, "block_stop", i))
    BY <2>2 DEF Blocks
  <2>5. Started(i) = At(b.out, "block_start", i) /\ Stopped(i) = At(b.out, "block_stop", i)
    BY <1>1
  <2> QED
    BY <2>1, <2>3, <2>4, <2>5 DEF Behind, Ahead
<1>3. \A i \in {0, 1} : AtMostOne(Started(i)) /\ AtMostOne(Stopped(i))
  <2> TAKE i \in {0, 1}
  <2>1. AtMostOne(At(b.out, "block_start", i)) /\ AtMostOne(At(b.out, "block_stop", i))
    BY DEF Blocks
  <2>2. Started(i) = At(b.out, "block_start", i) /\ Stopped(i) = At(b.out, "block_stop", i)
    BY <1>1
  <2> QED
    BY <2>1, <2>2
<1>4. \A j \in Started(1) : \E h \in Stopped(0) : h < j
  <2>1. Started(1) = At(b.out, "block_start", 1) /\ Stopped(0) = At(b.out, "block_stop", 0)
    BY <1>1
  <2>2. Behind(At(b.out, "block_start", 1), At(b.out, "block_stop", 0))
    BY DEF Blocks
  <2> QED
    BY <2>1, <2>2 DEF Behind
<1>5. ASSUME call.pc = "ended" PROVE Last(b.out).f = "message_stop" /\ \A i \in {0, 1} : Started(i) # {} => Stopped(i) # {}
  <2>1. Last(b.out).f = "message_stop" /\ AllStopped(b.out)
    BY <1>5 DEF MsgOver
  <2>2. \A i \in {0, 1} : Started(i) # {} => Stopped(i) # {}
    <3> TAKE i \in {0, 1}
    <3>1. Started(i) = At(b.out, "block_start", i) /\ Stopped(i) = At(b.out, "block_stop", i)
      BY <1>1
    <3> QED
      BY <2>1, <3>1 DEF AllStopped
  <2> QED
    BY <2>1, <2>2
<1>6. b.out # <<>> => b.out[1].f = "message_start"
  BY DEF Blocks
<1> QED
  BY <1>2, <1>3, <1>4, <1>5, <1>6 DEF BlocksInOrder

LEMMA OrderlyProtocol == ASSUME StreamInv, Orderly PROVE ClientProtocol
<1> SUFFICES ASSUME Regular, ThoughtsFirst(up) PROVE DoneIsLast /\ TagsAroundThoughts /\ BlocksInOrder
  BY DEF ClientProtocol
<1>1. Settled(b, up, call)
  BY DEF Orderly, Speaks
<1>2. DoneIsLast
  <2> SUFFICES ASSUME route.kind \in Chat
               PROVE  /\ ~call.late /\ ~up.failed => \A i \in Positions({"done"}) : i = Len(b.out)
                      /\ call.pc = "ended" /\ route.kind # "openai" => Positions({"done"}) # {}
                      /\ call.pc = "broken" => Last(b.out).f = "done"
    BY DEF DoneIsLast
  <2> QED
    BY <1>1 DEF Settled, DoneLast, Has, Positions
<1>3. TagsAroundThoughts
  <2> SUFFICES ASSUME route.tag PROVE TagsAroundThoughts
    BY DEF TagsAroundThoughts
  <2>1. route.kind \in Chat
    BY StreamAssumption DEF StreamInv, Shapes, Chat
  <2> QED
    BY <1>1, <2>1, TagsFollow DEF Settled
<1>4. BlocksInOrder
  <2> SUFFICES ASSUME route.kind = "messages" PROVE BlocksInOrder
    BY DEF BlocksInOrder
  <2> QED
    BY <1>1, BlocksFollow DEF Settled
<1> QED
  BY <1>2, <1>3, <1>4

\* The bridge at the start.
LEMMA FreshReads == Reads(bridge_new, NewUp) /\ Numbered(NewUp) /\ BlocksOpen(NewUp)
<1>1. PICK c, s : c = bridge_new /\ s = <<>>
  OBVIOUS
<1>2. /\ c.out = s /\ ~c.headers /\ ~c.done /\ ~c.tag_opened /\ ~c.tag_closed /\ ~c.started /\ ~c.think_started
      /\ ~c.think_closed /\ ~c.text_started /\ ~c.in_thinking
  BY <1>1 DEF bridge_new
<1>3. Bridge(c)
  BY <1>1, FreshStream
<1>4. DOMAIN s = {} /\ s = <<>> /\ IsSeq(s) /\ Len(s) = 0
  BY <1>1, NothingIsSeq
<1>5. ChatOk(c, NewUp)
  BY <1>2, <1>4 DEF ChatOk, DoneOk, TagOk, Sync, TagShape, Undone, Has, Once
<1>6. \A f, i : At(s, f, i) = {}
  BY <1>4 DEF At
<1>7. Blocks(s)
  <2>1. \A i \in {0, 1} : AtMostOne(At(s, "block_start", i)) /\ AtMostOne(At(s, "block_stop", i))
    BY <1>6 DEF AtMostOne
  <2>2. \A i \in {0, 1}, f \in {"thinking", "text"} :
          Behind(At(s, f, i), At(s, "block_start", i)) /\ Ahead(At(s, f, i), At(s, "block_stop", i))
    BY <1>6 DEF Behind, Ahead
  <2>3. Behind(At(s, "block_start", 1), At(s, "block_stop", 0))
    BY <1>6 DEF Behind
  <2> QED
    BY <1>4, <2>1, <2>2, <2>3 DEF Blocks
<1>8. BlocksBy(c)
  <2>1. /\ At(s, "thinking", 1) = {} /\ At(s, "block_stop", 1) = {} /\ At(s, "block_start", 0) = {}
        /\ At(s, "block_start", 1) = {} /\ At(s, "block_stop", 0) = {} /\ At(s, "text", 0) = {}
    BY <1>6
  <2> QED
    BY <1>2, <2>1 DEF BlocksBy
<1>9. MsgGood(c, NewUp)
  BY <1>2, <1>3, <1>4, <1>7, <1>8 DEF MsgGood, MsgShape
<1>10. Numbered(NewUp)
  BY DEF Numbered, NewUp
<1>11. BlocksOpen(NewUp)
  BY NothingIsSeq DEF BlocksOpen, InThoughts, NewUp
<1> QED
  BY <1>1, <1>5, <1>9, <1>10, <1>11 DEF Reads

LEMMA InitOrderly == ASSUME StreamInit PROVE Orderly
<1>1. up = NewUp /\ b = bridge_new /\ line = NoLine /\ call.pc = "reading"
  BY DEF StreamInit
<1>2. Reads(b, up) /\ Numbered(up) /\ BlocksOpen(up)
  BY <1>1, FreshReads
<1>3. Settled(b, up, call)
  BY <1>1, <1>2, ReadsSettled
<1> QED
  BY <1>1, <1>2, <1>3, NoLines DEF Orderly, Speaks

\* The route stays.
LEMMA SameSpeaks ==
    ASSUME route' = route
    PROVE  /\ Speaks(b, up, call)' <=> Speaks(b', up', call')
           /\ Steps(up, line)' <=> Steps(up', line')
<1>1. ChatOk(b, up)' <=> ChatOk(b', up')
  BY DEF ChatOk, DoneOk, Undone, TagOk, Sync, Began, Past
<1>2. Reads(b, up)' <=> Reads(b', up')
  BY <1>1 DEF Reads
<1>3. Settled(b, up, call)' <=> Settled(b', up', call')
  BY DEF Settled
<1>4. Steps(up, line)' <=> Steps(up', line')
  BY DEF Steps
<1> QED
  BY <1>2, <1>3, <1>4 DEF Speaks

-----------------------------------------------------------------------------
(* The protocol through the upstream's steps                                 *)

LEMMA SameSteps ==
    ASSUME NEW v, NEW e, NEW d, d.t = e.t, d.k = e.k, d.u = e.u, Steps(v, e)
    PROVE  Steps(v, d)
<1>1. New(d) = New(e) /\ (Completes(v, d) <=> Completes(v, e)) /\ (IsThought(d) <=> IsThought(e))
  BY DEF New, Completes, IsThought
<1>2. ClaudeSteps(v, e) => ClaudeSteps(v, d)
  BY DEF ClaudeSteps
<1>3. OpenAiSteps(v, e) => OpenAiSteps(v, d)
  BY DEF OpenAiSteps
<1> QED
  BY <1>1, <1>2, <1>3 DEF Steps

LEMMA SendsOrderly ==
    ASSUME StreamInv, Orderly, NEW t, NEW k, NEW u, Sends(t, k, u), Steps(up, Told(t, k, u))
    PROVE  Orderly'
<1>0. route' = route /\ up' = up /\ b' = b /\ call' = call
  BY DEF Sends
<1>1. PICK size : /\ line' = [l |-> IF route.kind \in Evented THEN "event" ELSE "data",
                              t |-> t, k |-> k, size |-> size, sent |-> 0, u |-> u]
                  /\ seen' = [seen EXCEPT !.long = @ \/ size >= LineCap - 1]
  BY DEF Sends
<1>2. Steps(up, line')
  <2>1. PICK e : e = Told(t, k, u)
    OBVIOUS
  <2>2. line'.t = e.t /\ line'.k = e.k /\ line'.u = e.u
    BY <1>1, <2>1 DEF Told
  <2> QED
    BY <2>1, <2>2, SameSteps
<1>3. Regular' => Regular
  <2>1. PICK p : p = (size >= LineCap - 1)
    OBVIOUS
  <2>2. seen' = [seen EXCEPT !.long = seen.long \/ p] /\ DOMAIN seen = {"long", "parts"}
    BY <1>1, <2>1 DEF StreamInv, Shapes
  <2>3. seen'.long = (seen.long \/ p)
    BY <2>2
  <2> QED
    BY <1>0, <2>3 DEF Regular
<1>4. (Numbered(up) /\ BlocksOpen(up))'
  BY <1>0 DEF Orderly, Numbered, BlocksOpen, InThoughts, HasThoughts
<1>5. (line.l \in {"event", "data"} => Steps(up, line))'
  BY <1>0, <1>2, SameSpeaks
<1>6. (Regular /\ ThoughtsFirst(up) => Speaks(b, up, call))'
  <2> SUFFICES ASSUME Regular', ThoughtsFirst(up)' PROVE Speaks(b, up, call)'
    OBVIOUS
  <2>1. ThoughtsFirst(up)
    BY <1>0 DEF ThoughtsFirst
  <2>2. Speaks(b, up, call)
    BY <1>3, <2>1 DEF Orderly
  <2> QED
    BY <1>0, <2>2, SameSpeaks
<1> QED
  BY <1>4, <1>5, <1>6 DEF Orderly

LEMMA QuietNumbered == ASSUME Numbered(up), NEW u, Quiet(u) PROVE Numbered(u)
  BY DEF Numbered, Quiet

LEMMA GrownNumbered ==
    ASSUME UpOk(up), Numbered(up), NEW k, NEW u, u.n = Grown(k).n, u.items = Grown(k).items
    PROVE  Numbered(u) /\ Last(u.items).k = k
<1>1. PICK x : x = [n |-> up.n + 1, k |-> k, w |-> IF k = "wide" THEN 2 ELSE 1]
  OBVIOUS
<1>2. u.n = up.n + 1 /\ u.items = Append(up.items, x) /\ x.n = up.n + 1 /\ x.k = k
  BY <1>1 DEF Grown, UpOk, UpFields
<1>3. PICK s : s = up.items
  OBVIOUS
<1>4. s \in Seq(ItemType)
  BY <1>3 DEF UpOk
<1>5. IsSeq(s)
  BY <1>4 DEF IsSeq
<1>6. /\ Len(s) \in Nat /\ DOMAIN s = 1 .. Len(s) /\ DOMAIN Append(s, x) = 1 .. Len(s) + 1
      /\ Len(Append(s, x)) = Len(s) + 1 /\ Append(s, x)[Len(s) + 1] = x
      /\ \A i \in 1 .. Len(s) : Append(s, x)[i] = s[i]
  BY <1>5, AppendIs
<1>7. up.n = Len(s) /\ \A j \in DOMAIN s : s[j].n = j
  BY <1>3 DEF Numbered
<1>8. Numbered(u)
  <2>1. PICK a : a = Append(s, x)
    OBVIOUS
  <2>2. DOMAIN a = 1 .. Len(s) + 1 /\ Len(a) = Len(s) + 1 /\ a[Len(s) + 1] = x /\ \A i \in 1 .. Len(s) : a[i] = s[i]
    BY <1>6, <2>1
  <2>3. u.items = a /\ u.n = Len(s) + 1 /\ x.n = Len(s) + 1
    BY <1>2, <1>3, <1>7, <2>1
  <2>4. \A j \in DOMAIN a : a[j].n = j
    BY <1>6, <1>7, <2>2, <2>3
  <2> QED
    BY <2>2, <2>3, <2>4 DEF Numbered
<1>9. Last(u.items) = x
  BY <1>2, <1>3, <1>6 DEF Last
<1> QED
  BY <1>2, <1>8, <1>9

\* Lines of the upstreams that have no blocks.
LEMMA PlainSends ==
    ASSUME StreamInv, Orderly, route.kind \notin ClaudeSide, NEW t, NEW k, NEW u, Sends(t, k, u),
           k \notin {"redacted_thinking", "thinking_delta", "text_delta"},
           t \notin {"content_block_start", "content_block_delta", "content_block_stop"},
           u.blocks = up.blocks, u.st # "block", up.st # "end", Numbered(u),
           t \in {"reason", "text", "wide", "tool"} => Last(u.items).k = t,
           t = "output" => Last(u.items).k = "text",
           route.kind \in {"openai", "messages"} => OpenAiSteps(up, Told(t, k, u))
    PROVE  Orderly'
<1>1. PICK e : e = Told(t, k, u)
  OBVIOUS
<1>2. e.t = t /\ e.k = k /\ e.u = u
  BY <1>1 DEF Told
<1>3. BlocksOpen(e.u)
  BY <1>2 DEF Orderly, BlocksOpen, InThoughts
<1>4. Completes(up, e) => (New(e).k = "reason" <=> IsThought(e))
  BY <1>2 DEF Completes, New, IsThought
<1>5. e.t \in {"text", "wide"} => New(e).k \in {"text", "wide"}
  BY <1>2 DEF New
<1>6. Steps(up, e)
  BY <1>1, <1>2, <1>3, <1>4, <1>5 DEF Steps
<1> QED
  BY <1>1, <1>6, SendsOrderly

LEMMA UpIs == ASSUME StreamInv PROVE UpOk(up) /\ DOMAIN up = UpFields
  BY DEF StreamInv, Shapes, UpOk

LEMMA OpenAiOrderly == ASSUME StreamInv, Orderly, OpenAiUpstream PROVE Orderly'
<1>1. UpOk(up) /\ DOMAIN up = UpFields /\ Numbered(up)
  BY UpIs DEF Orderly
<1>2. route.kind \in {"openai", "messages"} /\ route.kind \notin ClaudeSide
  BY DEF OpenAiUpstream, ClaudeSide
<1>3. ASSUME NEW t \in {"hello", "finish", "usage", "done"}, NEW u, Sends(t, "", u), Quiet(u), u.blocks = up.blocks,
             u.st = (CASE t = "hello" -> "body" [] t = "finish" -> "fin" [] t = "usage" -> "used" [] t = "done" -> "end"),
             up.st \notin {"end", "block"}, t = "hello" => up.st = "start"
      PROVE  Orderly'
  <2>1. Numbered(u)
    BY <1>1, <1>3, QuietNumbered
  <2>2. PICK k : k = ""
    OBVIOUS
  <2>3. PICK e : e = Told(t, k, u)
    OBVIOUS
  <2>4. e.t = t /\ e.k = k /\ e.u = u
    BY <2>3 DEF Told
  <2>5. OpenAiSteps(up, e)
    BY <1>3, <2>4 DEF OpenAiSteps, Late
  <2>6. OpenAiSteps(up, Told(t, k, u)) /\ Sends(t, k, u) /\ u.st # "block"
    BY <1>3, <2>2, <2>3, <2>5
  <2>7. /\ k \notin {"redacted_thinking", "thinking_delta", "text_delta"}
        /\ t \notin {"content_block_start", "content_block_delta", "content_block_stop"}
        /\ t \notin {"reason", "text", "wide", "tool"} /\ t # "output"
    BY <1>3, <2>2
  <2> QED
    BY <1>2, <1>3, <2>1, <2>6, <2>7, PlainSends
<1>4. ASSUME NEW k \in {"reason", "text", "wide", "tool"}, up.st = "body", Sends(k, k, Grown(k))
      PROVE  Orderly'
  <2>1. PICK u : u = Grown(k)
    OBVIOUS
  <2>2. u.n = Grown(k).n /\ u.items = Grown(k).items /\ u.st = "body" /\ u.blocks = up.blocks
    BY <1>1, <1>4, <2>1 DEF Grown, UpFields
  <2>3. Numbered(u) /\ Last(u.items).k = k
    BY <1>1, <2>2, GrownNumbered
  <2>4. PICK t : t = k
    OBVIOUS
  <2>5. PICK e : e = Told(t, k, u)
    OBVIOUS
  <2>6. e.t = t /\ e.k = k /\ e.u = u
    BY <2>5 DEF Told
  <2>7. OpenAiSteps(up, e)
    BY <1>4, <2>2, <2>4, <2>6 DEF OpenAiSteps, Late
  <2>8. OpenAiSteps(up, Told(t, k, u)) /\ Sends(t, k, u) /\ u.st # "block"
    BY <1>4, <2>1, <2>2, <2>4, <2>5, <2>7
  <2>9. /\ k \notin {"redacted_thinking", "thinking_delta", "text_delta"}
        /\ t \notin {"content_block_start", "content_block_delta", "content_block_stop"}
        /\ (t \in {"reason", "text", "wide", "tool"} => Last(u.items).k = t) /\ t # "output" /\ up.st # "end"
    BY <1>4, <2>3, <2>4
  <2> QED
    BY <1>2, <2>2, <2>3, <2>8, <2>9, PlainSends
<1>5. CASE up.st = "start" /\ Sends("hello", "", [up EXCEPT !.st = "body"])
  <2>1. PICK u : u = [up EXCEPT !.st = "body"]
    OBVIOUS
  <2>2. Quiet(u) /\ u.blocks = up.blocks /\ u.st = "body"
    BY <1>1, <2>1 DEF Quiet, UpFields
  <2> QED
    BY <1>3, <1>5, <2>1, <2>2
<1>6. CASE up.st = "body" /\ Sends("finish", "", [up EXCEPT !.st = "fin"])
  <2>1. PICK u : u = [up EXCEPT !.st = "fin"]
    OBVIOUS
  <2>2. Quiet(u) /\ u.blocks = up.blocks /\ u.st = "fin"
    BY <1>1, <2>1 DEF Quiet, UpFields
  <2> QED
    BY <1>3, <1>6, <2>1, <2>2
<1>7. CASE up.st = "fin" /\ Sends("usage", "", [up EXCEPT !.st = "used", !.tok = {"in", "out"}])
  <2>1. PICK u : u = [up EXCEPT !.st = "used", !.tok = {"in", "out"}]
    OBVIOUS
  <2>2. Quiet(u) /\ u.blocks = up.blocks /\ u.st = "used"
    BY <1>1, <2>1 DEF Quiet, UpFields
  <2> QED
    BY <1>3, <1>7, <2>1, <2>2
<1>8. CASE up.st \in {"fin", "used"} /\ Sends("done", "", [up EXCEPT !.st = "end"])
  <2>1. PICK u : u = [up EXCEPT !.st = "end"]
    OBVIOUS
  <2>2. Quiet(u) /\ u.blocks = up.blocks /\ u.st = "end"
    BY <1>1, <2>1 DEF Quiet, UpFields
  <2> QED
    BY <1>3, <1>8, <2>1, <2>2
<1> QED
  BY <1>4, <1>5, <1>6, <1>7, <1>8 DEF OpenAiUpstream

LEMMA ResponsesOrderly == ASSUME StreamInv, Orderly, ResponsesUpstream PROVE Orderly'
<1>1. UpOk(up) /\ DOMAIN up = UpFields /\ Numbered(up)
  BY UpIs DEF Orderly
<1>2. route.kind \notin {"openai", "messages"} /\ route.kind \notin ClaudeSide
  BY DEF ResponsesUpstream, ClaudeSide
<1>3. ASSUME NEW t \in {"hello", "output", "usage"}, NEW u, Sends(t, "", u), u.blocks = up.blocks, u.st # "block",
             up.st # "end", Numbered(u), t = "output" => Last(u.items).k = "text"
      PROVE  Orderly'
  <2>1. PICK k : k = ""
    OBVIOUS
  <2>2. /\ k \notin {"redacted_thinking", "thinking_delta", "text_delta"} /\ Sends(t, k, u)
        /\ t \notin {"content_block_start", "content_block_delta", "content_block_stop"}
        /\ t \notin {"reason", "text", "wide", "tool"}
    BY <1>3, <2>1
  <2> QED
    BY <1>2, <1>3, <2>2, PlainSends
<1>4. CASE up.st = "start" /\ Sends("hello", "", [up EXCEPT !.st = "body"])
  <2>1. PICK u : u = [up EXCEPT !.st = "body"]
    OBVIOUS
  <2>2. Quiet(u) /\ u.blocks = up.blocks /\ u.st = "body"
    BY <1>1, <2>1 DEF Quiet, UpFields
  <2>3. Numbered(u)
    BY <1>1, <2>2, QuietNumbered
  <2> QED
    BY <1>3, <1>4, <2>1, <2>2, <2>3
<1>5. CASE up.st = "body" /\ Sends("output", "", Grown("text"))
  <2>1. PICK u, k : u = Grown(k) /\ k = "text"
    OBVIOUS
  <2>2. u.n = Grown(k).n /\ u.items = Grown(k).items /\ u.st = "body" /\ u.blocks = up.blocks
    BY <1>1, <1>5, <2>1 DEF Grown, UpFields
  <2>3. Numbered(u) /\ Last(u.items).k = k
    BY <1>1, <2>2, GrownNumbered
  <2> QED
    BY <1>3, <1>5, <2>1, <2>2, <2>3
<1>6. CASE up.st = "body" /\ Sends("usage", "", [up EXCEPT !.st = "end", !.tok = {"in", "out"}])
  <2>1. PICK u : u = [up EXCEPT !.st = "end", !.tok = {"in", "out"}]
    OBVIOUS
  <2>2. Quiet(u) /\ u.blocks = up.blocks /\ u.st = "end"
    BY <1>1, <2>1 DEF Quiet, UpFields
  <2>3. Numbered(u)
    BY <1>1, <2>2, QuietNumbered
  <2> QED
    BY <1>3, <1>6, <2>1, <2>2, <2>3
<1> QED
  BY <1>4, <1>5, <1>6 DEF ResponsesUpstream

LEMMA GeminiOrderly == ASSUME StreamInv, Orderly, GeminiUpstream PROVE Orderly'
<1>1. UpOk(up) /\ DOMAIN up = UpFields /\ Numbered(up) /\ up.st # "end"
  BY UpIs DEF Orderly, GeminiUpstream
<1>2. route.kind \notin {"openai", "messages"} /\ route.kind \notin ClaudeSide
  BY DEF GeminiUpstream, ClaudeSide
<1>3. ASSUME NEW k \in {"reason", "text", "tool"}, Sends(k, k, [Grown(k) EXCEPT !.st = "body", !.tok = {"in"}])
      PROVE  Orderly'
  <2>1. PICK u : u = [Grown(k) EXCEPT !.st = "body", !.tok = {"in"}]
    OBVIOUS
  <2>2. DOMAIN Grown(k) = UpFields /\ Grown(k).blocks = up.blocks
    BY <1>1 DEF Grown, UpFields
  <2>3. u.n = Grown(k).n /\ u.items = Grown(k).items /\ u.st = "body" /\ u.blocks = up.blocks
    BY <2>1, <2>2 DEF UpFields
  <2>4. Numbered(u) /\ Last(u.items).k = k
    BY <1>1, <2>3, GrownNumbered
  <2>5. PICK t : t = k
    OBVIOUS
  <2>6. /\ k \notin {"redacted_thinking", "thinking_delta", "text_delta"} /\ Sends(t, k, u)
        /\ t \notin {"content_block_start", "content_block_delta", "content_block_stop"}
        /\ (t \in {"reason", "text", "wide", "tool"} => Last(u.items).k = t) /\ t # "output"
    BY <1>3, <2>1, <2>4, <2>5
  <2> QED
    BY <1>1, <1>2, <2>3, <2>4, <2>6, PlainSends
<1>4. CASE Sends("finish", "", [up EXCEPT !.st = "end", !.tok = {"in", "out"}])
  <2>1. PICK u, t, k : u = [up EXCEPT !.st = "end", !.tok = {"in", "out"}] /\ t = "finish" /\ k = ""
    OBVIOUS
  <2>2. Quiet(u) /\ u.blocks = up.blocks /\ u.st = "end"
    BY <1>1, <2>1 DEF Quiet, UpFields
  <2>3. Numbered(u)
    BY <1>1, <2>2, QuietNumbered
  <2>4. /\ k \notin {"redacted_thinking", "thinking_delta", "text_delta"} /\ Sends(t, k, u)
        /\ t \notin {"content_block_start", "content_block_delta", "content_block_stop"}
        /\ t \notin {"reason", "text", "wide", "tool"} /\ t # "output" /\ u.st # "block"
    BY <1>4, <2>1, <2>2
  <2> QED
    BY <1>1, <1>2, <2>2, <2>3, <2>4, PlainSends
<1> QED
  BY <1>3, <1>4 DEF GeminiUpstream

LEMMA BlockAppended ==
    ASSUME BlocksOpen(up), NEW u, NEW k, u.blocks = Append(up.blocks, k), u.blk \in Thinks => k = "thinking"
    PROVE  BlocksOpen(u)
<1>1. PICK s, a : s = up.blocks /\ a = Append(s, k)
  OBVIOUS
<1>2. IsSeq(s)
  BY <1>1 DEF BlocksOpen
<1>3. /\ Len(s) \in Nat /\ DOMAIN s = 1 .. Len(s) /\ DOMAIN Append(s, k) = 1 .. Len(s) + 1
      /\ Len(Append(s, k)) = Len(s) + 1 /\ Append(s, k)[Len(s) + 1] = k
      /\ \A i \in 1 .. Len(s) : Append(s, k)[i] = s[i]
  BY <1>2, AppendIs
<1>4. IsSeq(a)
  <2>1. PICK S : s \in Seq(S)
    BY <1>2 DEF IsSeq
  <2>2. s \in Seq(S \cup {k}) /\ k \in S \cup {k}
    BY <2>1, SeqMonotonic
  <2>3. Append(s, k) \in Seq(S \cup {k})
    BY <2>2, AppendProperties
  <2> QED
    BY <1>1, <2>3 DEF IsSeq
<1>5. u.blocks = a
  BY <1>1
<1>6. k = "thinking" => HasThoughts(u)
  <2>1. Len(s) + 1 \in DOMAIN a /\ a[Len(s) + 1] = k
    BY <1>1, <1>3
  <2> QED
    BY <1>5, <2>1 DEF HasThoughts
<1> QED
  BY <1>4, <1>5, <1>6 DEF BlocksOpen, InThoughts

\* A line of an Anthropic upstream.
LEMMA BlockSends ==
    ASSUME StreamInv, Orderly, route.kind \in ClaudeSide, NEW t, NEW k, NEW u, Sends(t, k, u), NEW e, e = Told(t, k, u),
           t \notin {"reason", "text", "wide"}, up.st # "end", Numbered(u), BlocksOpen(u), ClaudeSteps(up, e),
           Completes(up, e) => (Last(u.items).k = "reason" <=> k \in {"redacted_thinking", "thinking_delta"})
    PROVE  Orderly'
<1>1. e.t = t /\ e.k = k /\ e.u = u
  BY DEF Told
<1>2. Completes(up, e) => (New(e).k = "reason" <=> IsThought(e))
  BY <1>1 DEF New, IsThought
<1>3. Steps(up, e)
  BY <1>1, <1>2 DEF Steps, ClaudeSide
<1> QED
  BY <1>3, SendsOrderly

\* One that brings no item and opens no block.
LEMMA ClaudeQuiet ==
    ASSUME StreamInv, Orderly, route.kind \in ClaudeSide, NEW t, NEW k, NEW u, Sends(t, k, u), NEW e, e = Told(t, k, u),
           t \in {"message_start", "content_block_delta", "content_block_stop", "message_delta", "message_stop", "error"},
           k \in {"", "input_json_delta", "signature_delta"}, up.st # "end", Quiet(u), u.blocks = up.blocks,
           InThoughts(u) => InThoughts(up), ~Completes(up, e), ClaudeSteps(up, e)
    PROVE  Orderly'
<1>1. Numbered(up) /\ BlocksOpen(up)
  BY DEF Orderly
<1>2. Numbered(u)
  BY <1>1, QuietNumbered
<1>3. BlocksOpen(u)
  BY <1>1 DEF BlocksOpen, HasThoughts
<1>4. t \notin {"reason", "text", "wide"}
  OBVIOUS
<1> QED
  BY <1>2, <1>3, <1>4, BlockSends

LEMMA ClaudeOrderly == ASSUME StreamInv, Orderly, ClaudeUpstream PROVE Orderly'
<1>1. UpOk(up) /\ DOMAIN up = UpFields /\ Numbered(up) /\ BlocksOpen(up)
  BY UpIs DEF Orderly
<1>2. route.kind \in ClaudeSide
  BY DEF ClaudeUpstream
<1>3. ASSUME NEW t \in {"message_start", "content_block_stop", "message_delta", "message_stop", "error"}, NEW k, k = "",
             NEW u, Sends(t, k, u), Quiet(u), u.blocks = up.blocks, u.st # "block", up.st # "end",
             t = "content_block_stop" => up.blk \notin ToolBlocks, t = "message_stop" => u.st = "end",
             t = "error" => u.st = "end" /\ u.failed
      PROVE  Orderly'
  <2>1. PICK e : e = Told(t, k, u)
    OBVIOUS
  <2>2. e.t = t /\ e.k = k /\ e.u = u
    BY <2>1 DEF Told
  <2>3. ClaudeSteps(up, e)
    BY <1>3, <2>2 DEF ClaudeSteps
  <2>4. ~Completes(up, e)
    BY <1>3, <2>2 DEF Completes
  <2>5. ~InThoughts(u)
    BY <1>3 DEF InThoughts
  <2>6. /\ t \in {"message_start", "content_block_delta", "content_block_stop", "message_delta", "message_stop", "error"}
        /\ k \in {"", "input_json_delta", "signature_delta"}
    BY <1>3
  <2> QED
    BY <1>2, <1>3, <2>1, <2>3, <2>4, <2>5, <2>6, ClaudeQuiet
<1>4. CASE up.st = "start" /\ Sends("message_start", "", [up EXCEPT !.st = "open", !.tok = {"in"}])
  <2>1. PICK u : u = [up EXCEPT !.st = "open", !.tok = {"in"}]
    OBVIOUS
  <2>2. Quiet(u) /\ u.blocks = up.blocks /\ u.st = "open"
    BY <1>1, <2>1 DEF Quiet, UpFields
  <2> QED
    BY <1>3, <1>4, <2>1, <2>2
<1>5. ASSUME NEW k \in {"thinking", "text", "tool_use"}, up.st = "open",
             Sends("content_block_start", k, [up EXCEPT !.st = "block", !.blk = k, !.blocks = Append(@, k)])
      PROVE  Orderly'
  <2>1. PICK u, t : u = [up EXCEPT !.st = "block", !.blk = k, !.blocks = Append(@, k)] /\ t = "content_block_start"
    OBVIOUS
  <2>2. Quiet(u) /\ u.blocks = Append(up.blocks, k) /\ u.st = "block" /\ u.blk = k
    BY <1>1, <2>1 DEF Quiet, UpFields
  <2>3. PICK e : e = Told(t, k, u)
    OBVIOUS
  <2>4. e.t = "content_block_start" /\ e.k = k /\ e.u = u
    BY <2>1, <2>3 DEF Told
  <2>5. u.blk \in Thinks => k = "thinking"
    BY <1>5, <2>2 DEF Thinks
  <2>6. ClaudeSteps(up, e)
    BY <1>5, <2>2, <2>4, <2>5 DEF ClaudeSteps, Thinks
  <2>7. Numbered(u) /\ BlocksOpen(u)
    BY <1>1, <2>2, <2>5, QuietNumbered, BlockAppended
  <2>8. ~Completes(up, e)
    BY <1>5, <2>4 DEF Completes
  <2>9. Sends(t, k, u) /\ t \notin {"reason", "text", "wide"} /\ up.st # "end"
    BY <1>5, <2>1
  <2> QED
    BY <1>2, <2>3, <2>6, <2>7, <2>8, <2>9, BlockSends
<1>6. CASE up.st = "open" /\ Sends("content_block_start", "redacted_thinking",
                [Grown("reason") EXCEPT !.st = "block", !.blk = "redacted", !.blocks = Append(@, "thinking")])
  <2>1. PICK u, t, k, j, g : /\ u = [Grown("reason") EXCEPT !.st = "block", !.blk = "redacted", !.blocks = Append(@, "thinking")]
                             /\ t = "content_block_start" /\ k = "redacted_thinking" /\ j = "reason" /\ g = Grown(j)
    OBVIOUS
  <2>2. DOMAIN g = UpFields /\ g.blocks = up.blocks
    BY <1>1, <2>1 DEF Grown, UpFields
  <2>3. u = [g EXCEPT !.st = "block", !.blk = "redacted", !.blocks = Append(@, "thinking")]
    BY <2>1
  <2>4. u.n = g.n /\ u.items = g.items /\ u.st = "block" /\ u.blk = "redacted" /\ u.blocks = Append(up.blocks, "thinking")
    BY <2>2, <2>3 DEF UpFields
  <2>5. PICK e : e = Told(t, k, u)
    OBVIOUS
  <2>6. e.t = "content_block_start" /\ e.k = "redacted_thinking" /\ e.u = u
    BY <2>1, <2>5 DEF Told
  <2>7. ClaudeSteps(up, e)
    BY <2>4, <2>6 DEF ClaudeSteps, Thinks
  <2>8. Numbered(u) /\ Last(u.items).k = j
    <3>1. u.n = Grown(j).n /\ u.items = Grown(j).items
      BY <2>1, <2>4
    <3> QED
      BY <1>1, <3>1, GrownNumbered
  <2>9. BlocksOpen(u)
    <3>1. PICK w : w = "thinking"
      OBVIOUS
    <3>2. u.blocks = Append(up.blocks, w) /\ (u.blk \in Thinks => w = "thinking")
      BY <2>4, <3>1
    <3> QED
      BY <1>1, <3>2, BlockAppended
  <2>10. Sends(t, k, u) /\ t \notin {"reason", "text", "wide"} /\ up.st # "end"
    BY <1>6, <2>1
  <2>11. Last(u.items).k = "reason" <=> k \in {"redacted_thinking", "thinking_delta"}
    BY <2>1, <2>8
  <2> QED
    BY <1>2, <2>5, <2>7, <2>8, <2>9, <2>10, <2>11, BlockSends
<1>7. ASSUME NEW k \in {"thinking_delta", "text_delta"}, NEW j \in {"reason", "text"}, k = "thinking_delta" <=> j = "reason",
             up.st = "block", up.blk = IF j = "reason" THEN "thinking" ELSE "text", Sends("content_block_delta", k, Grown(j))
      PROVE  Orderly'
  <2>1. PICK u, t : u = Grown(j) /\ t = "content_block_delta"
    OBVIOUS
  <2>2. u.n = Grown(j).n /\ u.items = Grown(j).items /\ u.st = up.st /\ u.blk = up.blk /\ u.blocks = up.blocks
    BY <1>1, <2>1 DEF Grown, UpFields
  <2>3. PICK e : e = Told(t, k, u)
    OBVIOUS
  <2>4. e.t = "content_block_delta" /\ e.k = k /\ e.u = u
    BY <2>1, <2>3 DEF Told
  <2>5. ClaudeSteps(up, e)
    BY <1>7, <2>2, <2>4 DEF ClaudeSteps, Thinks
  <2>6. Numbered(u) /\ Last(u.items).k = j
    BY <1>1, <2>2, GrownNumbered
  <2>7. BlocksOpen(u)
    BY <1>1, <2>2 DEF BlocksOpen, InThoughts, HasThoughts
  <2>8. Sends(t, k, u) /\ t \notin {"reason", "text", "wide"} /\ up.st # "end"
    BY <1>7, <2>1
  <2>9. Last(u.items).k = "reason" <=> k \in {"redacted_thinking", "thinking_delta"}
    BY <1>7, <2>6
  <2> QED
    BY <1>2, <2>3, <2>5, <2>6, <2>7, <2>8, <2>9, BlockSends
<1>8. ASSUME NEW k \in {"input_json_delta", "signature_delta"}, NEW w,
             k = "input_json_delta" => up.blk = "tool_use" /\ w = "tool_args",
             k = "signature_delta" => up.blk = "thinking" /\ w = "signed",
             up.st = "block", Sends("content_block_delta", k, [up EXCEPT !.blk = w])
      PROVE  Orderly'
  <2>1. PICK u, t : u = [up EXCEPT !.blk = w] /\ t = "content_block_delta"
    OBVIOUS
  <2>2. Quiet(u) /\ u.blocks = up.blocks /\ u.st = up.st /\ u.blk = w
    BY <1>1, <2>1 DEF Quiet, UpFields
  <2>3. PICK e : e = Told(t, k, u)
    OBVIOUS
  <2>4. e.t = "content_block_delta" /\ e.k = k /\ e.u = u
    BY <2>1, <2>3 DEF Told
  <2>5. ClaudeSteps(up, e)
    BY <1>8, <2>2, <2>4 DEF ClaudeSteps, Thinks
  <2>6. ~Completes(up, e)
    BY <1>8, <2>4 DEF Completes
  <2>7. InThoughts(u) => InThoughts(up)
    BY <1>8, <2>2 DEF InThoughts, Thinks
  <2>8. /\ t \in {"message_start", "content_block_delta", "content_block_stop", "message_delta", "message_stop", "error"}
        /\ k \in {"", "input_json_delta", "signature_delta"} /\ Sends(t, k, u) /\ up.st # "end"
    BY <1>8, <2>1
  <2> QED
    BY <1>2, <2>2, <2>3, <2>5, <2>6, <2>7, <2>8, ClaudeQuiet
<1>9. CASE up.st = "block" /\ up.blk \in {"thinking", "signed", "text", "redacted"}
           /\ Sends("content_block_stop", "", [up EXCEPT !.st = "open"])
  <2>1. PICK u : u = [up EXCEPT !.st = "open"]
    OBVIOUS
  <2>2. Quiet(u) /\ u.blocks = up.blocks /\ u.st = "open"
    BY <1>1, <2>1 DEF Quiet, UpFields
  <2>3. up.blk \notin ToolBlocks
    BY <1>9 DEF ToolBlocks
  <2> QED
    BY <1>3, <1>9, <2>1, <2>2, <2>3
<1>10. CASE up.st = "block" /\ Sends("content_block_stop", "", [Grown("tool") EXCEPT !.st = "open"])
  <2>1. PICK u, t, k, j, g : /\ u = [Grown("tool") EXCEPT !.st = "open"] /\ t = "content_block_stop" /\ k = "" /\ j = "tool"
                             /\ g = Grown(j)
    OBVIOUS
  <2>2. DOMAIN g = UpFields /\ g.blocks = up.blocks
    BY <1>1, <2>1 DEF Grown, UpFields
  <2>3. u = [g EXCEPT !.st = "open"]
    BY <2>1
  <2>4. u.n = g.n /\ u.items = g.items /\ u.st = "open" /\ u.blocks = up.blocks
    BY <2>2, <2>3 DEF UpFields
  <2>5. PICK e : e = Told(t, k, u)
    OBVIOUS
  <2>6. e.t = "content_block_stop" /\ e.k = "" /\ e.u = u
    BY <2>1, <2>5 DEF Told
  <2>7. ClaudeSteps(up, e)
    BY <2>4, <2>6 DEF ClaudeSteps
  <2>8. Numbered(u) /\ Last(u.items).k = j
    <3>1. u.n = Grown(j).n /\ u.items = Grown(j).items
      BY <2>1, <2>4
    <3> QED
      BY <1>1, <3>1, GrownNumbered
  <2>9. BlocksOpen(u)
    BY <1>1, <2>4 DEF BlocksOpen, InThoughts
  <2>10. Sends(t, k, u) /\ t \notin {"reason", "text", "wide"} /\ up.st # "end"
    BY <1>10, <2>1
  <2>11. Last(u.items).k = "reason" <=> k \in {"redacted_thinking", "thinking_delta"}
    BY <2>1, <2>8
  <2> QED
    BY <1>2, <2>5, <2>7, <2>8, <2>9, <2>10, <2>11, BlockSends
<1>11. CASE up.st = "open" /\ Sends("message_delta", "", [up EXCEPT !.st = "fin", !.tok = {"in", "out"}])
  <2>1. PICK u : u = [up EXCEPT !.st = "fin", !.tok = {"in", "out"}]
    OBVIOUS
  <2>2. Quiet(u) /\ u.blocks = up.blocks /\ u.st = "fin"
    BY <1>1, <2>1 DEF Quiet, UpFields
  <2> QED
    BY <1>3, <1>11, <2>1, <2>2
<1>12. CASE up.st = "fin" /\ Sends("message_stop", "", [up EXCEPT !.st = "end"])
  <2>1. PICK u : u = [up EXCEPT !.st = "end"]
    OBVIOUS
  <2>2. Quiet(u) /\ u.blocks = up.blocks /\ u.st = "end"
    BY <1>1, <2>1 DEF Quiet, UpFields
  <2> QED
    BY <1>3, <1>12, <2>1, <2>2
<1>13. CASE up.st \in {"open", "block"} /\ Sends("error", "", [up EXCEPT !.st = "end", !.failed = TRUE])
  <2>1. PICK u : u = [up EXCEPT !.st = "end", !.failed = TRUE]
    OBVIOUS
  <2>2. Quiet(u) /\ u.blocks = up.blocks /\ u.st = "end" /\ u.failed
    BY <1>1, <2>1 DEF Quiet, UpFields
  <2> QED
    BY <1>3, <1>13, <2>1, <2>2
<1>14. CASE up.st = "block" /\ up.blk = "thinking" /\ Sends("content_block_delta", "thinking_delta", Grown("reason"))
  BY <1>7, <1>14
<1>15. CASE up.st = "block" /\ up.blk = "text" /\ Sends("content_block_delta", "text_delta", Grown("text"))
  BY <1>7, <1>15
<1>16. CASE up.st = "block" /\ up.blk = "tool_use"
            /\ Sends("content_block_delta", "input_json_delta", [up EXCEPT !.blk = "tool_args"])
  BY <1>8, <1>16
<1>17. CASE up.st = "block" /\ up.blk = "thinking"
            /\ Sends("content_block_delta", "signature_delta", [up EXCEPT !.blk = "signed"])
  BY <1>8, <1>17
<1> QED
  BY <1>4, <1>5, <1>6, <1>9, <1>10, <1>11, <1>12, <1>13, <1>14, <1>15, <1>16, <1>17 DEF ClaudeUpstream

-----------------------------------------------------------------------------
(* The protocol through the chunks' steps                                    *)

LEMMA SameReads ==
    ASSUME NEW c, NEW d, NEW v, Reads(c, v), Bridge(d), d.out = c.out, ChatFlags(d, c), BlockFlags(d, c),
           route.kind = "messages" => (d.headers => c.headers)
    PROVE  Reads(d, v)
<1>1. ASSUME route.kind \in Chat PROVE ChatOk(d, v)
  <2>1. ChatOk(c, v)
    BY <1>1 DEF Reads
  <2>2. DoneOk(d, v)
    BY <2>1 DEF ChatOk, DoneOk, Undone, ChatFlags
  <2>3. TagOk(d, v)
    BY <2>1 DEF ChatOk, TagOk, TagShape, Sync, ChatFlags
  <2> QED
    BY <2>2, <2>3 DEF ChatOk
<1>2. ASSUME route.kind = "messages" PROVE MsgGood(d, v)
  BY <1>2, MsgSame DEF Reads
<1> QED
  BY <1>1, <1>2 DEF Reads

LEMMA FedSame ==
    ASSUME NEW c, Bridge(c)
    PROVE  LET d == Fed(c)
           IN  /\ Bridge(d) /\ d.out = c.out /\ ChatFlags(d, c) /\ BlockFlags(d, c) /\ d.event = c.event
               /\ route.kind = "messages" => (d.headers => c.headers)
<1>1. PICK d : d = Fed(c)
  OBVIOUS
<1>2. DOMAIN d = Fields /\ d.out = c.out /\ d.event = c.event
  BY <1>1 DEF Fed, Bridge, Fields
<1>3. ChatFlags(d, c) /\ BlockFlags(d, c)
  BY <1>1 DEF Fed, Bridge, Fields, ChatFlags, BlockFlags
<1>4. route.kind = "messages" => (d.headers => c.headers)
  BY <1>1 DEF Fed, Bridge, Fields, Native
<1> QED
  BY <1>1, <1>2, <1>3, <1>4 DEF Bridge

\* The bridge reads on in front of the upstream v.
LEMMA ReadsSpeaks ==
    ASSUME NEW c, NEW v, NEW k, Reads(c, v), k.pc = "reading"
    PROVE  Speaks(c, v, k)
  BY ReadsSettled DEF Speaks

LEMMA FeedPartOrderly == ASSUME StreamInv, Orderly, FeedPart PROVE Orderly'
<1>0. /\ call.pc = "reading" /\ line.l \in {"event", "data"} /\ b' = Fed(b) /\ route' = route /\ up' = up /\ call' = call
      /\ seen' = [seen EXCEPT !.parts = @ + 1]
  BY DEF FeedPart
<1>1. PICK k : line' = [line EXCEPT !.sent = @ + k]
  BY DEF FeedPart
<1>2. line'.t = line.t /\ line'.k = line.k /\ line'.u = line.u
  BY <1>1 DEF StreamInv, Shapes
<1>3. Steps(up, line')
  <2>1. Steps(up, line)
    BY <1>0 DEF Orderly
  <2> QED
    BY <1>2, <2>1, SameSteps
<1>4. Regular' => Regular
  BY <1>0 DEF StreamInv, Shapes, Regular
<1>5. (Numbered(up) /\ BlocksOpen(up))'
  BY <1>0 DEF Orderly, Numbered, BlocksOpen, InThoughts, HasThoughts
<1>6. (line.l \in {"event", "data"} => Steps(up, line))'
  BY <1>0, <1>3, SameSpeaks
<1>7. (Regular /\ ThoughtsFirst(up) => Speaks(b, up, call))'
  <2> SUFFICES ASSUME Regular', ThoughtsFirst(up)' PROVE Speaks(b, up, call)'
    OBVIOUS
  <2>1. ThoughtsFirst(up)
    BY <1>0 DEF ThoughtsFirst
  <2>2. Reads(b, up) /\ Bridge(b)
    BY <1>0, <1>4, <2>1 DEF Orderly, Speaks, StreamInv, Shapes
  <2>3. PICK d : d = Fed(b)
    OBVIOUS
  <2>4. /\ Bridge(d) /\ d.out = b.out /\ ChatFlags(d, b) /\ BlockFlags(d, b)
        /\ route.kind = "messages" => (d.headers => b.headers)
    BY <2>2, <2>3, FedSame
  <2>5. Reads(d, up)
    BY <2>2, <2>4, SameReads
  <2>6. Speaks(d, up, call)
    BY <1>0, <2>5, ReadsSpeaks
  <2> QED
    BY <1>0, <2>3, <2>6, SameSpeaks
<1> QED
  BY <1>5, <1>6, <1>7 DEF Orderly

\* A data line reaches the bridge.
LEMMA DataReads ==
    ASSUME NEW c, NEW v, NEW e, Follows(v, e), ThoughtsFirst(e.u), e.l = "data", Bridge(c), Reads(c, v)
    PROVE  Reads(ProcessLine(c, e), e.u)
<1>1. Extends(v, e)
  BY ExtendsIs
<1>2. ASSUME route.kind \in Chat PROVE ChatOk(ProcessLine(c, e), e.u)
  <2>1. Good(c, e.u)
    BY <1>1, <1>2, ChatPassed DEF Reads, Good
  <2>2. CASE route.kind = "openai"
    <3>1. ChatOk(openai_stream_process_line(c, e), e.u)
      BY <1>1, <2>1, <2>2, OpenAiOk
    <3> QED
      BY <2>2, <3>1 DEF ProcessLine
  <2>3. CASE route.kind = "anthropic"
    <3>1. ChatOk(bridge_process_line(c, e), e.u)
      BY <1>1, <2>1, <2>3, AnthropicOk
    <3> QED
      BY <2>3, <3>1 DEF ProcessLine
  <2>4. CASE route.kind = "gemini"
    <3>1. ChatOk(gemini_bridge_process_line(c, e), e.u)
      BY <1>1, <2>1, <2>4, GeminiOk
    <3> QED
      BY <2>4, <3>1 DEF ProcessLine
  <2> QED
    BY <1>2, <2>2, <2>3, <2>4 DEF Chat
<1>3. ASSUME route.kind = "messages" PROVE MsgGood(ProcessLine(c, e), e.u)
  <2>1. MsgGood(c, e.u)
    BY <1>1, <1>3, MsgPassed DEF Reads
  <2>2. MsgGood(oai_ant_process_line(c, e), e.u)
    BY <1>1, <1>3, <2>1, MessagesOk
  <2> QED
    BY <1>3, <2>2 DEF ProcessLine
<1> QED
  BY <1>2, <1>3 DEF Reads

\* Another line does.
LEMMA PlainReads ==
    ASSUME NEW c, NEW v, NEW e, e.l \in {"event", "blank"}, Bridge(c), Reads(c, v)
    PROVE  Reads(ProcessLine(c, e), v)
<1>1. CASE route.kind = "anthropic"
  <2>1. PICK w, d : d = [c EXCEPT !.event = w] /\ ProcessLine(c, e) = d
    BY <1>1 DEF ProcessLine, ClaudeSide, bridge_process_line
  <2>2. DOMAIN d = Fields /\ d.out = c.out /\ ChatFlags(d, c) /\ BlockFlags(d, c)
    BY <2>1 DEF Bridge, Fields, ChatFlags, BlockFlags
  <2>3. Reads(d, v)
    BY <1>1, <2>2, SameReads DEF Bridge
  <2> QED
    BY <2>1, <2>3
<1>2. CASE route.kind \in {"openai", "gemini", "messages"}
  <2>1. ProcessLine(c, e) = c
    BY <1>2 DEF ProcessLine, ClaudeSide
  <2> QED
    BY <2>1
<1>3. CASE route.kind \notin Chat \cup {"messages"}
  BY <1>3 DEF Reads
<1> QED
  BY <1>1, <1>2, <1>3 DEF Chat

LEMMA FeedEndReads ==
    ASSUME StreamInv, Orderly, FeedEnd, Regular, ThoughtsFirst(up')
    PROVE  Reads(b', up')
<1>1. Bridge(b) /\ route \in Routes /\ UpOk(up) /\ line.l \in {"event", "data", "blank"} /\ call.pc = "reading"
  BY DEF StreamInv, Shapes, FeedEnd
<1>2. CASE route.kind \notin Chat \cup {"messages"}
  BY <1>2 DEF Reads
<1>3. CASE route.kind \in Chat \cup {"messages"}
  <2>1. route.kind \notin Native
    BY <1>3 DEF Chat, Native
  <2>2. Buffered
    BY <2>1 DEF StreamInv, Caught, Heard
  <2>3. LineCap \in Nat \ {0} /\ line.size \in Nat /\ line.sent \in 0 .. line.size /\ buf.len \in Nat
    BY StreamAssumption DEF StreamInv, Shapes
  <2>4. buf.clean /\ ~(buf.len + (line.size - line.sent) >= LineCap)
    <3>1. CASE line.l \in {"event", "data"}
      BY <2>2, <2>3, <3>1 DEF Buffered
    <3>2. CASE line.l = "blank"
      <4>1. buf = Empty /\ line = Blank
        BY <2>2, <3>2 DEF Buffered, StreamInv, Shapes
      <4>2. buf.clean /\ buf.len = 0 /\ line.size = 0 /\ line.sent = 0
        BY <4>1, NoLines DEF Empty
      <4> QED
        BY <2>3, <4>2
    <3> QED
      BY <1>1, <3>1, <3>2
  <2>5. PICK c : c = Fed(b)
    OBVIOUS
  <2>6. ~c.aborted
    <3>1. ~b.aborted
      BY DEF FeedEnd
    <3> QED
      BY <1>1, <2>1, <2>5, <3>1 DEF Fed, Bridge, Fields
  <2>7. b' = ProcessLine(c, line)
    BY <2>4, <2>5, <2>6 DEF FeedEnd
  <2>8. /\ Bridge(c) /\ c.out = b.out /\ ChatFlags(c, b) /\ BlockFlags(c, b)
        /\ route.kind = "messages" => (c.headers => b.headers)
    BY <1>1, <2>5, FedSame
  <2>9. ASSUME ThoughtsFirst(up) PROVE Reads(c, up)
    <3>1. Reads(b, up)
      BY <1>1, <2>9 DEF Orderly, Speaks
    <3> QED
      BY <2>8, <3>1, SameReads
  <2>10. CASE line.l = "data"
    <3>1. up' = line.u
      BY <2>10 DEF FeedEnd
    <3>2. Follows(up, line)
      BY <1>1, <2>10 DEF Follows, Orderly, StreamInv, Arrives
    <3>3. Extends(up, line) /\ ThoughtsFirst(line.u)
      BY <3>1, <3>2, ExtendsIs
    <3>4. ThoughtsFirst(up)
      BY <3>3, FirstBefore
    <3>5. Reads(c, up)
      BY <2>9, <3>4
    <3>6. Reads(ProcessLine(c, line), line.u)
      BY <2>8, <2>10, <3>2, <3>3, <3>5, DataReads
    <3> QED
      BY <2>7, <3>1, <3>6
  <2>11. CASE line.l # "data"
    <3>1. up' = up /\ line.l \in {"event", "blank"}
      BY <1>1, <2>11 DEF FeedEnd
    <3>2. Reads(c, up)
      BY <2>9, <3>1
    <3>3. Reads(ProcessLine(c, line), up)
      BY <2>8, <3>1, <3>2, PlainReads
    <3> QED
      BY <2>7, <3>1, <3>3
  <2> QED
    BY <2>10, <2>11
<1> QED
  BY <1>2, <1>3

LEMMA FeedEndOrderly == ASSUME StreamInv, Orderly, FeedEnd PROVE Orderly'
<1>0. /\ call.pc = "reading" /\ line.l # "none" /\ up' = (IF line.l = "data" THEN line.u ELSE up)
      /\ line' = Following(line) /\ route' = route /\ call' = call /\ seen' = seen
  BY DEF FeedEnd
<1>1. \/ line.l = "event" /\ line'.l = "data" /\ line'.t = line.t /\ line'.k = line.k /\ line'.u = line.u
      \/ line.l = "data" /\ line' = Blank
      \/ line.l \in {"data", "blank"} /\ line' = NoLine
  BY <1>0, FollowingIs DEF StreamInv
<1>2. line.l \in {"event", "data"} => Steps(up, line)
  BY DEF Orderly
<1>3. Numbered(up') /\ BlocksOpen(up')
  BY <1>0, <1>2 DEF Orderly, Steps
<1>4. (Numbered(up) /\ BlocksOpen(up))'
  BY <1>3 DEF Numbered, BlocksOpen, InThoughts, HasThoughts
<1>5. line'.l \in {"event", "data"} => Steps(up', line')
  <2> SUFFICES ASSUME line'.l \in {"event", "data"} PROVE Steps(up', line')
    OBVIOUS
  <2>1. line.l = "event" /\ line'.t = line.t /\ line'.k = line.k /\ line'.u = line.u
    BY <1>1, NoLines
  <2>2. up' = up /\ Steps(up, line)
    BY <1>0, <1>2, <2>1
  <2> QED
    BY <2>1, <2>2, SameSteps
<1>6. (line.l \in {"event", "data"} => Steps(up, line))'
  BY <1>0, <1>5, SameSpeaks
<1>7. (Regular /\ ThoughtsFirst(up) => Speaks(b, up, call))'
  <2> SUFFICES ASSUME Regular', ThoughtsFirst(up)' PROVE Speaks(b, up, call)'
    OBVIOUS
  <2>1. Regular
    BY <1>0 DEF Regular
  <2>2. ThoughtsFirst(up')
    BY DEF ThoughtsFirst
  <2>3. Reads(b', up')
    BY <2>1, <2>2, FeedEndReads
  <2>4. Speaks(b', up', call')
    BY <1>0, <2>3, ReadsSpeaks
  <2> QED
    BY <1>0, <2>4, SameSpeaks
<1> QED
  BY <1>4, <1>6, <1>7 DEF Orderly

-----------------------------------------------------------------------------
(* The protocol through the handler's steps                                  *)

LEMMA StillOrderly ==
    ASSUME Orderly, route' = route, up' = up, line' = line, Regular' => Regular,
           Regular' /\ ThoughtsFirst(up) /\ Speaks(b, up, call) => Speaks(b', up, call')
    PROVE  Orderly'
<1>1. (Numbered(up) /\ BlocksOpen(up))'
  BY DEF Orderly, Numbered, BlocksOpen, InThoughts, HasThoughts
<1>2. (line.l \in {"event", "data"} => Steps(up, line))'
  BY SameSpeaks DEF Orderly
<1>3. (Regular /\ ThoughtsFirst(up) => Speaks(b, up, call))'
  <2> SUFFICES ASSUME Regular', ThoughtsFirst(up)' PROVE Speaks(b, up, call)'
    OBVIOUS
  <2>1. ThoughtsFirst(up)
    BY DEF ThoughtsFirst
  <2>2. Speaks(b, up, call)
    BY <2>1 DEF Orderly
  <2> QED
    BY <2>1, <2>2, SameSpeaks
<1> QED
  BY <1>1, <1>2, <1>3 DEF Orderly

LEMMA LeavesOrderly == ASSUME StreamInv, Orderly, ClientLeaves PROVE Orderly'
<1>0. /\ call' = [call EXCEPT !.gone = TRUE] /\ route' = route /\ up' = up /\ line' = line /\ b' = b /\ seen' = seen
  BY DEF ClientLeaves
<1>1. DOMAIN call = {"pc", "attempt", "gone", "dirty", "late"}
  BY DEF StreamInv, Shapes
<1>2. call'.pc = call.pc /\ call'.late = call.late /\ call'.dirty = call.dirty
  BY <1>0, <1>1
<1>3. Regular' => Regular
  BY <1>0, <1>2 DEF Regular
<1>4. Speaks(b, up, call) => Speaks(b, up, call')
  BY <1>2 DEF Speaks, Settled
<1> QED
  BY <1>0, <1>3, <1>4, StillOrderly

LEMMA AgainOrderly ==
    ASSUME route' = route, up' = NewUp, line' = NoLine, call'.pc = "reading", Regular' => b' = bridge_new
    PROVE  Orderly'
<1>1. Reads(bridge_new, NewUp) /\ Numbered(NewUp) /\ BlocksOpen(NewUp)
  BY FreshReads
<1>2. (Numbered(up) /\ BlocksOpen(up))'
  <2>1. Numbered(up') /\ BlocksOpen(up')
    BY <1>1
  <2> QED
    BY <2>1 DEF Numbered, BlocksOpen, InThoughts, HasThoughts
<1>3. (line.l \in {"event", "data"} => Steps(up, line))'
  BY NoLines
<1>4. (Regular /\ ThoughtsFirst(up) => Speaks(b, up, call))'
  <2> SUFFICES ASSUME Regular' PROVE Speaks(b, up, call)'
    OBVIOUS
  <2>1. Reads(b', up')
    BY <1>1
  <2>2. Speaks(b', up', call')
    BY <2>1, ReadsSpeaks
  <2> QED
    BY <2>2, SameSpeaks
<1> QED
  BY <1>2, <1>3, <1>4 DEF Orderly

LEMMA BeforeHeadersOrderly ==
    ASSUME StreamInv, Orderly, call.pc = "reading", NEW ok, BeforeHeaders(ok)
    PROVE  Orderly'
<1>0. route' = route /\ seen' = seen /\ DOMAIN call = {"pc", "attempt", "gone", "dirty", "late"}
  BY DEF BeforeHeaders, StreamInv, Shapes
<1>1. CASE /\ call' = [call EXCEPT !.attempt = 2, !.dirty = buf # Empty \/ b # bridge_new]
           /\ up' = NewUp /\ line' = NoLine /\ b' = b
  <2>1. PICK p : p = (buf # Empty \/ b # bridge_new)
    OBVIOUS
  <2>2. call'.pc = "reading" /\ call'.dirty = p
    BY <1>0, <1>1, <2>1
  <2>3. Regular' => b' = bridge_new
    BY <1>1, <2>1, <2>2 DEF Regular
  <2> QED
    BY <1>0, <1>1, <2>2, <2>3, AgainOrderly
<1>2. CASE call' = [call EXCEPT !.attempt = 2] /\ b' = bridge_new /\ up' = NewUp /\ line' = NoLine
  <2>1. call'.pc = "reading"
    BY <1>0, <1>2
  <2> QED
    BY <1>0, <1>2, <2>1, AgainOrderly
<1>3. CASE call' = [call EXCEPT !.pc = "failed"] /\ UNCHANGED <<up, line, buf, b, acc>>
  <2>1. call'.pc = "failed" /\ call'.dirty = call.dirty
    BY <1>0, <1>3
  <2>2. Regular' => Regular
    BY <1>0, <2>1 DEF Regular
  <2>3. Speaks(b, up, call) => Speaks(b, up, call')
    <3> SUFFICES ASSUME Speaks(b, up, call) PROVE Speaks(b, up, call')
      OBVIOUS
    <3>1. Reads(b, up)
      BY DEF Speaks
    <3>2. Settled(b, up, call')
      BY <2>1, <3>1, ReadsSettled
    <3> QED
      BY <2>1, <3>2 DEF Speaks
  <2> QED
    BY <1>0, <1>3, <2>2, <2>3, StillOrderly
<1> QED
  BY <1>1, <1>2, <1>3 DEF BeforeHeaders

\* The handler has ended the stream.
LEMMA EndSettled ==
    ASSUME NEW c, NEW v, NEW k, Bridge(c), c.headers, Reads(c, v), k.pc = "ended"
    PROVE  Settled(Finished(c), v, k)
<1>1. ASSUME route.kind \in Chat PROVE ChatOver(Finished(c), v)
  BY <1>1, FinishOver DEF Reads
<1>2. ASSUME route.kind = "messages" PROVE MsgOver(Finished(c).out)
  <2>1. MsgOver(oai_ant_bridge_finish(c).out)
    BY <1>2, MessagesOver DEF Reads
  <2> QED
    BY <1>2, <2>1 DEF Finished
<1> QED
  BY <1>1, <1>2 DEF Settled, ChatOver, MsgOver

LEMMA EndedOrderly ==
    ASSUME StreamInv, Orderly, call.pc = "reading", NEW kinds, NEW c, Ended(kinds, c),
           route.kind \in Chat \cup {"messages"} => c = Finished(b)
    PROVE  Orderly'
<1>0. /\ b.headers /\ b' = c /\ call' = [call EXCEPT !.pc = "ended"] /\ route' = route /\ up' = up /\ line' = line /\ seen' = seen
  BY DEF Ended
<1>1. Bridge(b) /\ DOMAIN call = {"pc", "attempt", "gone", "dirty", "late"}
  BY DEF StreamInv, Shapes
<1>2. call'.pc = "ended" /\ call'.dirty = call.dirty
  BY <1>0, <1>1
<1>3. Regular' => Regular
  BY <1>0, <1>2 DEF Regular
<1>4. Speaks(b, up, call) => Speaks(b', up, call')
  <2> SUFFICES ASSUME Speaks(b, up, call) PROVE Speaks(b', up, call')
    OBVIOUS
  <2>1. Reads(b, up)
    BY DEF Speaks
  <2>2. CASE route.kind \in Chat \cup {"messages"}
    <3>1. Settled(Finished(b), up, call')
      BY <1>0, <1>1, <1>2, <2>1, EndSettled
    <3> QED
      BY <1>0, <1>2, <2>2, <3>1 DEF Speaks
  <2>3. CASE route.kind \notin Chat \cup {"messages"}
    BY <1>2, <2>3 DEF Speaks, Settled
  <2> QED
    BY <2>2, <2>3
<1> QED
  BY <1>0, <1>3, <1>4, StillOrderly

\* It has broken off.
LEMMA BreakSettled ==
    ASSUME NEW c, NEW d, NEW v, NEW k, Bridge(c), c.headers, Reads(c, v), k.pc = "broken",
           k.late = \E i \in DOMAIN c.out : c.out[i].f = "done",
           route.kind \in Chat => /\ d.out = c.out \o (Bare("error") \o Bare("done"))
                                  /\ d.tag_opened = c.tag_opened /\ d.tag_closed = c.tag_closed,
           route.kind = "messages" => d.out = Finished(c).out \o Bare("error")
    PROVE  Settled(d, v, k)
<1>1. ASSUME route.kind \in Chat
      PROVE  /\ ~k.late => DoneLast(d.out)
             /\ Last(d.out).f = "done" /\ (route.tag => TagShape(d, v))
  <2>1. ChatOk(c, v)
    BY <1>1 DEF Reads
  <2>2. k.late = Has(c.out, "done")
    BY DEF Has
  <2> QED
    BY <1>1, <2>1, <2>2, BreakOver
<1>2. ASSUME route.kind = "messages" PROVE Blocks(d.out)
  <2>1. PICK s : s = Finished(c).out
    OBVIOUS
  <2>2. MsgOver(oai_ant_bridge_finish(c).out)
    BY <1>2, MessagesOver DEF Reads
  <2>3. IsSeq(s) /\ Blocks(s) /\ s # <<>>
    BY <1>2, <2>1, <2>2 DEF Finished, MsgOver
  <2>4. PICK f : f = "error"
    OBVIOUS
  <2>5. f \notin {"thinking", "text", "block_start", "block_stop"}
    BY <2>4
  <2>6. Blocks(s \o Bare(f))
    BY <2>3, <2>5, BareBlocks
  <2> QED
    BY <1>2, <2>1, <2>4, <2>6
<1> QED
  BY <1>1, <1>2 DEF Settled, Chat

LEMMA BrokenOrderly ==
    ASSUME StreamInv, Orderly, call.pc = "reading", NEW kinds, NEW c, NEW frames, Broken(kinds, c, frames), Puts(c, b, <<>>),
           IsSeq(frames),
           route.kind \in Chat => c = b /\ frames = Bare("error") \o Bare("done"),
           route.kind = "messages" => c = Finished(b) /\ frames = Bare("error")
    PROVE  Orderly'
<1> DEFINE d == [c EXCEPT !.out = @ \o frames]
<1>0. /\ b.headers /\ b' = d /\ route' = route /\ up' = up /\ line' = line /\ seen' = seen
      /\ call' = [call EXCEPT !.pc = "broken", !.late = \E i \in DOMAIN b.out : b.out[i].f = "done"]
  BY DEF Broken
<1>1. Bridge(b) /\ DOMAIN call = {"pc", "attempt", "gone", "dirty", "late"}
  BY DEF StreamInv, Shapes
<1>2. call'.pc = "broken" /\ call'.dirty = call.dirty
  BY <1>0, <1>1
<1>3. call'.late = \E i \in DOMAIN b.out : b.out[i].f = "done"
  BY <1>0, <1>1
<1>4. Bridge(c)
  BY <1>1, PutBridge
<1>5. d.out = c.out \o frames /\ d.tag_opened = c.tag_opened /\ d.tag_closed = c.tag_closed
  BY <1>4 DEF Bridge, Fields
<1> HIDE DEF d
<1>6. Regular' => Regular
  BY <1>0, <1>2 DEF Regular
<1>7. Speaks(b, up, call) => Speaks(d, up, call')
  <2> SUFFICES ASSUME Speaks(b, up, call) PROVE Speaks(d, up, call')
    OBVIOUS
  <2>1. Reads(b, up)
    BY DEF Speaks
  <2>2. Settled(d, up, call')
    <3>1. CASE route.kind \in Chat
      <4>1. /\ d.tag_opened = b.tag_opened /\ d.tag_closed = b.tag_closed
            /\ d.out = b.out \o (Bare("error") \o Bare("done")) /\ route.kind # "messages"
        BY <1>5, <3>1 DEF Chat
      <4> QED
        BY <1>0, <1>1, <1>2, <1>3, <2>1, <4>1, BreakSettled
    <3>2. CASE route.kind = "messages"
      <4>1. d.out = Finished(b).out \o Bare("error") /\ route.kind \notin Chat
        BY <1>5, <3>2 DEF Chat
      <4> QED
        BY <1>0, <1>1, <1>2, <1>3, <2>1, <4>1, BreakSettled
    <3>3. CASE route.kind \notin Chat \cup {"messages"}
      BY <3>3 DEF Settled
    <3> QED
      BY <3>1, <3>2, <3>3
  <2> QED
    BY <1>2, <2>2 DEF Speaks
<1> QED
  BY <1>0, <1>6, <1>7, StillOrderly

LEMMA ClosesOrderly == ASSUME StreamInv, Orderly, UpstreamCloses PROVE Orderly'
<1>1. call.pc = "reading"
  BY DEF UpstreamCloses
<1>2. CASE BeforeHeaders(TRUE)
  <2>1. PICK ok : ok = TRUE
    OBVIOUS
  <2> QED
    BY <1>1, <1>2, <2>1, BeforeHeadersOrderly
<1>3. CASE ChatEnds \/ ResponsesEnds \/ MessagesEnds \/ GenaiEnds
  <2>1. PICK kinds, c : Ended(kinds, c) /\ (c = Finished(b) \/ kinds = {"genai"})
    BY <1>3 DEF ChatEnds, ResponsesEnds, MessagesEnds, GenaiEnds
  <2>2. route.kind \in Chat \cup {"messages"} => c = Finished(b)
    BY <2>1 DEF Ended, Chat
  <2> QED
    BY <1>1, <2>1, <2>2, EndedOrderly
<1> QED
  BY <1>2, <1>3 DEF UpstreamCloses

LEMMA BreaksOrderly == ASSUME StreamInv, Orderly, UpstreamBreaks PROVE Orderly'
<1>1. call.pc = "reading"
  BY DEF UpstreamBreaks
<1>2. Puts(Finished(b), b, <<>>) /\ Puts(b, b, <<>>)
  BY FinishPut, SamePut DEF StreamInv, Shapes
<1>3. IsSeq(Bare("error")) /\ IsSeq(Bare("error") \o Bare("done"))
  BY BareSent, TwoBare
<1>4. CASE BeforeHeaders(FALSE)
  <2>1. PICK ok : ok = FALSE
    OBVIOUS
  <2> QED
    BY <1>1, <1>4, <2>1, BeforeHeadersOrderly
<1>5. CASE ChatBreaks
  <2>1. PICK c, frames, kinds : c = b /\ frames = Bare("error") \o Bare("done") /\ kinds = Chat
    OBVIOUS
  <2>2. Broken(kinds, c, frames) /\ Puts(c, b, <<>>) /\ IsSeq(frames)
    BY <1>2, <1>3, <1>5, <2>1 DEF ChatBreaks
  <2>3. route.kind # "messages"
    BY <2>1, <2>2 DEF Broken, Chat
  <2> QED
    BY <1>1, <2>1, <2>2, <2>3, BrokenOrderly
<1>6. CASE MessagesBreaks
  <2>1. PICK c, frames, kinds : c = Finished(b) /\ frames = Bare("error") /\ kinds = {"messages", "claude"}
    OBVIOUS
  <2>2. Broken(kinds, c, frames) /\ Puts(c, b, <<>>) /\ IsSeq(frames)
    BY <1>2, <1>3, <1>6, <2>1 DEF MessagesBreaks
  <2>3. route.kind \notin Chat
    BY <2>1, <2>2 DEF Broken, Chat
  <2> QED
    BY <1>1, <2>1, <2>2, <2>3, BrokenOrderly
<1>7. CASE ResponsesBreaks \/ GenaiBreaks
  <2>1. PICK c, frames, kinds : /\ Broken(kinds, c, frames) /\ kinds \in {{"responses"}, {"genai"}}
                                /\ Puts(c, b, <<>>) /\ IsSeq(frames)
    BY <1>2, <1>3, <1>7 DEF ResponsesBreaks, GenaiBreaks
  <2>2. route.kind \notin Chat /\ route.kind # "messages"
    BY <2>1 DEF Broken, Chat
  <2> QED
    BY <1>1, <2>1, <2>2, BrokenOrderly
<1> QED
  BY <1>4, <1>5, <1>6, <1>7 DEF UpstreamBreaks

LEMMA QuietOrderly ==
    ASSUME Orderly, route' = route, up' = up, line' = line, b' = b, call' = call, seen' = seen
    PROVE  Orderly'
<1>1. Regular' => Regular
  BY DEF Regular
<1> QED
  BY <1>1, StillOrderly

LEMMA OrderlyStep == StreamInv /\ Orderly /\ [StreamNext]_streamVars => Orderly'
<1> SUFFICES ASSUME StreamInv, Orderly, [StreamNext]_streamVars PROVE Orderly'
  OBVIOUS
<1>1. CASE OpenAiUpstream
  BY <1>1, OpenAiOrderly
<1>2. CASE ResponsesUpstream
  BY <1>2, ResponsesOrderly
<1>3. CASE ClaudeUpstream
  BY <1>3, ClaudeOrderly
<1>4. CASE GeminiUpstream
  BY <1>4, GeminiOrderly
<1>5. CASE FeedPart
  BY <1>5, FeedPartOrderly
<1>6. CASE FeedEnd
  BY <1>6, FeedEndOrderly
<1>7. CASE ClientLeaves
  BY <1>7, LeavesOrderly
<1>8. CASE UpstreamCloses
  BY <1>8, ClosesOrderly
<1>9. CASE UpstreamBreaks
  BY <1>9, BreaksOrderly
<1>10. CASE cache_stream_replay
  BY <1>10, QuietOrderly DEF cache_stream_replay
<1>11. CASE UNCHANGED streamVars
  BY <1>11, QuietOrderly DEF streamVars
<1> QED
  BY <1>1, <1>2, <1>3, <1>4, <1>5, <1>6, <1>7, <1>8, <1>9, <1>10, <1>11 DEF StreamNext

\* The client of a chat gets [DONE] once and last and its <think> tags around the thoughts and no
\* text, the client of a message gets each block started, filled and stopped before the next, however
\* the stream was cut and wherever it stopped (the bridges of upstream/provider_*.c, the error events
\* of core/aigate_core.c and core/pipeline_native.c).
THEOREM ProtocolIsKept == StreamSpec => []ClientProtocol
<1>1. StreamInit => StreamInv /\ Orderly
  BY InitHolds, InitOrderly
<1>2. StreamInv /\ Orderly /\ [StreamNext]_streamVars => (StreamInv /\ Orderly)'
  BY StreamStep, OrderlyStep
<1>3. StreamInv /\ Orderly => ClientProtocol
  BY OrderlyProtocol
<1> QED
  BY <1>1, <1>2, <1>3, PTL DEF StreamSpec
================================================================================
