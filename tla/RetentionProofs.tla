---------------------------- MODULE RetentionProofs ---------------------------
(***************************************************************************)
(* Induction over the naturals without operator parameters, functions      *)
(* defined by recursion, and what Retain keeps of a sequence.              *)
(***************************************************************************)
EXTENDS Retention, Integers, SequenceTheorems, WellFoundedInduction, TLAPS

(* The least element of a set of naturals.                                 *)
LEMMA LeastNat ==
    ASSUME NEW S \in SUBSET Nat, S # {}
    PROVE  \E n \in S : \A m \in S : n <= m
<1> DEFINE R == OpToRel(<, Nat)
<1>1. IsWellFoundedOn(R, Nat)
  BY NatLessThanWellFounded
<1>2. \A m, n \in Nat : m < n => <<m, n>> \in R
  BY DEF OpToRel
<1> HIDE DEF R
<1>3. PICK n \in S : \A m \in S : ~ (<<m, n>> \in R)
  BY <1>1, WFMin
<1>4. \A m \in S : ~ (m < n)
  BY <1>2, <1>3
<1>5. \A m \in S : n <= m
  BY <1>4
<1> QED
  BY <1>5

(* Induction: a set that has 0 and the successor of each of its naturals   *)
(* has every natural.                                                      *)
LEMMA NatSetInduction ==
    ASSUME NEW S, 0 \in S, \A n \in Nat : n \in S => n + 1 \in S
    PROVE  \A n \in Nat : n \in S
<1> DEFINE T == Nat \ S
<1>1. SUFFICES ASSUME T # {} PROVE FALSE
  OBVIOUS
<1>2. PICK n \in T : \A m \in T : n <= m
  BY <1>1, LeastNat
<1>3. n # 0 /\ n - 1 \in Nat /\ n - 1 \notin T
  BY <1>2
<1> QED
  BY <1>2, <1>3

(* The values a step function gives one after the other.                   *)
Iterates(g, a, h) == g[0] = a /\ \A n \in Nat : g[n + 1] = h[<<n + 1, g[n]>>]

(* A step function gives a sequence of values from any first one.          *)
LEMMA Recursion ==
    ASSUME NEW V, NEW a \in V, NEW h \in [Nat \X V -> V]
    PROVE  \E g \in [Nat -> V] : Iterates(g, a, h)
<1> DEFINE Begins(g, n) == g \in [0 .. n -> V] /\ g[0] = a /\ \A k \in 0 .. n - 1 : g[k + 1] = h[<<k + 1, g[k]>>]
           Reachable == {n \in Nat : \E g : Begins(g, n)}
<1>1. \A n \in Nat : n \in Reachable
  <2>1. 0 \in Reachable
    <3>1. Begins([k \in 0 .. 0 |-> a], 0)
      OBVIOUS
    <3> QED
      BY <3>1
  <2>2. ASSUME NEW n \in Nat, n \in Reachable
        PROVE  n + 1 \in Reachable
    <3>1. PICK g : Begins(g, n)
      BY <2>2
    <3> DEFINE g1 == [k \in 0 .. n + 1 |-> IF k = n + 1 THEN h[<<n + 1, g[n]>>] ELSE g[k]]
    <3>2. g[n] \in V /\ h[<<n + 1, g[n]>>] \in V
      BY <3>1
    <3>3. g1 \in [0 .. n + 1 -> V]
      <4>1. \A k \in 0 .. n + 1 : k # n + 1 => k \in 0 .. n
        OBVIOUS
      <4> QED
        BY <3>1, <3>2, <4>1
    <3>4. g1[0] = a
      BY <3>1
    <3>5. ASSUME NEW k \in 0 .. n PROVE g1[k + 1] = h[<<k + 1, g1[k]>>]
      <4>1. CASE k = n
        <5>1. n + 1 \in 0 .. n + 1 /\ n \in 0 .. n + 1 /\ n # n + 1
          OBVIOUS
        <5>2. g1[n + 1] = h[<<n + 1, g[n]>>] /\ g1[n] = g[n]
          BY <5>1
        <5> QED
          BY <4>1, <5>2
      <4>2. CASE k # n
        <5>1. k \in 0 .. n - 1 /\ k + 1 # n + 1 /\ k + 1 \in 0 .. n + 1 /\ k \in 0 .. n + 1 /\ k # n + 1
          BY <4>2
        <5>2. g1[k + 1] = g[k + 1] /\ g1[k] = g[k]
          BY <5>1
        <5> QED
          BY <3>1, <5>1, <5>2
      <4> QED
        BY <4>1, <4>2
    <3>6. Begins(g1, n + 1)
      <4>1. (n + 1) - 1 = n
        OBVIOUS
      <4> HIDE DEF g1
      <4> QED
        BY <3>3, <3>4, <3>5, <4>1
    <3> HIDE DEF Begins, g1
    <3> QED
      BY <3>6
  <2> HIDE DEF Reachable
  <2> QED
    BY <2>1, <2>2, NatSetInduction
<1>2. ASSUME NEW m \in Nat, NEW n \in Nat, m <= n, NEW f, NEW g, Begins(f, m), Begins(g, n)
      PROVE  f[m] = g[m]
  <2> DEFINE Agree == {k \in Nat : k <= m => f[k] = g[k]}
  <2>1. 0 \in Agree
    BY <1>2
  <2>2. ASSUME NEW k \in Nat, k \in Agree PROVE k + 1 \in Agree
    <3>1. SUFFICES ASSUME k + 1 <= m PROVE f[k + 1] = g[k + 1]
      OBVIOUS
    <3>2. k \in 0 .. m - 1 /\ k \in 0 .. n - 1 /\ k <= m
      BY <1>2, <3>1
    <3> QED
      BY <1>2, <2>2, <3>2
  <2> HIDE DEF Agree
  <2>3. m \in Agree
    BY <2>1, <2>2, NatSetInduction
  <2> QED
    BY <2>3 DEF Agree
<1> DEFINE G == [n \in Nat |-> CHOOSE g : Begins(g, n)]
           F == [n \in Nat |-> G[n][n]]
<1>3. \A n \in Nat : Begins(G[n], n)
  <2> TAKE n \in Nat
  <2>1. \E g : Begins(g, n)
    BY <1>1
  <2> HIDE DEF Begins
  <2> QED
    BY <2>1
<1>4. F \in [Nat -> V]
  <2> SUFFICES ASSUME NEW n \in Nat PROVE G[n][n] \in V
    OBVIOUS
  <2>1. n \in 0 .. n
    OBVIOUS
  <2> HIDE DEF G
  <2> QED
    BY <1>3, <2>1
<1>5. F[0] = a
  <2> HIDE DEF G
  <2> QED
    BY <1>3
<1>6. ASSUME NEW n \in Nat PROVE F[n + 1] = h[<<n + 1, F[n]>>]
  <2>1. n \in 0 .. (n + 1) - 1 /\ n <= n + 1
    OBVIOUS
  <2> HIDE DEF G
  <2>2. Begins(G[n], n) /\ Begins(G[n + 1], n + 1)
    <3> HIDE DEF Begins
    <3>1. n + 1 \in Nat
      OBVIOUS
    <3> QED
      BY <1>3, <3>1
  <2>3. G[n + 1][n + 1] = h[<<n + 1, G[n + 1][n]>>]
    BY <2>1, <2>2
  <2>4. G[n][n] = G[n + 1][n]
    <3> HIDE DEF Begins
    <3> QED
      BY <1>2, <2>1, <2>2
  <2> QED
    BY <2>3, <2>4
<1> HIDE DEF F
<1> QED
  BY <1>4, <1>5, <1>6 DEF Iterates

-----------------------------------------------------------------------------
(* The recursion of Positions is well defined.                             *)
LEMMA PositionsStep ==
    ASSUME NEW keep
    PROVE  /\ Positions(0, keep) = <<>>
           /\ \A n \in Nat : Positions(n + 1, keep) = IF n + 1 \in keep THEN Append(Positions(n, keep), n + 1)
                                                      ELSE Positions(n, keep)
           /\ \A n \in Nat : Positions(n, keep) \in Seq(Nat)
<1> DEFINE h == [p \in Nat \X Seq(Nat) |-> IF p[1] \in keep THEN Append(p[2], p[1]) ELSE p[2]]
           Body(g) == [k \in Nat |-> IF k = 0 THEN <<>>
                                     ELSE IF k \in keep THEN Append(g[k - 1], k) ELSE g[k - 1]]
           upto == CHOOSE g : g = Body(g)
<1>1. h \in [Nat \X Seq(Nat) -> Seq(Nat)]
  OBVIOUS
<1>2. <<>> \in Seq(Nat)
  OBVIOUS
<1>3. PICK g \in [Nat -> Seq(Nat)] : g[0] = <<>> /\ \A n \in Nat : g[n + 1] = h[<<n + 1, g[n]>>]
  <2> HIDE DEF h
  <2>1. \E g \in [Nat -> Seq(Nat)] : Iterates(g, <<>>, h)
    BY <1>1, <1>2, Recursion
  <2> QED
    BY <2>1 DEF Iterates
<1>4. \A n \in Nat : g[n + 1] = IF n + 1 \in keep THEN Append(g[n], n + 1) ELSE g[n]
  <2> TAKE n \in Nat
  <2>1. g[n] \in Seq(Nat) /\ n + 1 \in Nat
    BY <1>3
  <2>2. <<n + 1, g[n]>> \in Nat \X Seq(Nat)
    BY <2>1
  <2>3. h[<<n + 1, g[n]>>] = IF n + 1 \in keep THEN Append(g[n], n + 1) ELSE g[n]
    BY <2>2
  <2> QED
    BY <1>3, <2>3
<1>5. g = Body(g)
  <2>1. ASSUME NEW k \in Nat PROVE g[k] = Body(g)[k]
    <3>1. CASE k = 0
      BY <1>3, <3>1
    <3>2. CASE k # 0
      <4>1. k - 1 \in Nat /\ (k - 1) + 1 = k
        BY <3>2
      <4> QED
        BY <1>4, <3>2, <4>1
    <3> QED
      BY <3>1, <3>2
  <2>2. g \in [Nat -> Seq(Nat)] /\ Body(g) = [k \in Nat |-> Body(g)[k]]
    BY <1>3
  <2> HIDE DEF Body
  <2> QED
    BY <2>1, <2>2
<1>6. upto = Body(upto)
  <2> HIDE DEF Body
  <2> QED
    BY <1>5
<1>7. \A n \in Nat : Positions(n, keep) = upto[n]
  BY Zenon DEF Positions
<1>8. /\ upto[0] = <<>>
      /\ \A n \in Nat : upto[n + 1] = IF n + 1 \in keep THEN Append(upto[n], n + 1) ELSE upto[n]
  <2>1. \A k \in Nat : upto[k] = Body(upto)[k]
    <3> HIDE DEF Body, upto
    <3> QED
      BY <1>6
  <2> HIDE DEF upto
  <2>2. \A n \in Nat : n + 1 \in Nat /\ n + 1 # 0 /\ (n + 1) - 1 = n
    OBVIOUS
  <2> QED
    BY <2>1, <2>2
<1> HIDE DEF upto
<1>9. \A n \in Nat : upto[n] \in Seq(Nat)
  <2> DEFINE Typed == {n \in Nat : upto[n] \in Seq(Nat)}
  <2>1. 0 \in Typed
    <3>1. upto[0] = <<>>
      BY <1>8
    <3>2. <<>> \in Seq(Nat)
      OBVIOUS
    <3> QED
      BY <3>1, <3>2
  <2>2. ASSUME NEW n \in Nat, n \in Typed PROVE n + 1 \in Typed
    <3>1. upto[n] \in Seq(Nat) /\ n + 1 \in Nat
      BY <2>2
    <3>2. upto[n + 1] = IF n + 1 \in keep THEN Append(upto[n], n + 1) ELSE upto[n]
      BY <1>8
    <3>3. Append(upto[n], n + 1) \in Seq(Nat)
      BY <3>1
    <3>4. upto[n + 1] \in Seq(Nat)
      BY <3>1, <3>2, <3>3
    <3> QED
      BY <3>1, <3>4
  <2> HIDE DEF Typed
  <2>3. \A n \in Nat : n \in Typed
    BY <2>1, <2>2, NatSetInduction
  <2> QED
    BY <2>3 DEF Typed
<1>10. 0 \in Nat /\ \A n \in Nat : n + 1 \in Nat
  OBVIOUS
<1> QED
  BY <1>7, <1>8, <1>9, <1>10

(* Positions are the kept ones, each once and in increasing order.         *)
LEMMA PositionsFacts ==
    ASSUME NEW keep, NEW n \in Nat
    PROVE  /\ Positions(n, keep) \in Seq(1 .. n)
           /\ Len(Positions(n, keep)) <= n
           /\ \A k \in 1 .. Len(Positions(n, keep)) : Positions(n, keep)[k] \in keep
           /\ \A i \in (1 .. n) \cap keep : \E k \in 1 .. Len(Positions(n, keep)) : Positions(n, keep)[k] = i
           /\ \A j, k \in 1 .. Len(Positions(n, keep)) : j < k => Positions(n, keep)[j] < Positions(n, keep)[k]
<1> DEFINE Fine(p, m) == /\ p \in Seq(1 .. m)
                         /\ Len(p) <= m
                         /\ \A k \in 1 .. Len(p) : p[k] \in keep
                         /\ \A i \in (1 .. m) \cap keep : \E k \in 1 .. Len(p) : p[k] = i
                         /\ \A j, k \in 1 .. Len(p) : j < k => p[j] < p[k]
           F == {m \in Nat : Fine(Positions(m, keep), m)}
<1>1. 0 \in F
  <2>1. Positions(0, keep) = <<>>
    BY PositionsStep
  <2>2. Fine(<<>>, 0)
    OBVIOUS
  <2>3. Fine(Positions(0, keep), 0)
    BY <2>1, <2>2
  <2> QED
    BY <2>3
<1>2. ASSUME NEW m \in Nat, m \in F PROVE m + 1 \in F
  <2> DEFINE p == Positions(m, keep)
  <2>1. Fine(p, m) /\ p \in Seq(Nat)
    BY <1>2, PositionsStep
  <2>2. Positions(m + 1, keep) = IF m + 1 \in keep THEN Append(p, m + 1) ELSE p
    BY PositionsStep
  <2> HIDE DEF p
  <2>3. 1 .. m \subseteq 1 .. m + 1 /\ \A i \in 1 .. m + 1 : i \notin 1 .. m => i = m + 1
    OBVIOUS
  <2>4. p \in Seq(1 .. m + 1)
    BY <2>1, <2>3, SeqMonotonic
  <2>5. CASE m + 1 \notin keep
    <3>1. Fine(p, m + 1)
      BY <2>1, <2>3, <2>4, <2>5
    <3> QED
      BY <2>2, <2>5, <3>1
  <2>6. CASE m + 1 \in keep
    <3> DEFINE q == Append(p, m + 1)
    <3>1. /\ q \in Seq(1 .. m + 1) /\ Len(q) = Len(p) + 1 /\ q[Len(p) + 1] = m + 1
          /\ \A k \in 1 .. Len(p) : q[k] = p[k]
      BY <2>4, AppendProperties
    <3>2. Len(p) \in Nat /\ \A k \in 1 .. Len(p) + 1 : k \in 1 .. Len(p) \/ k = Len(p) + 1
      BY <2>1
    <3> HIDE DEF q
    <3>3. Len(q) <= m + 1 /\ \A k \in 1 .. Len(q) : q[k] \in keep
      <4>1. Len(q) <= m + 1
        BY <2>1, <3>1, <3>2
      <4>2. ASSUME NEW k \in 1 .. Len(q) PROVE q[k] \in keep
        <5>1. CASE k = Len(p) + 1
          BY <2>6, <3>1, <5>1
        <5>2. CASE k \in 1 .. Len(p)
          BY <2>1, <3>1, <5>2
        <5> QED
          BY <3>1, <3>2, <4>2, <5>1, <5>2
      <4> QED
        BY <4>1, <4>2
    <3>4. \A i \in (1 .. m + 1) \cap keep : \E k \in 1 .. Len(q) : q[k] = i
      <4> TAKE i \in (1 .. m + 1) \cap keep
      <4>1. CASE i = m + 1
        BY <3>1, <3>2, <4>1
      <4>2. CASE i # m + 1
        <5>1. PICK k \in 1 .. Len(p) : p[k] = i
          BY <2>1, <2>3, <4>2
        <5> QED
          BY <3>1, <3>2, <5>1
      <4> QED
        BY <4>1, <4>2
    <3>5. \A j, k \in 1 .. Len(q) : j < k => q[j] < q[k]
      <4> SUFFICES ASSUME NEW j \in 1 .. Len(q), NEW k \in 1 .. Len(q), j < k PROVE q[j] < q[k]
        OBVIOUS
      <4>1. j \in 1 .. Len(p)
        BY <3>1, <3>2
      <4>2. q[j] = p[j] /\ p[j] \in 1 .. m
        BY <2>1, <3>1, <4>1, ElementOfSeq
      <4>3. CASE k = Len(p) + 1
        BY <3>1, <4>2, <4>3
      <4>4. CASE k \in 1 .. Len(p)
        BY <2>1, <3>1, <4>1, <4>2, <4>4
      <4> QED
        BY <3>1, <3>2, <4>3, <4>4
    <3>6. Fine(q, m + 1)
      BY <3>1, <3>3, <3>4, <3>5
    <3>7. Positions(m + 1, keep) = q
      BY <2>2, <2>6 DEF q
    <3>8. m + 1 \in Nat
      OBVIOUS
    <3> HIDE DEF Fine
    <3> QED
      BY <3>6, <3>7, <3>8
  <2> QED
    BY <2>5, <2>6
<1> HIDE DEF F
<1>3. n \in F
  BY <1>1, <1>2, NatSetInduction
<1> QED
  BY <1>3 DEF F

(* `r` has the elements of `s` at kept positions, all of them, in order.   *)
KeptOf(r, s, keep) ==
    /\ \A k \in DOMAIN r : \E i \in DOMAIN s \cap keep : r[k] = s[i]
    /\ \A i \in DOMAIN s \cap keep : \E k \in DOMAIN r : r[k] = s[i]
    /\ \A j, k \in DOMAIN r : j < k => \E h, i \in DOMAIN s \cap keep : h < i /\ r[j] = s[h] /\ r[k] = s[i]

(* Retain keeps exactly the elements at the kept positions, in their order *)
(* (Vec::retain).                                                          *)
LEMMA RetainFacts ==
    ASSUME NEW S, NEW s \in Seq(S), NEW keep
    PROVE  /\ Retain(s, keep) \in Seq(S)
           /\ Len(Retain(s, keep)) <= Len(s)
           /\ KeptOf(Retain(s, keep), s, keep)
<1> DEFINE n == Len(s)
           p == Positions(n, keep)
           r == Retain(s, keep)
<1>1. n \in Nat /\ DOMAIN s = 1 .. n /\ \A i \in 1 .. n : s[i] \in S
  BY ElementOfSeq
<1>2. /\ p \in Seq(1 .. n) /\ Len(p) <= n
      /\ \A k \in 1 .. Len(p) : p[k] \in keep
      /\ \A i \in (1 .. n) \cap keep : \E k \in 1 .. Len(p) : p[k] = i
      /\ \A j, k \in 1 .. Len(p) : j < k => p[j] < p[k]
  BY <1>1, PositionsFacts
<1>3. r = [k \in 1 .. Len(p) |-> s[p[k]]]
  BY DEF Retain
<1> HIDE DEF n, p, r
<1>4. Len(p) \in Nat /\ \A k \in 1 .. Len(p) : p[k] \in 1 .. n
  <2>1. Len(p) \in Nat /\ p \in [1 .. Len(p) -> 1 .. n]
    BY <1>2, LenProperties
  <2> QED
    BY <2>1
<1>5. DOMAIN r = 1 .. Len(p) /\ \A k \in 1 .. Len(p) : p[k] \in DOMAIN s \cap keep /\ r[k] = s[p[k]]
  BY <1>1, <1>2, <1>3, <1>4
<1>6. r \in Seq(S) /\ Len(r) = Len(p)
  BY <1>1, <1>3, <1>4, IsASeq
<1>7. ASSUME NEW i \in DOMAIN s \cap keep PROVE \E k \in DOMAIN r : r[k] = s[i]
  <2>1. PICK k \in 1 .. Len(p) : p[k] = i
    BY <1>1, <1>2
  <2> QED
    BY <1>5, <2>1
<1>8. \A j, k \in DOMAIN r : j < k => \E h, i \in DOMAIN s \cap keep : h < i /\ r[j] = s[h] /\ r[k] = s[i]
  BY <1>2, <1>5
<1> QED
  BY <1>2, <1>5, <1>6, <1>7, <1>8 DEF r, n, KeptOf

(* `q` and `r` have the elements of `s` and `t` at the same kept positions. *)
KeptAlike(q, r, s, t, keep) ==
    \A k \in DOMAIN q : \E i \in DOMAIN s \cap keep : q[k] = s[i] /\ r[k] = t[i]

(* The same positions of two sequences of one length: what is retained has *)
(* one length, too, and corresponds place by place.                        *)
LEMMA RetainAlike ==
    ASSUME NEW S, NEW T, NEW s \in Seq(S), NEW t \in Seq(T), Len(s) = Len(t), NEW keep
    PROVE  /\ DOMAIN Retain(s, keep) = DOMAIN Retain(t, keep)
           /\ Len(Retain(s, keep)) = Len(Retain(t, keep))
           /\ KeptAlike(Retain(s, keep), Retain(t, keep), s, t, keep)
<1> DEFINE n == Len(s)
           p == Positions(n, keep)
<1>1. n \in Nat /\ DOMAIN s = 1 .. n /\ DOMAIN t = 1 .. n
  BY ElementOfSeq
<1>2. p \in Seq(1 .. n) /\ \A k \in 1 .. Len(p) : p[k] \in keep
  BY <1>1, PositionsFacts
<1>3. Retain(s, keep) = [k \in 1 .. Len(p) |-> s[p[k]]] /\ Retain(t, keep) = [k \in 1 .. Len(p) |-> t[p[k]]]
  BY DEF Retain
<1> HIDE DEF n, p
<1>4. Len(p) \in Nat /\ \A k \in 1 .. Len(p) : p[k] \in 1 .. n
  <2>1. Len(p) \in Nat /\ p \in [1 .. Len(p) -> 1 .. n]
    BY <1>2, LenProperties
  <2> QED
    BY <2>1
<1>5. DOMAIN Retain(s, keep) = 1 .. Len(p) /\ DOMAIN Retain(t, keep) = 1 .. Len(p)
  BY <1>3
<1>6. Len(Retain(s, keep)) = Len(p) /\ Len(Retain(t, keep)) = Len(p)
  BY <1>4, <1>5, RetainFacts, LenProperties
<1>7. \A k \in 1 .. Len(p) : p[k] \in DOMAIN s \cap keep /\ Retain(s, keep)[k] = s[p[k]] /\ Retain(t, keep)[k] = t[p[k]]
  BY <1>1, <1>2, <1>3, <1>4
<1> QED
  BY <1>5, <1>6, <1>7 DEF KeptAlike
=============================================================================
