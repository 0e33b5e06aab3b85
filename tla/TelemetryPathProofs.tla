------------------------ MODULE TelemetryPathProofs ------------------------
(***************************************************************************)
(* Proofs about the way of a sample from the collectors to the curve, for  *)
(* any counters, devices, readings and capacities: samples are whole, the  *)
(* curves follow the samples that arrive and show their latest points, and *)
(* what is drawn stays inside the chart.                                   *)
(*                                                                         *)
(* Sequences are built by loops here, so the first part proves what the    *)
(* recursive functions compute, by way of the least counterexample.        *)
(***************************************************************************)
EXTENDS TelemetryPath, FiniteSetTheorems, TLAPS

(* A set of naturals has a least element.                                  *)
LEMMA Least ==
  ASSUME NEW T, T \subseteq Nat, T # {}
  PROVE  \E m \in T : \A k \in T : m <= k
<1>1. PICK x \in T : \A y \in T : ~(<<y, x>> \in OpToRel(<, Nat))
  BY NatLessThanWellFounded, WFMin
<1>2. ASSUME NEW y \in T, y < x PROVE FALSE
  BY <1>1, <1>2 DEF OpToRel
<1>3. ASSUME NEW y \in T PROVE x <= y
  <2>1. x \in Nat /\ y \in Nat
    OBVIOUS
  <2>2. ~(y < x)
    BY <1>2
  <2> QED BY <2>1, <2>2
<1> QED BY <1>3

(* Induction up to m: T is the set of numbers with the property.           *)
LEMMA Induction ==
  ASSUME NEW m \in Nat, NEW T, 0 \in T, \A n \in 1..m : n - 1 \in T => n \in T
  PROVE  \A n \in 0..m : n \in T
<1> DEFINE B == (0..m) \ T
<1> SUFFICES ASSUME B # {} PROVE FALSE
  OBVIOUS
<1>1. PICK b \in B : \A k \in B : b <= k
  <2>1. B \subseteq Nat
    OBVIOUS
  <2> HIDE DEF B
  <2> QED BY <2>1, Least
<1>2. b \in 1..m /\ b \notin T
  BY <1>1
<1>3. b - 1 \notin T /\ b - 1 \in 0..m
  BY <1>2
<1>4. b <= b - 1
  BY <1>1, <1>3
<1> QED BY <1>2, <1>4

(* A loop of m turns over a state in V, where turn k maps v to g[k][v]:    *)
(* f[k] is the state after k turns.                                        *)
Turns(V, m) == [1..m -> [V -> V]]

IsLoop(f, V, m, v, g) ==
  f \in [0..m -> V] /\ f[0] = v /\ \A k \in 1..m : f[k] = g[k][f[k - 1]]

(* The loop ends.                                                          *)
LEMMA Loop ==
  ASSUME NEW V, NEW m \in Nat, NEW v \in V, NEW g \in Turns(V, m)
  PROVE  \E f : IsLoop(f, V, m, v, g)
<1> USE DEF Turns, IsLoop
<1> DEFINE T == {n \in 0..m :
                   \E f \in [0..n -> V] : f[0] = v /\ \A k \in 1..n : f[k] = g[k][f[k - 1]]}
<1>1. 0 \in T
  <2> DEFINE h == [n \in 0..0 |-> v]
  <2>1. h \in [0..0 -> V] /\ h[0] = v /\ \A k \in 1..0 : h[k] = g[k][h[k - 1]]
    OBVIOUS
  <2> HIDE DEF h
  <2> QED BY <2>1
<1>2. ASSUME NEW n \in 1..m, n - 1 \in T PROVE n \in T
  <2>1. PICK f \in [0..(n - 1) -> V] : f[0] = v /\ \A k \in 1..(n - 1) : f[k] = g[k][f[k - 1]]
    BY <1>2
  <2> DEFINE h == [k \in 0..n |-> IF k = n THEN g[n][f[n - 1]] ELSE f[k]]
  <2>2. g[n][f[n - 1]] \in V
    <3>1. n - 1 \in 0..(n - 1) /\ f[n - 1] \in V
      OBVIOUS
    <3>2. g[n] \in [V -> V]
      OBVIOUS
    <3> QED BY <3>1, <3>2
  <2>3. h \in [0..n -> V]
    BY <2>2
  <2>4. h[0] = v
    BY <2>1
  <2>5. ASSUME NEW k \in 1..n PROVE h[k] = g[k][h[k - 1]]
    <3>1. k - 1 \in 0..(n - 1) /\ h[k - 1] = f[k - 1]
      OBVIOUS
    <3>2. CASE k = n
      BY <3>1, <3>2
    <3>3. CASE k # n
      <4>1. k \in 1..(n - 1) /\ h[k] = f[k]
        BY <3>3
      <4> QED BY <2>1, <3>1, <4>1
    <3> QED BY <3>2, <3>3
  <2> HIDE DEF h
  <2> QED BY <2>3, <2>4, <2>5
<1>3. \A n \in 0..m : n \in T
  <2> HIDE DEF T
  <2> QED BY <1>1, <1>2, Induction
<1> QED BY <1>3

-----------------------------------------------------------------------------
(* FlattenSeq appends one sequence after the other.                        *)
LEMMA Flatten ==
  ASSUME NEW S, NEW ss \in Seq(Seq(S))
  PROVE  \E f \in [0..Len(ss) -> Seq(S)] :
           /\ f[0] = << >>
           /\ \A k \in 1..Len(ss) : f[k] = f[k - 1] \o ss[k]
           /\ FlattenSeq(ss) = f[Len(ss)]
<1> DEFINE m == Len(ss)
           g == [k \in 1..m |-> [q \in Seq(S) |-> q \o ss[k]]]
           IsFlatten(h) == h = [i \in 1..m |-> IF i = 1 THEN ss[i] ELSE h[i - 1] \o ss[i]]
           c == CHOOSE h : IsFlatten(h)
<1>1. m \in Nat /\ \A k \in 1..m : ss[k] \in Seq(S)
  OBVIOUS
<1>2. FlattenSeq(ss) = IF m = 0 THEN ss ELSE c[m]
  BY DEF FlattenSeq
<1>3. PICK f \in [0..m -> Seq(S)] : f[0] = << >> /\ \A k \in 1..m : f[k] = g[k][f[k - 1]]
  <2>1. g \in [1..m -> [Seq(S) -> Seq(S)]]
    BY <1>1
  <2> DEFINE V == Seq(S)
             e == << >>
  <2>2. e \in V
    OBVIOUS
  <2>5. g \in Turns(V, m)
    BY <2>1 DEF Turns
  <2> HIDE DEF g, m, V, e
  <2>3. m \in Nat
    BY <1>1
  <2>4. \E f : IsLoop(f, V, m, e, g)
    BY <2>2, <2>3, <2>5, Loop
  <2> QED BY <2>4 DEF V, e, IsLoop
<1>4. ASSUME NEW k \in 1..m PROVE f[k] = f[k - 1] \o ss[k] /\ f[k - 1] \in Seq(S)
  <2>1. k - 1 \in 0..m
    BY <1>1
  <2>2. f[k - 1] \in Seq(S)
    BY <1>3, <2>1
  <2>3. g[k][f[k - 1]] = f[k - 1] \o ss[k]
    BY <2>2
  <2> HIDE DEF g, m
  <2> QED BY <1>3, <2>2, <2>3
<1> HIDE DEF m, g
<1>0. \A q \in Seq(S) : << >> \o q = q
  OBVIOUS
<1>5. IsFlatten(c)
  <2> DEFINE h == [i \in 1..m |-> f[i]]
  <2>1. ASSUME NEW i \in 1..m PROVE h[i] = IF i = 1 THEN ss[i] ELSE h[i - 1] \o ss[i]
    <3>1. CASE i = 1
      <4>1. f[1] = << >> \o ss[1] /\ ss[1] \in Seq(S)
        <5>0. f[i] = f[i - 1] \o ss[i]
          BY <1>4
        <5>1. i - 1 = 0
          BY <3>1
        <5> QED BY <1>1, <1>3, <3>1, <5>0, <5>1
      <4> QED BY <1>0, <3>1, <4>1
    <3>2. CASE i # 1
      <4>1. i - 1 \in 1..m
        BY <1>1, <3>2
      <4> QED BY <1>4, <3>2, <4>1
    <3> QED BY <3>1, <3>2
  <2>2. IsFlatten(h)
    BY <2>1
  <2> HIDE DEF h, IsFlatten
  <2> QED BY <2>2
<1>6. \A n \in 0..m : n \in {k \in 0..m : k # 0 => c[k] = f[k]}
  <2> DEFINE T == {k \in 0..m : k # 0 => c[k] = f[k]}
  <2>1. 0 \in T
    BY <1>1
  <2>2. ASSUME NEW n \in 1..m, n - 1 \in T PROVE n \in T
    <3>1. c[n] = IF n = 1 THEN ss[n] ELSE c[n - 1] \o ss[n]
      <4> HIDE DEF c
      <4> QED BY <1>5
    <3>2. f[n] = f[n - 1] \o ss[n] /\ ss[n] \in Seq(S)
      BY <1>1, <1>4
    <3>3. c[n] = f[n]
      <4> HIDE DEF c
      <4>1. CASE n = 1
        <5>1. f[1] = << >> \o ss[1] /\ ss[1] \in Seq(S)
          <6>1. n - 1 = 0
            BY <4>1
          <6> QED BY <1>3, <3>2, <4>1, <6>1
        <5> QED BY <1>0, <3>1, <4>1, <5>1
      <4>2. CASE n # 1
        <5>1. c[n - 1] = f[n - 1]
          BY <1>1, <2>2, <4>2
        <5> QED BY <3>1, <3>2, <4>2, <5>1
      <4> QED BY <4>1, <4>2
    <3> HIDE DEF c
    <3> QED BY <1>1, <3>3
  <2> HIDE DEF T, c
  <2>3. \A n \in 0..m : n \in T
    BY <1>1, <2>1, <2>2, Induction
  <2> QED BY <2>3 DEF T
<1> HIDE DEF c
<1>7. FlattenSeq(ss) = f[m]
  <2>1. CASE m = 0
    <3>1. ss = << >>
      BY <2>1 DEF m
    <3> QED BY <1>2, <1>3, <2>1, <3>1
  <2>2. CASE m # 0
    BY <1>1, <1>2, <1>6, <2>2
  <2> QED BY <2>1, <2>2
<1> QED BY <1>3, <1>4, <1>7 DEF m

Elems(q) == {q[n] : n \in 1..Len(q)}

(* The elements of a concatenation.                                        *)
LEMMA ElemsConcat ==
  ASSUME NEW S, NEW p \in Seq(S), NEW q \in Seq(S)
  PROVE  p \o q \in Seq(S) /\ Elems(p \o q) = Elems(p) \cup Elems(q)
<1>1. /\ p \o q \in Seq(S) /\ Len(p \o q) = Len(p) + Len(q) /\ Len(p) \in Nat /\ Len(q) \in Nat
      /\ \A i \in 1..Len(p) : (p \o q)[i] = p[i]
      /\ \A i \in 1..Len(q) : (p \o q)[Len(p) + i] = q[i]
  OBVIOUS
<1> DEFINE r == p \o q
<1> HIDE DEF r
<1>2. Elems(r) \subseteq Elems(p) \cup Elems(q)
  <2> SUFFICES ASSUME NEW i \in 1..Len(r) PROVE r[i] \in Elems(p) \cup Elems(q)
    BY DEF Elems
  <2>1. CASE i <= Len(p)
    <3>1. i \in 1..Len(p) /\ r[i] = p[i]
      BY <1>1, <2>1 DEF r
    <3> QED BY <3>1 DEF Elems
  <2>2. CASE i > Len(p)
    <3>1. i - Len(p) \in 1..Len(q) /\ i = Len(p) + (i - Len(p))
      BY <1>1, <2>2 DEF r
    <3>2. r[i] = q[i - Len(p)]
      BY <1>1, <3>1 DEF r
    <3> QED BY <3>1, <3>2 DEF Elems
  <2> QED BY <1>1, <2>1, <2>2 DEF r
<1>3. Elems(p) \subseteq Elems(r)
  <2> SUFFICES ASSUME NEW i \in 1..Len(p) PROVE p[i] \in Elems(r)
    BY DEF Elems
  <2>1. i \in 1..Len(r) /\ r[i] = p[i]
    BY <1>1 DEF r
  <2> QED BY <2>1 DEF Elems
<1>4. Elems(q) \subseteq Elems(r)
  <2> SUFFICES ASSUME NEW i \in 1..Len(q) PROVE q[i] \in Elems(r)
    BY DEF Elems
  <2>1. Len(p) + i \in 1..Len(r) /\ r[Len(p) + i] = q[i]
    BY <1>1 DEF r
  <2> QED BY <2>1 DEF Elems
<1> QED BY <1>1, <1>2, <1>3, <1>4 DEF r

(* The elements of FlattenSeq are those of its parts.                      *)
LEMMA FlattenElems ==
  ASSUME NEW S, NEW ss \in Seq(Seq(S))
  PROVE  /\ FlattenSeq(ss) \in Seq(S)
         /\ \A x : x \in Elems(FlattenSeq(ss)) <=> \E k \in 1..Len(ss) : x \in Elems(ss[k])
<1> DEFINE m == Len(ss)
<1>1. m \in Nat /\ \A k \in 1..m : ss[k] \in Seq(S)
  OBVIOUS
<1>2. PICK f \in [0..m -> Seq(S)] :
        f[0] = << >> /\ (\A k \in 1..m : f[k] = f[k - 1] \o ss[k]) /\ FlattenSeq(ss) = f[m]
  BY Flatten
<1> HIDE DEF m
<1> DEFINE T == {n \in 0..m : \A x : x \in Elems(f[n]) <=> \E k \in 1..n : x \in Elems(ss[k])}
<1>3. 0 \in T
  BY <1>1, <1>2 DEF Elems
<1>4. ASSUME NEW n \in 1..m, n - 1 \in T PROVE n \in T
  <2>1. n - 1 \in 0..m /\ n \in 0..m /\ 1..n = (1..(n - 1)) \cup {n}
    BY <1>1
  <2>2. f[n - 1] \in Seq(S) /\ ss[n] \in Seq(S) /\ f[n] = f[n - 1] \o ss[n]
    BY <1>1, <1>2, <2>1
  <2>3. Elems(f[n]) = Elems(f[n - 1]) \cup Elems(ss[n])
    BY <2>2, ElemsConcat
  <2>4. \A x : x \in Elems(f[n - 1]) <=> \E k \in 1..(n - 1) : x \in Elems(ss[k])
    BY <1>4
  <2> QED BY <2>1, <2>3, <2>4
<1>5. m \in T
  <2> HIDE DEF T
  <2>1. m \in Nat /\ m \in 0..m
    BY <1>1
  <2>2. \A n \in 0..m : n \in T
    BY <1>3, <1>4, <2>1, Induction
  <2> QED BY <2>1, <2>2
<1>6. f[m] \in Seq(S)
  BY <1>1, <1>2
<1> QED BY <1>2, <1>5, <1>6 DEF m

(* FlattenSeq is not longer than its parts together: c[k] bounds what the  *)
(* first k have.                                                           *)
LEMMA FlattenLen ==
  ASSUME NEW S, NEW ss \in Seq(Seq(S)), NEW c \in [0..Len(ss) -> Nat],
         \A k \in 1..Len(ss) : c[k - 1] + Len(ss[k]) <= c[k]
  PROVE  Len(FlattenSeq(ss)) <= c[Len(ss)]
<1> DEFINE m == Len(ss)
<1>1. m \in Nat /\ \A k \in 1..m : ss[k] \in Seq(S) /\ Len(ss[k]) \in Nat
  OBVIOUS
<1>2. PICK f \in [0..m -> Seq(S)] :
        f[0] = << >> /\ (\A k \in 1..m : f[k] = f[k - 1] \o ss[k]) /\ FlattenSeq(ss) = f[m]
  BY Flatten
<1>0. \A k \in 1..m : c[k - 1] + Len(ss[k]) <= c[k]
  OBVIOUS
<1> HIDE DEF m
<1> DEFINE T == {n \in 0..m : Len(f[n]) <= c[n]}
<1>3. 0 \in T
  <2>1. Len(f[0]) = 0
    BY <1>2
  <2>2. c[0] \in Nat /\ 0 \in 0..m
    BY <1>1 DEF m
  <2> QED BY <2>1, <2>2
<1>4. ASSUME NEW n \in 1..m, n - 1 \in T PROVE n \in T
  <2>1. n - 1 \in 0..m /\ n \in 0..m
    BY <1>1
  <2>2. f[n - 1] \in Seq(S) /\ ss[n] \in Seq(S) /\ f[n] = f[n - 1] \o ss[n]
    BY <1>1, <1>2, <2>1
  <2>3. Len(f[n]) = Len(f[n - 1]) + Len(ss[n]) /\ Len(f[n - 1]) \in Nat /\ Len(ss[n]) \in Nat
    BY <2>2
  <2>4. c[n - 1] \in Nat /\ c[n] \in Nat
    BY <2>1 DEF m
  <2>5. Len(f[n - 1]) <= c[n - 1]
    BY <1>4
  <2>7. c[n - 1] + Len(ss[n]) <= c[n]
    BY <1>0
  <2>6. Len(f[n]) <= c[n]
    <3> DEFINE x == Len(f[n - 1])
               y == Len(ss[n])
               a == c[n - 1]
               b == c[n]
    <3>1. x \in Nat /\ y \in Nat /\ a \in Nat /\ b \in Nat /\ x <= a /\ a + y <= b
      BY <2>3, <2>4, <2>5, <2>7
    <3>2. Len(f[n]) = x + y
      BY <2>3
    <3> HIDE DEF x, y, a, b
    <3>3. x + y <= b
      BY ONLY <3>1
    <3> QED BY <3>2, <3>3 DEF b
  <2> QED BY <2>1, <2>6
<1>5. m \in T
  <2> HIDE DEF T
  <2>1. m \in Nat /\ m \in 0..m
    BY <1>1
  <2>2. \A n \in 0..m : n \in T
    BY <1>3, <1>4, <2>1, Induction
  <2> QED BY <2>1, <2>2
<1> QED BY <1>2, <1>5 DEF m

-----------------------------------------------------------------------------
(* The metrics of a sample, and how many of them have a certain name.      *)
Names == {Specs[i] : i \in DOMAIN Specs}
           \cup {"mem.used_mb", "mem.total_mb", "cpu.temp_c", "gpu.util_pct", "gpu.mem_used_mb",
                 "gpu.mem_total_mb", "gpu.temp_c", "gpu.power_w", "gpu.clock_mhz"}

Metrics == [id : Names, value : Int]

Places(q, id) == {n \in 1..Len(q) : q[n].id = id}
Hits(q, id) == Cardinality(Places(q, id))

(* The hits of a concatenation.                                            *)
LEMMA HitsConcat ==
  ASSUME NEW S, NEW p \in Seq(S), NEW q \in Seq(S), NEW id
  PROVE  /\ Hits(p, id) \in Nat /\ Hits(q, id) \in Nat
         /\ Hits(p \o q, id) = Hits(p, id) + Hits(q, id)
<1> DEFINE r == p \o q
           l == Len(p)
           P == Places(p, id)
           Q == Places(q, id)
           R == {l + n : n \in Q}
<1>1. /\ l \in Nat /\ Len(q) \in Nat /\ Len(r) = l + Len(q)
      /\ \A i \in 1..l : r[i] = p[i]
      /\ \A i \in 1..Len(q) : r[l + i] = q[i]
  OBVIOUS
<1> HIDE DEF r, l
<1>2. IsFiniteSet(P) /\ IsFiniteSet(Q)
  <2>1. IsFiniteSet(1..Len(p)) /\ IsFiniteSet(1..Len(q))
    BY FS_Interval
  <2>2. P \in SUBSET (1..Len(p)) /\ Q \in SUBSET (1..Len(q))
    BY DEF Places
  <2> QED BY <2>1, <2>2, FS_Subset
<1>3. IsFiniteSet(R) /\ Cardinality(R) = Cardinality(Q)
  <2> DEFINE f == [n \in Q |-> l + n]
  <2>0. Q \subseteq Nat
    BY <1>1 DEF Places
  <2>1. f \in Bijection(Q, R)
    <3>1. f \in [Q -> R]
      OBVIOUS
    <3>2. \A a, b \in Q : f[a] = f[b] => a = b
      BY <1>1, <2>0
    <3>3. \A x \in R : \E n \in Q : f[n] = x
      OBVIOUS
    <3> HIDE DEF f, R, Q
    <3> QED BY <3>1, <3>2, <3>3 DEF Bijection, Injection, Surjection, IsInjective
  <2>2. ExistsBijection(Q, R)
    BY <2>1 DEF ExistsBijection
  <2> HIDE DEF Q, R
  <2> QED BY <1>2, <2>2, FS_Bijection
<1>4. Places(r, id) = P \cup R
  <2>1. ASSUME NEW n \in Places(r, id) PROVE n \in P \cup R
    <3>1. n \in 1..Len(r) /\ r[n].id = id
      BY DEF Places
    <3>2. CASE n <= l
      <4>1. n \in 1..l /\ r[n] = p[n]
        BY <1>1, <3>1, <3>2
      <4> QED BY <3>1, <4>1 DEF Places, l
    <3>3. CASE n > l
      <4>1. n - l \in 1..Len(q) /\ n = l + (n - l)
        BY <1>1, <3>1, <3>3
      <4>2. r[n] = q[n - l]
        BY <1>1, <4>1
      <4>3. n - l \in Q
        BY <3>1, <4>1, <4>2 DEF Places
      <4> QED BY <4>1, <4>3
    <3> QED BY <1>1, <3>1, <3>2, <3>3
  <2>2. ASSUME NEW n \in P PROVE n \in Places(r, id)
    <3>1. n \in 1..l /\ p[n].id = id
      BY DEF Places, l
    <3>2. n \in 1..Len(r) /\ r[n] = p[n]
      BY <1>1, <3>1
    <3> QED BY <3>1, <3>2 DEF Places
  <2>3. ASSUME NEW n \in Q PROVE l + n \in Places(r, id)
    <3>1. n \in 1..Len(q) /\ q[n].id = id
      BY DEF Places
    <3>2. l + n \in 1..Len(r) /\ r[l + n] = q[n]
      BY <1>1, <3>1
    <3> QED BY <3>1, <3>2 DEF Places
  <2> QED BY <2>1, <2>2, <2>3
<1>5. P \cap R = {}
  BY <1>1 DEF Places, l
<1> HIDE DEF P, Q, R
<1>6. /\ Cardinality(P) \in Nat /\ Cardinality(Q) \in Nat
      /\ Cardinality(P \cup R) = Cardinality(P) + Cardinality(R) - Cardinality(P \cap R)
  BY <1>2, <1>3, FS_Union, FS_CardinalityType
<1>7. Cardinality(P \cap R) = 0
  BY <1>5, FS_EmptySet
<1> QED BY <1>3, <1>4, <1>6, <1>7 DEF Hits, P, Q, r

(* A function on 1..m is a sequence.                                       *)
LEMMA FcnIsSeq ==
  ASSUME NEW S, NEW m \in Nat, NEW f \in [1..m -> S]
  PROVE  f \in Seq(S) /\ Len(f) = m /\ DOMAIN f = 1..m
  OBVIOUS

(* The hits of FlattenSeq: c[k] bounds those of the first k parts.         *)
LEMMA HitsFlatten ==
  ASSUME NEW S, NEW ss \in Seq(Seq(S)), NEW id, NEW c \in [0..Len(ss) -> Nat],
         \A k \in 1..Len(ss) : c[k - 1] + Hits(ss[k], id) <= c[k]
  PROVE  Hits(FlattenSeq(ss), id) <= c[Len(ss)]
<1> DEFINE m == Len(ss)
<1>1. m \in Nat /\ \A k \in 1..m : ss[k] \in Seq(S)
  OBVIOUS
<1>2. PICK f \in [0..m -> Seq(S)] :
        f[0] = << >> /\ (\A k \in 1..m : f[k] = f[k - 1] \o ss[k]) /\ FlattenSeq(ss) = f[m]
  BY Flatten
<1>0. \A k \in 1..m : c[k - 1] + Hits(ss[k], id) <= c[k]
  OBVIOUS
<1> HIDE DEF m
<1> DEFINE T == {n \in 0..m : Hits(f[n], id) <= c[n]}
<1>3. 0 \in T
  <2>1. Places(f[0], id) = {}
    BY <1>2 DEF Places
  <2>2. Hits(f[0], id) = 0
    BY <2>1, FS_EmptySet DEF Hits
  <2>3. c[0] \in Nat /\ 0 \in 0..m
    BY <1>1 DEF m
  <2> QED BY <2>2, <2>3
<1>4. ASSUME NEW n \in 1..m, n - 1 \in T PROVE n \in T
  <2> DEFINE x == Hits(f[n - 1], id)
             y == Hits(ss[n], id)
             a == c[n - 1]
             b == c[n]
  <2>1. n - 1 \in 0..m /\ n \in 0..m
    BY <1>1
  <2>2. f[n - 1] \in Seq(S) /\ ss[n] \in Seq(S) /\ f[n] = f[n - 1] \o ss[n]
    BY <1>1, <1>2, <2>1
  <2>3. Hits(f[n], id) = x + y /\ x \in Nat /\ y \in Nat
    <3> DEFINE p == f[n - 1]
               q == ss[n]
    <3> HIDE DEF p, q
    <3>1. p \in Seq(S) /\ q \in Seq(S) /\ f[n] = p \o q
      BY <2>2 DEF p, q
    <3>2. Hits(p, id) \in Nat /\ Hits(q, id) \in Nat /\ Hits(p \o q, id) = Hits(p, id) + Hits(q, id)
      BY <3>1, HitsConcat
    <3> QED BY <3>1, <3>2 DEF p, q
  <2>4. a \in Nat /\ b \in Nat
    BY <2>1 DEF m
  <2>5. x <= a
    BY <1>4
  <2>6. a + y <= b
    BY <1>0
  <2>7. x + y <= b
    <3> HIDE DEF x, y, a, b
    <3> QED BY ONLY <2>3, <2>4, <2>5, <2>6
  <2> HIDE DEF x, y
  <2> QED BY <2>1, <2>3, <2>7
<1>5. m \in T
  <2> HIDE DEF T
  <2>1. m \in Nat /\ m \in 0..m
    BY <1>1
  <2>2. \A n \in 0..m : n \in T
    BY <1>3, <1>4, <2>1, Induction
  <2> QED BY <2>1, <2>2
<1> QED BY <1>2, <1>5 DEF m

(* Only keeps the metrics of these names.                                  *)
LEMMA OnlyKeeps ==
  ASSUME NEW q \in Seq(Metrics), NEW ids
  PROVE  /\ Only(q, ids) \in Seq(Metrics)
         /\ \A x : x \in Elems(Only(q, ids)) <=> x \in Elems(q) /\ x.id \in ids
<1> DEFINE m == Len(q)
           parts == [n \in 1..m |-> IF q[n].id \in ids THEN <<q[n]>> ELSE << >>]
<1>1. m \in Nat /\ DOMAIN q = 1..m /\ \A n \in 1..m : q[n] \in Metrics
  OBVIOUS
<1>2. Only(q, ids) = FlattenSeq(parts)
  BY <1>1 DEF Only
<1>3. ASSUME NEW n \in 1..m PROVE parts[n] \in Seq(Metrics)
  BY <1>1
<1>4. parts \in Seq(Seq(Metrics)) /\ Len(parts) = m
  <2>1. parts \in [1..m -> Seq(Metrics)]
    BY <1>3
  <2> HIDE DEF parts
  <2> QED BY <1>1, <2>1, FcnIsSeq
<1>5. ASSUME NEW n \in 1..m, NEW x PROVE x \in Elems(parts[n]) <=> x = q[n] /\ x.id \in ids
  <2>1. CASE q[n].id \in ids
    <3>1. parts[n] = <<q[n]>>
      BY <2>1
    <3>2. Elems(<<q[n]>>) = {q[n]}
      BY DEF Elems
    <3> HIDE DEF parts
    <3> QED BY <2>1, <3>1, <3>2
  <2>2. CASE q[n].id \notin ids
    <3>1. parts[n] = << >>
      BY <2>2
    <3>2. Elems(<< >>) = {}
      BY DEF Elems
    <3> HIDE DEF parts
    <3> QED BY <2>2, <3>1, <3>2
  <2> QED BY <2>1, <2>2
<1> HIDE DEF parts
<1>6. \A x : x \in Elems(FlattenSeq(parts)) <=> \E n \in 1..m : x \in Elems(parts[n])
  BY <1>4, FlattenElems
<1>7. FlattenSeq(parts) \in Seq(Metrics)
  BY <1>4, FlattenElems
<1>8. \A x : x \in Elems(q) <=> \E n \in 1..m : x = q[n]
  BY DEF Elems
<1> QED BY <1>2, <1>5, <1>6, <1>7, <1>8

(* It keeps as many as there are.                                          *)
LEMMA OnlyLen ==
  ASSUME NEW q \in Seq(Metrics), NEW id
  PROVE  Len(Only(q, {id})) <= Hits(q, id)
<1> DEFINE m == Len(q)
           parts == [n \in 1..m |-> IF q[n].id \in {id} THEN <<q[n]>> ELSE << >>]
           First(k) == {n \in 1..k : q[n].id = id}
           c == [k \in 0..m |-> Cardinality(First(k))]
<1>1. m \in Nat /\ DOMAIN q = 1..m /\ \A n \in 1..m : q[n] \in Metrics
  OBVIOUS
<1>2. Only(q, {id}) = FlattenSeq(parts)
  BY <1>1 DEF Only
<1>3. ASSUME NEW n \in 1..m
      PROVE  parts[n] \in Seq(Metrics) /\ Len(parts[n]) = IF q[n].id = id THEN 1 ELSE 0
  <2>1. CASE q[n].id = id
    BY <1>1, <2>1
  <2>2. CASE q[n].id # id
    BY <1>1, <2>2
  <2> QED BY <2>1, <2>2
<1>4. parts \in Seq(Seq(Metrics)) /\ Len(parts) = m
  <2>1. parts \in [1..m -> Seq(Metrics)]
    BY <1>3
  <2> HIDE DEF parts
  <2> QED BY <1>1, <2>1, FcnIsSeq
<1>5. ASSUME NEW k \in 0..m PROVE IsFiniteSet(First(k)) /\ Cardinality(First(k)) \in Nat
  <2>1. IsFiniteSet(1..k)
    BY <1>1, FS_Interval
  <2>2. First(k) \in SUBSET (1..k)
    OBVIOUS
  <2>3. IsFiniteSet(First(k))
    <3> HIDE DEF First
    <3> QED BY <2>1, <2>2, FS_Subset
  <2> HIDE DEF First
  <2> QED BY <2>3, FS_CardinalityType
<1>6. ASSUME NEW k \in 1..m PROVE c[k - 1] + Len(parts[k]) <= c[k]
  <2>1. k \in 0..m /\ k - 1 \in 0..m /\ 1..k = (1..(k - 1)) \cup {k} /\ k \notin 1..(k - 1)
    BY <1>1
  <2>2. c[k] = Cardinality(First(k)) /\ c[k - 1] = Cardinality(First(k - 1))
    BY <2>1
  <2>3. CASE q[k].id = id
    <3>1. First(k) = First(k - 1) \cup {k} /\ k \notin First(k - 1)
      BY <2>1, <2>3
    <3>2. Cardinality(First(k)) = Cardinality(First(k - 1)) + 1
      <4>1. IsFiniteSet(First(k - 1))
        BY <1>5, <2>1
      <4> HIDE DEF First
      <4> QED BY <3>1, <4>1, FS_AddElement
    <3>3. Len(parts[k]) = 1
      BY <1>3, <2>3
    <3>4. Cardinality(First(k - 1)) \in Nat
      BY <1>5, <2>1
    <3> HIDE DEF First, c, parts
    <3> QED BY <2>2, <3>2, <3>3, <3>4
  <2>4. CASE q[k].id # id
    <3>1. First(k) = First(k - 1)
      BY <2>1, <2>4
    <3>2. Len(parts[k]) = 0
      BY <1>3, <2>4
    <3>3. Cardinality(First(k - 1)) \in Nat
      BY <1>5, <2>1
    <3> HIDE DEF First, c, parts
    <3> QED BY <2>2, <3>1, <3>2, <3>3
  <2> QED BY <2>3, <2>4
<1>7. c \in [0..m -> Nat]
  BY <1>5
<1>8. c[m] = Hits(q, id)
  BY <1>1 DEF Hits, Places
<1> HIDE DEF parts, c, m
<1> QED BY <1>2, <1>4, <1>6, <1>7, <1>8, FlattenLen

(* No metric of a name, and at most one.                                   *)
LEMMA NoHit ==
  ASSUME NEW S, NEW q \in Seq(S), NEW id
  PROVE  Hits(q, id) \in Nat /\ (Hits(q, id) = 0 <=> \A x \in Elems(q) : x.id # id)
<1>1. IsFiniteSet(1..Len(q))
  BY FS_Interval
<1>2. Places(q, id) \in SUBSET (1..Len(q))
  BY DEF Places
<1>3. IsFiniteSet(Places(q, id))
  BY <1>1, <1>2, FS_Subset
<1>4. Hits(q, id) \in Nat /\ (Hits(q, id) = 0 <=> Places(q, id) = {})
  BY <1>3, FS_CardinalityType, FS_EmptySet DEF Hits
<1>5. Places(q, id) = {} <=> \A x \in Elems(q) : x.id # id
  BY DEF Places, Elems
<1> QED BY <1>4, <1>5

(* One place, one hit.                                                     *)
LEMMA OneHit ==
  ASSUME NEW S, NEW q \in Seq(S), NEW id,
         \A i, j \in 1..Len(q) : q[i].id = id /\ q[j].id = id => i = j
  PROVE  Hits(q, id) <= 1
<1>1. CASE Places(q, id) = {}
  <2>1. Hits(q, id) = 0
    BY <1>1, FS_EmptySet DEF Hits
  <2> QED BY <2>1
<1>2. CASE Places(q, id) # {}
  <2>1. PICK n : n \in Places(q, id)
    BY <1>2
  <2>2. Places(q, id) = {n}
    BY <2>1 DEF Places
  <2>3. Hits(q, id) = 1
    BY <2>2, FS_Singleton DEF Hits
  <2> QED BY <2>3
<1> QED BY <1>1, <1>2

(* Only one of the parts has a metric of the name.                         *)
LEMMA OneHitFlatten ==
  ASSUME NEW S, NEW ss \in Seq(Seq(S)), NEW id,
         \A k \in 1..Len(ss) : Hits(ss[k], id) <= 1,
         \A j, k \in 1..Len(ss) : Hits(ss[j], id) # 0 /\ Hits(ss[k], id) # 0 => j = k
  PROVE  Hits(FlattenSeq(ss), id) <= 1
<1> DEFINE m == Len(ss)
           Hit(k) == \E j \in 1..k : Hits(ss[j], id) # 0
           c == [k \in 0..m |-> IF Hit(k) THEN 1 ELSE 0]
<1>1. m \in Nat /\ c \in [0..m -> Nat]
  OBVIOUS
<1>2. ASSUME NEW k \in 1..m PROVE c[k - 1] + Hits(ss[k], id) <= c[k]
  <2>1. k - 1 \in 0..m /\ k \in 0..m /\ 1..k = (1..(k - 1)) \cup {k} /\ k \notin 1..(k - 1)
          /\ 1..k \subseteq 1..m
    BY <1>1
  <2>2. Hits(ss[k], id) \in Nat /\ Hits(ss[k], id) <= 1
    <3>1. ss[k] \in Seq(S)
      OBVIOUS
    <3> QED BY <3>1, NoHit
  <2>3. CASE Hits(ss[k], id) = 0
    <3>1. Hit(k) <=> Hit(k - 1)
      BY <2>1, <2>3
    <3>2. c[k] = c[k - 1] /\ c[k] \in Nat
      <4> HIDE DEF Hit, m
      <4> QED BY <2>1, <3>1
    <3> HIDE DEF c, m
    <3> QED BY <2>3, <3>2
  <2>4. CASE Hits(ss[k], id) # 0
    <3>1. Hit(k) /\ ~Hit(k - 1)
      BY <2>1, <2>4
    <3>2. c[k] = 1 /\ c[k - 1] = 0
      <4> HIDE DEF Hit, m
      <4> QED BY <2>1, <3>1
    <3> HIDE DEF c, m
    <3> QED BY <2>2, <3>2
  <2> QED BY <2>3, <2>4
<1>3. c[m] <= 1 /\ c[m] \in Nat
  <2>1. m \in 0..m
    BY <1>1
  <2> HIDE DEF Hit, m
  <2> QED BY <2>1
<1>4. Hits(FlattenSeq(ss), id) <= c[m]
  <2> HIDE DEF c
  <2> QED BY <1>1, <1>2, HitsFlatten
<1>5. Hits(FlattenSeq(ss), id) \in Nat
  <2>1. FlattenSeq(ss) \in Seq(S)
    BY FlattenElems
  <2> QED BY <2>1, NoHit
<1> DEFINE h == Hits(FlattenSeq(ss), id)
           b == c[m]
<1>6. h <= b /\ b <= 1 /\ h \in Nat /\ b \in Nat
  BY <1>3, <1>4, <1>5
<1> HIDE DEF h, b
<1>7. h <= 1
  BY <1>6
<1> QED BY <1>7 DEF h

(* Each of the parts has one at most.                                      *)
LEMMA OneHitEach ==
  ASSUME NEW S, NEW ss \in Seq(Seq(S)), NEW id, \A k \in 1..Len(ss) : Hits(ss[k], id) <= 1
  PROVE  Hits(FlattenSeq(ss), id) <= Len(ss)
<1> DEFINE m == Len(ss)
           c == [k \in 0..m |-> k]
<1>1. m \in Nat /\ c \in [0..m -> Nat] /\ c[m] = m
  OBVIOUS
<1>2. ASSUME NEW k \in 1..m PROVE c[k - 1] + Hits(ss[k], id) <= c[k]
  <2>1. c[k - 1] = k - 1 /\ c[k] = k
    BY <1>1
  <2>2. ss[k] \in Seq(S)
    OBVIOUS
  <2>3. Hits(ss[k], id) \in Nat /\ Hits(ss[k], id) <= 1
    BY <2>2, NoHit
  <2> HIDE DEF c
  <2> QED BY <1>1, <2>1, <2>3
<1> HIDE DEF c
<1> QED BY <1>1, <1>2, HitsFlatten

-----------------------------------------------------------------------------
(* What the collectors contribute.                                         *)
IsAnswer(a) == a.reading \in Int /\ a.nvml \subseteq NvmlAnswers

Named(q, id) == \E x \in Elems(q) : x.id = id

(* What Windows answers.                                                   *)
LEMMA AnswerType ==
  ASSUME NEW v \in Readings, NEW a \in {Good(v)} \cup OneFails(v)
  PROVE  IsAnswer(a)
<1>1. v \in Int
  BY ReadingsAssumption
<1>2. CASE a = Good(v)
  BY <1>1, <1>2 DEF Good, IsAnswer
<1>3. CASE a \in OneFails(v)
  BY <1>1, <1>3 DEF OneFails, Good, IsAnswer
<1> QED BY <1>2, <1>3

(* A sequence of one metric, or of none.                                   *)
LEMMA Single ==
  ASSUME NEW x \in Metrics
  PROVE  /\ <<x>> \in Seq(Metrics) /\ Elems(<<x>>) = {x}
         /\ << >> \in Seq(Metrics) /\ Elems(<< >>) = {}
         /\ \A id : Hits(<<x>>, id) <= 1 /\ Hits(<< >>, id) <= 1
<1>1. /\ <<x>> \in Seq(Metrics) /\ Elems(<<x>>) = {x}
      /\ << >> \in Seq(Metrics) /\ Elems(<< >>) = {}
  BY DEF Elems
<1>2. ASSUME NEW id PROVE Hits(<<x>>, id) <= 1
  <2>1. \A i, j \in 1..Len(<<x>>) : i = j
    OBVIOUS
  <2> QED BY <1>1, <2>1, OneHit
<1>3. ASSUME NEW id PROVE Hits(<< >>, id) <= 1
  <2>1. \A i, j \in 1..Len(<< >>) : i = j
    OBVIOUS
  <2> QED BY <1>1, <2>1, OneHit
<1> QED BY <1>1, <1>2, <1>3

(* The sums of PDH: one for each spec with a valid counter.                *)
LEMMA PdhSumsKeep ==
  ASSUME NEW a, IsAnswer(a)
  PROVE  /\ PdhSums(a) \in Seq(Metrics)
         /\ \A id : Named(PdhSums(a), id) <=> \E i \in DOMAIN Specs : Specs[i] = id /\ Valid(a, i) # {}
         /\ \A id : Hits(PdhSums(a), id) <= 1
<1> DEFINE m == Len(Specs)
           x(i) == Metric(Specs[i], a.reading * Cardinality(Valid(a, i)))
           parts == [i \in 1..m |-> IF Valid(a, i) = {} THEN << >> ELSE <<x(i)>>]
<1>1. m \in Nat /\ DOMAIN Specs = 1..m /\ \A i \in 1..m : Specs[i] \in Names
  BY SpecsAssumption DEF Names
<1>2. ASSUME NEW i \in 1..m PROVE x(i) \in Metrics /\ x(i).id = Specs[i]
  <2>1. Instances[i] \in Nat
    BY <1>1, SpecsAssumption
  <2>2. IsFiniteSet(1..Instances[i])
    BY <2>1, FS_Interval
  <2>3. Valid(a, i) \in SUBSET (1..Instances[i])
    BY DEF Valid
  <2>4. Cardinality(Valid(a, i)) \in Nat
    BY <2>2, <2>3, FS_Subset, FS_CardinalityType
  <2>5. a.reading \in Int
    BY DEF IsAnswer
  <2>6. a.reading * Cardinality(Valid(a, i)) \in Int
    BY <2>4, <2>5
  <2> QED BY <1>1, <2>6 DEF Metric, Metrics
<1> HIDE DEF x
<1>3. ASSUME NEW i \in 1..m
      PROVE  /\ parts[i] \in Seq(Metrics)
             /\ Elems(parts[i]) = IF Valid(a, i) = {} THEN {} ELSE {x(i)}
             /\ \A id : Hits(parts[i], id) <= 1
  <2>1. x(i) \in Metrics
    BY <1>2
  <2>2. CASE Valid(a, i) = {}
    <3>1. parts[i] = << >>
      BY <2>2
    <3> HIDE DEF parts
    <3> QED BY <2>1, <2>2, <3>1, Single
  <2>3. CASE Valid(a, i) # {}
    <3>1. parts[i] = <<x(i)>>
      BY <2>3
    <3> HIDE DEF parts
    <3> QED BY <2>1, <2>3, <3>1, Single
  <2> QED BY <2>2, <2>3
<1>4. PdhSums(a) = FlattenSeq(parts)
  BY <1>1 DEF PdhSums, x
<1>5. parts \in Seq(Seq(Metrics)) /\ Len(parts) = m
  <2>1. parts \in [1..m -> Seq(Metrics)]
    BY <1>3
  <2> HIDE DEF parts
  <2> QED BY <1>1, <2>1, FcnIsSeq
<1> HIDE DEF parts
<1>6. FlattenSeq(parts) \in Seq(Metrics)
  BY <1>5, FlattenElems
<1>7. ASSUME NEW id
      PROVE  Named(FlattenSeq(parts), id) <=> \E i \in 1..m : Specs[i] = id /\ Valid(a, i) # {}
  <2>1. \A y : y \in Elems(FlattenSeq(parts)) <=> \E i \in 1..m : y \in Elems(parts[i])
    BY <1>5, FlattenElems
  <2>2. ASSUME NEW i \in 1..m
        PROVE  (\E y \in Elems(parts[i]) : y.id = id) <=> Specs[i] = id /\ Valid(a, i) # {}
    BY <1>2, <1>3
  <2> QED BY <2>1, <2>2 DEF Named
<1>8. ASSUME NEW id PROVE Hits(FlattenSeq(parts), id) <= 1
  <2>1. ASSUME NEW i \in 1..m, Hits(parts[i], id) # 0 PROVE Specs[i] = id
    <3>1. \E y \in Elems(parts[i]) : y.id = id
      BY <1>3, <2>1, NoHit
    <3> QED BY <1>2, <1>3, <3>1
  <2>2. \A i, j \in 1..m : Hits(parts[i], id) # 0 /\ Hits(parts[j], id) # 0 => i = j
    BY <1>1, <2>1, SpecsAssumption
  <2>3. \A i \in 1..m : Hits(parts[i], id) <= 1
    BY <1>3
  <2> QED BY <1>5, <2>2, <2>3, OneHitFlatten
<1> QED BY <1>1, <1>4, <1>6, <1>7, <1>8

(* The names of a concatenation.                                           *)
LEMMA NamedConcat ==
  ASSUME NEW p \in Seq(Metrics), NEW q \in Seq(Metrics), NEW id
  PROVE  Named(p \o q, id) <=> Named(p, id) \/ Named(q, id)
  BY ElemsConcat DEF Named

(* PDH with the used memory: no name twice, and never that of WMI.         *)
LEMMA PdhCollectKeeps ==
  ASSUME NEW a, IsAnswer(a)
  PROVE  /\ PdhCollect(a) \in Seq(Metrics)
         /\ \A i \in DOMAIN Specs : Valid(a, i) # {} => Named(PdhCollect(a), Specs[i])
         /\ Named(PdhSums(a), "mem.available_mb") /\ a.memory => Named(PdhCollect(a), "mem.used_mb")
         /\ ~Named(PdhCollect(a), "cpu.temp_c")
         /\ \A id : Hits(PdhCollect(a), id) <= 1
<1> DEFINE sums == PdhSums(a)
           available == Only(sums, {"mem.available_mb"})
           used == Metric("mem.used_mb", MemTotal - available[1].value)
           total == Metric("mem.total_mb", MemTotal)
           more == IF available # << >> /\ a.memory THEN <<used, total>> ELSE << >>
<1>1. /\ sums \in Seq(Metrics)
      /\ \A id : Named(sums, id) <=> \E i \in DOMAIN Specs : Specs[i] = id /\ Valid(a, i) # {}
      /\ \A id : Hits(sums, id) <= 1
  BY PdhSumsKeep
<1>2. PdhCollect(a) = sums \o more
  BY DEF PdhCollect
<1> HIDE DEF sums
<1>3. /\ available \in Seq(Metrics)
      /\ \A x : x \in Elems(available) <=> x \in Elems(sums) /\ x.id \in {"mem.available_mb"}
  BY <1>1, OnlyKeeps
<1>4. Named(sums, "mem.available_mb") => available # << >>
  <2> HIDE DEF available
  <2> QED BY <1>3 DEF Named, Elems
<1>5. /\ more \in Seq(Metrics)
      /\ \A id : Named(more, id) => id \in {"mem.used_mb", "mem.total_mb"}
      /\ \A id : Hits(more, id) <= 1
      /\ available # << >> /\ a.memory => Named(more, "mem.used_mb")
  <2>1. CASE available # << >> /\ a.memory
    <3>1. available[1] \in Metrics
      <4> HIDE DEF available
      <4> QED BY <1>3, <2>1
    <3>2. available[1].value \in Int
      <4> HIDE DEF available
      <4> QED BY <3>1 DEF Metrics
    <3>3. MemTotal - available[1].value \in Int /\ MemTotal \in Int
      <4> HIDE DEF available
      <4> QED BY <3>2, ReadingsAssumption
    <3>4. used \in Metrics /\ total \in Metrics /\ used.id = "mem.used_mb" /\ total.id = "mem.total_mb"
      <4> DEFINE v == MemTotal - available[1].value
      <4> HIDE DEF v, available
      <4>1. v \in Int /\ MemTotal \in Int
        BY <3>3 DEF v
      <4>2. /\ Metric("mem.used_mb", v) \in Metrics /\ Metric("mem.used_mb", v).id = "mem.used_mb"
            /\ Metric("mem.total_mb", MemTotal) \in Metrics
            /\ Metric("mem.total_mb", MemTotal).id = "mem.total_mb"
        <5>1. "mem.used_mb" \in Names /\ "mem.total_mb" \in Names
          BY DEF Names
        <5> QED BY <4>1, <5>1 DEF Metrics, Metric
      <4> QED BY <4>2 DEF v
    <3>5. more = <<used, total>>
      BY <2>1
    <3> HIDE DEF used, total, more, available
    <3>6. more \in Seq(Metrics) /\ Len(more) = 2 /\ more[1] = used /\ more[2] = total
            /\ Elems(more) = {used, total}
      BY <3>4, <3>5 DEF Elems
    <3>7. ASSUME NEW id PROVE Hits(more, id) <= 1
      <4>1. \A i, j \in 1..Len(more) : more[i].id = id /\ more[j].id = id => i = j
        <5>1. 1..Len(more) = {1, 2}
          BY <3>6
        <5> QED BY <3>4, <3>6, <5>1
      <4> QED BY <3>6, <4>1, OneHit
    <3> QED BY <3>4, <3>6, <3>7 DEF Named
  <2>2. CASE ~(available # << >> /\ a.memory)
    <3>1. more = << >>
      BY <2>2
    <3> HIDE DEF more, available
    <3>2. more \in Seq(Metrics) /\ Elems(more) = {}
      BY <3>1 DEF Elems
    <3>3. ASSUME NEW id PROVE Hits(more, id) <= 1
      <4>1. Hits(more, id) = 0
        BY <3>2, NoHit
      <4> QED BY <4>1
    <3> QED BY <2>2, <3>2, <3>3 DEF Named
  <2> QED BY <2>1, <2>2
<1> HIDE DEF more, available
<1>6. sums \o more \in Seq(Metrics) /\ \A id : Named(sums \o more, id) <=> Named(sums, id) \/ Named(more, id)
  BY <1>1, <1>5, NamedConcat, ElemsConcat
<1>7. ASSUME NEW id PROVE Hits(sums \o more, id) <= 1
  <2>1. Hits(sums, id) \in Nat /\ Hits(more, id) \in Nat
          /\ Hits(sums \o more, id) = Hits(sums, id) + Hits(more, id)
    BY <1>1, <1>5, HitsConcat
  <2>2. Hits(sums, id) = 0 \/ Hits(more, id) = 0
    <3>1. Named(more, id) => ~Named(sums, id)
      BY <1>1, <1>5, SpecsAssumption
    <3>2. (Hits(sums, id) = 0 <=> ~Named(sums, id)) /\ (Hits(more, id) = 0 <=> ~Named(more, id))
      BY <1>1, <1>5, NoHit DEF Named
    <3> QED BY <3>1, <3>2
  <2> QED BY <1>1, <1>5, <2>1, <2>2
<1>8. ~Named(sums \o more, "cpu.temp_c")
  BY <1>1, <1>5, <1>6, SpecsAssumption
<1>9. \A i \in DOMAIN Specs : Valid(a, i) # {} => Named(sums \o more, Specs[i])
  BY <1>1, <1>6
<1>10. Named(sums, "mem.available_mb") /\ a.memory => Named(sums \o more, "mem.used_mb")
  BY <1>4, <1>5, <1>6
<1> QED BY <1>2, <1>6, <1>7, <1>8, <1>9, <1>10 DEF sums

(* The names that NVML reports are different, and none is of the CPU or    *)
(* the memory.                                                             *)
LEMMA NvmlNames ==
  /\ \A c \in DOMAIN NvmlIds : /\ NvmlIds[c] \in Seq(Names)
                               /\ \A i \in DOMAIN NvmlIds[c] :
                                    NvmlIds[c][i] \notin {"cpu.usage_pct", "mem.used_mb", "cpu.temp_c"}
  /\ \A c, e \in DOMAIN NvmlIds : \A i \in DOMAIN NvmlIds[c], j \in DOMAIN NvmlIds[e] :
       NvmlIds[c][i] = NvmlIds[e][j] => c = e /\ i = j
<1> DEFINE calls == {"utilization", "memory", "temperature", "power", "clock"}
<1>1. /\ DOMAIN NvmlIds = calls
      /\ NvmlIds["utilization"] = <<"gpu.util_pct">>
      /\ NvmlIds["memory"] = <<"gpu.mem_used_mb", "gpu.mem_total_mb">>
      /\ NvmlIds["temperature"] = <<"gpu.temp_c">>
      /\ NvmlIds["power"] = <<"gpu.power_w">>
      /\ NvmlIds["clock"] = <<"gpu.clock_mhz">>
  BY DEF NvmlIds
<1>2. /\ DOMAIN <<"gpu.util_pct">> = {1} /\ DOMAIN <<"gpu.mem_used_mb", "gpu.mem_total_mb">> = {1, 2}
      /\ DOMAIN <<"gpu.temp_c">> = {1} /\ DOMAIN <<"gpu.power_w">> = {1}
      /\ DOMAIN <<"gpu.clock_mhz">> = {1}
  OBVIOUS
<1>3. \A c \in calls : NvmlIds[c] \in Seq(Names)
  <2>1. {"gpu.util_pct", "gpu.mem_used_mb", "gpu.mem_total_mb", "gpu.temp_c", "gpu.power_w",
         "gpu.clock_mhz"} \subseteq Names
    BY DEF Names
  <2>2. \A x, y \in Names : <<x>> \in Seq(Names) /\ <<x, y>> \in Seq(Names)
    OBVIOUS
  <2> QED BY <1>1, <2>1, <2>2
<1>4. \A c \in calls : \A i \in DOMAIN NvmlIds[c] :
        NvmlIds[c][i] \notin {"cpu.usage_pct", "mem.used_mb", "cpu.temp_c"}
  <2> SUFFICES ASSUME NEW c \in calls, NEW i \in DOMAIN NvmlIds[c]
               PROVE  NvmlIds[c][i] \notin {"cpu.usage_pct", "mem.used_mb", "cpu.temp_c"}
    OBVIOUS
  <2>1. CASE c = "memory"
    BY <1>1, <1>2, <2>1
  <2>2. CASE c # "memory"
    BY <1>1, <1>2, <2>2
  <2> QED BY <2>1, <2>2
<1>5. \A c, e \in calls : \A i \in DOMAIN NvmlIds[c], j \in DOMAIN NvmlIds[e] :
        NvmlIds[c][i] = NvmlIds[e][j] => c = e /\ i = j
  BY <1>1, <1>2
<1> QED BY <1>1, <1>3, <1>4, <1>5

(* One call of NVML.                                                       *)
LEMMA NvmlCallKeeps ==
  ASSUME NEW a, IsAnswer(a), NEW d, NEW c \in DOMAIN NvmlIds
  PROVE  /\ NvmlCall(a, d, c) \in Seq(Metrics)
         /\ \A id : Named(NvmlCall(a, d, c), id)
                      <=> <<d, c>> \in a.nvml /\ \E n \in DOMAIN NvmlIds[c] : NvmlIds[c][n] = id
         /\ \A id : Hits(NvmlCall(a, d, c), id) <= 1
<1> DEFINE ids == NvmlIds[c]
           m == Len(ids)
           q == [n \in 1..m |-> Metric(ids[n], a.reading)]
<1>1. m \in Nat /\ DOMAIN ids = 1..m /\ \A n \in 1..m : ids[n] \in Names
  BY NvmlNames
<1>2. CASE <<d, c>> \in a.nvml
  <2>1. NvmlCall(a, d, c) = q
    BY <1>1, <1>2 DEF NvmlCall
  <2>2. ASSUME NEW n \in 1..m PROVE q[n] \in Metrics /\ q[n].id = ids[n]
    <3>1. ids[n] \in Names /\ a.reading \in Int
      BY <1>1 DEF IsAnswer
    <3>2. q[n] = Metric(ids[n], a.reading)
      OBVIOUS
    <3> HIDE DEF q, ids, m
    <3> QED BY <3>1, <3>2 DEF Metric, Metrics
  <2>3. q \in Seq(Metrics) /\ Len(q) = m
    <3>1. q \in [1..m -> Metrics]
      BY <2>2
    <3> HIDE DEF q, m
    <3> QED BY <1>1, <3>1, FcnIsSeq
  <2> HIDE DEF q
  <2>4. \A id : Named(q, id) <=> \E n \in 1..m : ids[n] = id
    BY <2>2, <2>3 DEF Named, Elems
  <2>5. ASSUME NEW id PROVE Hits(q, id) <= 1
    <3>1. \A i, j \in 1..Len(q) : q[i].id = id /\ q[j].id = id => i = j
      BY <1>1, <2>2, <2>3, NvmlNames
    <3> QED BY <2>3, <3>1, OneHit
  <2> QED BY <1>1, <1>2, <2>1, <2>3, <2>4, <2>5
<1>3. CASE <<d, c>> \notin a.nvml
  <2>1. NvmlCall(a, d, c) = << >>
    BY <1>3 DEF NvmlCall
  <2>2. << >> \in Seq(Metrics) /\ Elems(<< >>) = {}
    BY DEF Elems
  <2>3. \A id : Hits(<< >>, id) = 0
    BY <2>2, NoHit
  <2>4. \A id : Hits(<< >>, id) <= 1
    BY <2>3
  <2> QED BY <1>3, <2>1, <2>2, <2>4 DEF Named
<1> QED BY <1>2, <1>3

(* The call reports a metric of that name.                                 *)
Reports(c, id) == \E k \in DOMAIN NvmlIds[c] : NvmlIds[c][k] = id

(* No two calls report the same.                                           *)
LEMMA ReportsApart ==
  ASSUME NEW c \in DOMAIN NvmlIds, NEW id, Reports(c, id)
  PROVE  /\ id \notin {"cpu.usage_pct", "mem.used_mb", "cpu.temp_c"}
         /\ \A e \in DOMAIN NvmlIds : Reports(e, id) => c = e
  BY NvmlNames DEF Reports

(* The n-th call.                                                          *)
Call(a, d, n) == NvmlCall(a, d, NvmlCalls[n])

LEMMA CallKeeps ==
  ASSUME NEW a, IsAnswer(a), NEW d, NEW n \in DOMAIN NvmlCalls, NEW id
  PROVE  /\ Call(a, d, n) \in Seq(Metrics)
         /\ Named(Call(a, d, n), id) <=> <<d, NvmlCalls[n]>> \in a.nvml /\ Reports(NvmlCalls[n], id)
         /\ Hits(Call(a, d, n), id) <= 1
<1> DEFINE c == NvmlCalls[n]
<1>1. c \in DOMAIN NvmlIds
  BY NvmlCallsAssumption
<1>2. Call(a, d, n) = NvmlCall(a, d, c)
  BY DEF Call
<1> HIDE DEF c
<1>3. /\ NvmlCall(a, d, c) \in Seq(Metrics)
      /\ Named(NvmlCall(a, d, c), id) <=> <<d, c>> \in a.nvml /\ Reports(c, id)
      /\ Hits(NvmlCall(a, d, c), id) <= 1
  BY <1>1, NvmlCallKeeps DEF Reports
<1> QED BY <1>2, <1>3 DEF c

(* One device: no name twice.                                              *)
LEMMA NvmlDeviceKeeps ==
  ASSUME NEW a, IsAnswer(a), NEW d
  PROVE  /\ NvmlDevice(a, d) \in Seq(Metrics)
         /\ \A id : Named(NvmlDevice(a, d), id)
                      <=> \E n \in DOMAIN NvmlCalls : Named(Call(a, d, n), id)
         /\ \A id : Hits(NvmlDevice(a, d), id) <= 1
<1> DEFINE m == Len(NvmlCalls)
           parts == [n \in 1..m |-> Call(a, d, n)]
<1>1. m \in Nat /\ DOMAIN NvmlCalls = 1..m /\ \A n \in 1..m : NvmlCalls[n] \in DOMAIN NvmlIds
  BY NvmlCallsAssumption
<1>2. NvmlDevice(a, d) = FlattenSeq(parts)
  BY <1>1 DEF NvmlDevice, Call
<1>3. ASSUME NEW n \in 1..m, NEW id
      PROVE  parts[n] = Call(a, d, n) /\ parts[n] \in Seq(Metrics) /\ Hits(parts[n], id) <= 1
  <2>1. n \in DOMAIN NvmlCalls
    BY <1>1
  <2>2. parts[n] = Call(a, d, n)
    OBVIOUS
  <2>3. Call(a, d, n) \in Seq(Metrics) /\ Hits(Call(a, d, n), id) <= 1
    BY <2>1, CallKeeps
  <2> HIDE DEF parts
  <2> QED BY <2>2, <2>3
<1>4. parts \in Seq(Seq(Metrics)) /\ Len(parts) = m
  <2>1. parts \in [1..m -> Seq(Metrics)]
    BY <1>3
  <2> HIDE DEF parts, m
  <2> QED BY <1>1, <2>1, FcnIsSeq
<1> HIDE DEF parts
<1>5. /\ FlattenSeq(parts) \in Seq(Metrics)
      /\ \A x : x \in Elems(FlattenSeq(parts)) <=> \E n \in 1..m : x \in Elems(parts[n])
  BY <1>4, FlattenElems
<1>6. \A id : Named(FlattenSeq(parts), id) <=> \E n \in 1..m : Named(parts[n], id)
  BY <1>5 DEF Named
<1>7. ASSUME NEW id PROVE Hits(FlattenSeq(parts), id) <= 1
  <2>1. ASSUME NEW i \in 1..m, Hits(parts[i], id) # 0
        PROVE  Reports(NvmlCalls[i], id)
    <3>1. Named(parts[i], id)
      BY <1>3, <2>1, NoHit DEF Named
    <3>2. i \in DOMAIN NvmlCalls /\ parts[i] = Call(a, d, i)
      BY <1>1, <1>3
    <3> QED BY <3>1, <3>2, CallKeeps
  <2>2. ASSUME NEW i \in 1..m, NEW j \in 1..m, Hits(parts[i], id) # 0, Hits(parts[j], id) # 0
        PROVE  i = j
    <3>1. Reports(NvmlCalls[i], id) /\ Reports(NvmlCalls[j], id)
      BY <2>1, <2>2
    <3>2. NvmlCalls[i] = NvmlCalls[j]
      BY <1>1, <3>1, ReportsApart
    <3> QED BY <1>1, <3>2, NvmlCallsAssumption
  <2>3. \A i \in 1..m : Hits(parts[i], id) <= 1
    BY <1>3
  <2> QED BY <1>4, <2>2, <2>3, OneHitFlatten
<1>8. \A n \in 1..m : parts[n] = Call(a, d, n)
  BY <1>3
<1> QED BY <1>1, <1>2, <1>5, <1>6, <1>7, <1>8

(* All devices: a name once for each.                                      *)
LEMMA NvmlCollectKeeps ==
  ASSUME NEW a, IsAnswer(a)
  PROVE  /\ NvmlCollect(a) \in Seq(Metrics)
         /\ nvmlReady => \A d \in 1..Devices : \A id :
              Named(NvmlDevice(a, d), id) => Named(NvmlCollect(a), id)
         /\ \A id : Hits(NvmlCollect(a), id) <= Devices
         /\ \A id \in {"cpu.usage_pct", "mem.used_mb", "cpu.temp_c"} : ~Named(NvmlCollect(a), id)
<1> DEFINE parts == [d \in 1..Devices |-> NvmlDevice(a, d)]
<1>1. ASSUME NEW d \in 1..Devices
      PROVE  parts[d] = NvmlDevice(a, d) /\ parts[d] \in Seq(Metrics) /\ \A id : Hits(parts[d], id) <= 1
  <2>1. parts[d] = NvmlDevice(a, d)
    OBVIOUS
  <2> HIDE DEF parts
  <2> QED BY <2>1, NvmlDeviceKeeps
<1>2. parts \in Seq(Seq(Metrics)) /\ Len(parts) = Devices
  <2>1. parts \in [1..Devices -> Seq(Metrics)]
    BY <1>1
  <2> HIDE DEF parts
  <2> QED BY <2>1, DevicesAssumption, FcnIsSeq
<1>3. CASE nvmlReady
  <2>1. NvmlCollect(a) = FlattenSeq(parts)
    BY <1>3 DEF NvmlCollect
  <2> HIDE DEF parts
  <2>2. /\ FlattenSeq(parts) \in Seq(Metrics)
        /\ \A x : x \in Elems(FlattenSeq(parts)) <=> \E d \in 1..Devices : x \in Elems(parts[d])
    BY <1>2, FlattenElems
  <2>3. \A id : Named(FlattenSeq(parts), id) <=> \E d \in 1..Devices : Named(NvmlDevice(a, d), id)
    BY <1>1, <2>2 DEF Named
  <2>4. \A id : Hits(FlattenSeq(parts), id) <= Devices
    BY <1>1, <1>2, OneHitEach
  <2>5. ASSUME NEW id \in {"cpu.usage_pct", "mem.used_mb", "cpu.temp_c"}, NEW d \in 1..Devices
        PROVE  ~Named(NvmlDevice(a, d), id)
    <3>1. ASSUME NEW n \in DOMAIN NvmlCalls PROVE ~Named(Call(a, d, n), id)
      <4>1. NvmlCalls[n] \in DOMAIN NvmlIds
        BY NvmlCallsAssumption
      <4>2. ~Reports(NvmlCalls[n], id)
        BY <4>1, ReportsApart
      <4> QED BY <4>2, CallKeeps
    <3> QED BY <3>1, NvmlDeviceKeeps
  <2> QED BY <2>1, <2>2, <2>3, <2>4, <2>5
<1>4. CASE ~nvmlReady
  <2>1. NvmlCollect(a) = << >>
    BY <1>4 DEF NvmlCollect
  <2>2. << >> \in Seq(Metrics) /\ Elems(<< >>) = {}
    BY DEF Elems
  <2>3. \A id : Hits(<< >>, id) = 0
    BY <2>2, NoHit
  <2>4. \A id : Hits(<< >>, id) <= Devices
    BY <2>3, DevicesAssumption
  <2> QED BY <1>4, <2>1, <2>2, <2>4 DEF Named
<1> QED BY <1>3, <1>4

(* WMI: the temperature of the CPU, or nothing.                            *)
LEMMA WmiCollectKeeps ==
  ASSUME NEW a, IsAnswer(a)
  PROVE  /\ WmiCollect(a) \in Seq(Metrics)
         /\ \A id : Named(WmiCollect(a), id) <=> id = "cpu.temp_c" /\ ~wmiDisabled /\ a.wmi = "ok"
         /\ \A id : Hits(WmiCollect(a), id) <= 1
<1> DEFINE x == Metric("cpu.temp_c", a.reading)
<1>1. x \in Metrics /\ x.id = "cpu.temp_c"
  <2>1. "cpu.temp_c" \in Names
    BY DEF Names
  <2> QED BY <2>1 DEF Metric, Metrics, IsAnswer
<1>2. WmiCollect(a) = IF ~wmiDisabled /\ a.wmi = "ok" THEN <<x>> ELSE << >>
  BY DEF WmiCollect
<1> HIDE DEF x
<1>3. CASE ~wmiDisabled /\ a.wmi = "ok"
  <2>1. WmiCollect(a) = <<x>>
    BY <1>2, <1>3
  <2> QED BY <1>1, <1>3, <2>1, Single DEF Named
<1>4. CASE ~(~wmiDisabled /\ a.wmi = "ok")
  <2>1. WmiCollect(a) = << >>
    BY <1>2, <1>4
  <2> QED BY <1>1, <1>4, <2>1, Single DEF Named
<1> QED BY <1>3, <1>4

-----------------------------------------------------------------------------
(* A whole sample.                                                         *)

(* At most Most(s) metrics of a sample are called s.                       *)
Most(s) == IF s \in SharedSeries THEN Devices + 1 ELSE 1

Curves == Series \ {"disk.io_bps"}

(* What each collector contributes to a sample, and Loop puts together.    *)
FromPdh(a) == IF a.throws = "pdh" THEN << >> ELSE PdhCollect(a)
FromWmi(a) == IF a.throws = "wmi" THEN << >> ELSE WmiCollect(a)
FromNvml(a) == IF a.throws = "nvml" THEN << >> ELSE NvmlCollect(a)

(* Nothing has no metrics.                                                 *)
LEMMA Nothing ==
  << >> \in Seq(Metrics) /\ \A id : ~Named(<< >>, id) /\ Hits(<< >>, id) = 0
<1>1. << >> \in Seq(Metrics) /\ Elems(<< >>) = {}
  BY DEF Elems
<1> QED BY <1>1, NoHit DEF Named

(* Named and hit are the same.                                             *)
LEMMA NamedHits ==
  ASSUME NEW q \in Seq(Metrics), NEW id
  PROVE  Hits(q, id) \in Nat /\ (Hits(q, id) = 0 <=> ~Named(q, id))
  BY NoHit DEF Named

(* The contributions, one by one.                                          *)
LEMMA Contributions ==
  ASSUME NEW a, IsAnswer(a), NEW id
  PROVE  /\ FromPdh(a) \in Seq(Metrics) /\ FromWmi(a) \in Seq(Metrics) /\ FromNvml(a) \in Seq(Metrics)
         /\ Hits(FromPdh(a), id) <= 1 /\ Hits(FromWmi(a), id) <= 1 /\ Hits(FromNvml(a), id) <= Devices
         /\ id = "cpu.temp_c" => ~Named(FromPdh(a), id)
         /\ id # "cpu.temp_c" => ~Named(FromWmi(a), id)
         /\ id \in {"cpu.usage_pct", "mem.used_mb", "cpu.temp_c"} => ~Named(FromNvml(a), id)
<1>1. FromPdh(a) \in Seq(Metrics) /\ Hits(FromPdh(a), id) <= 1
        /\ (id = "cpu.temp_c" => ~Named(FromPdh(a), id))
  <2>1. CASE a.throws = "pdh"
    <3>1. FromPdh(a) = << >>
      BY <2>1 DEF FromPdh
    <3>2. Hits(<< >>, id) = 0
      BY Nothing
    <3> QED BY <3>1, <3>2, Nothing
  <2>2. CASE a.throws # "pdh"
    <3>1. FromPdh(a) = PdhCollect(a)
      BY <2>2 DEF FromPdh
    <3> QED BY <3>1, PdhCollectKeeps
  <2> QED BY <2>1, <2>2
<1>2. FromWmi(a) \in Seq(Metrics) /\ Hits(FromWmi(a), id) <= 1
        /\ (id # "cpu.temp_c" => ~Named(FromWmi(a), id))
  <2>1. CASE a.throws = "wmi"
    <3>1. FromWmi(a) = << >>
      BY <2>1 DEF FromWmi
    <3>2. Hits(<< >>, id) = 0
      BY Nothing
    <3> QED BY <3>1, <3>2, Nothing
  <2>2. CASE a.throws # "wmi"
    <3>1. FromWmi(a) = WmiCollect(a)
      BY <2>2 DEF FromWmi
    <3> QED BY <3>1, WmiCollectKeeps
  <2> QED BY <2>1, <2>2
<1>3. FromNvml(a) \in Seq(Metrics) /\ Hits(FromNvml(a), id) <= Devices
        /\ (id \in {"cpu.usage_pct", "mem.used_mb", "cpu.temp_c"} => ~Named(FromNvml(a), id))
  <2>1. CASE a.throws = "nvml"
    <3>1. FromNvml(a) = << >>
      BY <2>1 DEF FromNvml
    <3>2. Hits(<< >>, id) = 0
      BY Nothing
    <3> QED BY <3>1, <3>2, Nothing, DevicesAssumption
  <2>2. CASE a.throws # "nvml"
    <3>1. FromNvml(a) = NvmlCollect(a)
      BY <2>2 DEF FromNvml
    <3> QED BY <3>1, NvmlCollectKeeps
  <2> QED BY <2>1, <2>2
<1> QED BY <1>1, <1>2, <1>3

(* All of them in one sample.                                              *)
LEMMA CollectKeeps ==
  ASSUME NEW a, IsAnswer(a)
  PROVE  /\ Collect(a) \in Seq(Metrics)
         /\ \A id : Named(Collect(a), id)
                      <=> Named(FromPdh(a), id) \/ Named(FromWmi(a), id) \/ Named(FromNvml(a), id)
         /\ \A s \in Curves : Hits(Collect(a), s) <= Most(s)
<1> DEFINE p == FromPdh(a)
           w == FromWmi(a)
           n == FromNvml(a)
<1>1. Collect(a) = p \o w \o n
  BY DEF Collect, FromPdh, FromWmi, FromNvml
<1>2. p \in Seq(Metrics) /\ w \in Seq(Metrics) /\ n \in Seq(Metrics)
  BY Contributions
<1>3. ASSUME NEW s \in Curves
      PROVE  /\ Hits(p, s) <= 1 /\ Hits(w, s) <= 1 /\ Hits(n, s) <= Devices
             /\ s = "cpu.temp_c" => Hits(p, s) = 0
             /\ s # "cpu.temp_c" => Hits(w, s) = 0
             /\ s \in {"cpu.usage_pct", "mem.used_mb", "cpu.temp_c"} => Hits(n, s) = 0
  <2>1. /\ Hits(p, s) <= 1 /\ Hits(w, s) <= 1 /\ Hits(n, s) <= Devices
        /\ s = "cpu.temp_c" => ~Named(p, s)
        /\ s # "cpu.temp_c" => ~Named(w, s)
        /\ s \in {"cpu.usage_pct", "mem.used_mb", "cpu.temp_c"} => ~Named(n, s)
    BY Contributions
  <2> HIDE DEF p, w, n
  <2> QED BY <1>2, <2>1, NamedHits
<1> HIDE DEF p, w, n
<1>4. p \o w \in Seq(Metrics) /\ p \o w \o n \in Seq(Metrics)
  BY <1>2
<1>5. \A id : Named(p \o w, id) <=> Named(p, id) \/ Named(w, id)
  BY <1>2, NamedConcat
<1>6. \A id : Named(p \o w \o n, id) <=> Named(p \o w, id) \/ Named(n, id)
  BY <1>2, <1>4, NamedConcat
<1>7. ASSUME NEW s \in Curves PROVE Hits(p \o w \o n, s) <= Most(s)
  <2> DEFINE x == Hits(p, s)
             y == Hits(w, s)
             z == Hits(n, s)
  <2>1. Hits(p \o w, s) = x + y /\ x \in Nat /\ y \in Nat
    BY <1>2, HitsConcat
  <2>2. Hits(p \o w \o n, s) = Hits(p \o w, s) + z /\ z \in Nat
    BY <1>2, <1>4, HitsConcat
  <2>3. Hits(p \o w \o n, s) = x + y + z
    BY <2>1, <2>2
  <2>4. /\ x <= 1 /\ y <= 1 /\ z <= Devices
        /\ s = "cpu.temp_c" => x = 0
        /\ s # "cpu.temp_c" => y = 0
        /\ s \in {"cpu.usage_pct", "mem.used_mb", "cpu.temp_c"} => z = 0
    BY <1>3
  <2>5. Devices \in Nat
    BY DevicesAssumption
  <2> HIDE DEF x, y, z
  <2>6. CASE s \in SharedSeries
    <3>1. Most(s) = Devices + 1 /\ y = 0
      BY <2>4, <2>6 DEF Most, SharedSeries
    <3> QED BY <2>1, <2>2, <2>3, <2>4, <2>5, <3>1
  <2>7. CASE s \notin SharedSeries
    <3>1. s \in {"cpu.usage_pct", "mem.used_mb", "cpu.temp_c"} /\ Most(s) = 1
      BY <2>7 DEF Most, Curves, Series, SharedSeries
    <3>2. z = 0 /\ (x = 0 \/ y = 0)
      BY <2>4, <3>1
    <3> QED BY <2>1, <2>2, <2>3, <2>4, <3>1, <3>2
  <2> QED BY <2>6, <2>7
<1> QED BY <1>1, <1>4, <1>5, <1>6, <1>7 DEF p, w, n

(* The collectors that a process has built, and the last results of WMI:   *)
(* wmiFailures of them failed, and there are MaxFailures once it is no     *)
(* longer asked.                                                           *)
Built == counters \subseteq Counters /\ nvmlReady \in BOOLEAN

Streak ==
  /\ wmiFailures \in Nat /\ wmiLog \in Seq(BOOLEAN)
  /\ wmiFailures <= Len(wmiLog)
  /\ \A j \in 1..Len(wmiLog) : j > Len(wmiLog) - wmiFailures => ~wmiLog[j]
  /\ wmiDisabled => wmiFailures >= MaxFailures

(* WMI is left alone only when it deserves it.                             *)
LEMMA DisabledIsGivenUp ==
  ASSUME Streak, wmiDisabled
  PROVE  GivenUp
<1> DEFINE l == Len(wmiLog)
           i == l - MaxFailures + 1
<1>1. l \in Nat /\ wmiFailures \in Nat /\ MaxFailures \in Nat \ {0} /\ MaxFailures <= wmiFailures
        /\ wmiFailures <= l
  BY DevicesAssumption DEF Streak
<1>2. \A j \in 1..l : j > l - wmiFailures => ~wmiLog[j]
  BY DEF Streak
<1> HIDE DEF l
<1>3. i \in 1..i /\ i + MaxFailures - 1 = l
  BY <1>1
<1>4. ASSUME NEW j \in i..l PROVE ~wmiLog[j]
  <2>1. j \in 1..l /\ j > l - wmiFailures
    BY <1>1
  <2> QED BY <1>2, <2>1
<1>5. \A j \in i..(i + MaxFailures - 1) : ~wmiLog[j]
  BY <1>3, <1>4
<1> HIDE DEF i
<1>6. \E k \in 1..i : \A j \in k..(k + MaxFailures - 1) : ~wmiLog[j]
  BY <1>3, <1>5
<1> QED BY <1>6 DEF GivenUp, i, l

(* A turn of WMI, or a new process, keeps the count.                       *)
LEMMA WmiCountKeepsStreak ==
  ASSUME Streak, NEW a, WmiCount(a)
  PROVE  Streak'
<1>1. CASE WmiAsked(a)
  <2> DEFINE ok == a.wmi = "ok"
  <2>0. PICK l \in Nat : l = Len(wmiLog)
    BY DEF Streak
  <2>1. /\ wmiFailures' = IF ok THEN 0 ELSE wmiFailures + 1
        /\ wmiDisabled' = (wmiFailures' >= MaxFailures)
        /\ wmiLog' = Append(wmiLog, ok)
    BY <1>1 DEF WmiCount
  <2>2. /\ wmiFailures \in Nat /\ wmiLog \in Seq(BOOLEAN) /\ wmiFailures <= l
        /\ \A j \in 1..l : j > l - wmiFailures => ~wmiLog[j]
    BY <2>0 DEF Streak
  <2>3. ok \in BOOLEAN
    OBVIOUS
  <2> HIDE DEF ok
  <2>4. /\ wmiLog' \in Seq(BOOLEAN) /\ Len(wmiLog') = l + 1
        /\ wmiLog'[l + 1] = ok /\ \A j \in 1..l : wmiLog'[j] = wmiLog[j]
    BY <2>0, <2>1, <2>2, <2>3
  <2>5. wmiFailures' \in Nat /\ wmiFailures' <= l + 1
    BY <2>1, <2>2
  <2>6. ASSUME NEW j \in 1..(l + 1), j > l + 1 - wmiFailures' PROVE ~wmiLog'[j]
    <3>1. ~ok /\ wmiFailures' = wmiFailures + 1
      <4>1. CASE ok
        BY <2>1, <2>2, <2>6, <4>1
      <4>2. CASE ~ok
        BY <2>1, <4>2
      <4> QED BY <4>1, <4>2
    <3>2. CASE j = l + 1
      BY <2>4, <3>1, <3>2
    <3>3. CASE j # l + 1
      <4>1. j \in 1..l /\ j > l - wmiFailures
        BY <2>2, <2>6, <3>1, <3>3
      <4> QED BY <2>2, <2>4, <4>1
    <3> QED BY <3>2, <3>3
  <2>7. wmiDisabled' => wmiFailures' >= MaxFailures
    BY <2>1
  <2>8. wmiFailures' <= Len(wmiLog')
    BY <2>4, <2>5
  <2>9. \A j \in 1..Len(wmiLog') : j > Len(wmiLog') - wmiFailures' => ~wmiLog'[j]
    <3>1. PICK f \in Nat : f = wmiFailures'
      BY <2>5
    <3>2. \A j \in 1..(l + 1) : j > l + 1 - f => ~wmiLog'[j]
      BY <2>6, <3>1
    <3>3. \A j \in 1..Len(wmiLog') : j > Len(wmiLog') - f => ~wmiLog'[j]
      BY <2>4, <3>2
    <3> QED BY <3>1, <3>3
  <2>10. wmiLog' \in Seq(BOOLEAN) /\ wmiFailures' \in Nat
    BY <2>4, <2>5
  <2> QED BY ONLY <2>7, <2>8, <2>9, <2>10 DEF Streak
<1>2. CASE ~WmiAsked(a)
  BY <1>2 DEF WmiCount, Streak
<1> QED BY <1>1, <1>2

(* What is offered is in the sample.                                       *)
LEMMA OfferedIsCollected ==
  ASSUME Built, Streak, NEW a, IsAnswer(a), NEW id \in Offered(a)
  PROVE  Named(Collect(a), id)
<1> DEFINE pdh == {Specs[c[1]] : c \in counters \cap a.counters}
           memory == IF "mem.available_mb" \in pdh /\ a.memory THEN {"mem.used_mb"} ELSE {}
           nvml == IF nvmlReady THEN UNION {Range(NvmlIds[x[2]]) : x \in a.nvml} ELSE {}
<1>1. \/ a.throws # "pdh" /\ id \in pdh
      \/ a.throws # "pdh" /\ id \in memory
      \/ a.throws # "wmi" /\ a.wmi = "ok" /\ ~GivenUp /\ id = "cpu.temp_c"
      \/ a.throws # "nvml" /\ id \in nvml
  BY DEF Offered
<1>2. ASSUME NEW c \in counters \cap a.counters
      PROVE  c[1] \in DOMAIN Specs /\ Valid(a, c[1]) # {}
  <2>1. PICK i \in DOMAIN Specs : c \in {i} \X (1..Instances[i])
    BY DEF Built, Counters
  <2>2. c = <<i, c[2]>> /\ c[1] = i /\ c[2] \in 1..Instances[i]
    BY <2>1
  <2>3. c[2] \in Valid(a, i)
    BY <2>2 DEF Valid
  <2> QED BY <2>2, <2>3
<1>3. CASE a.throws # "pdh" /\ id \in pdh
  <2>1. PICK c \in counters \cap a.counters : id = Specs[c[1]]
    BY <1>3
  <2>2. Named(PdhCollect(a), id)
    BY <1>2, <2>1, PdhCollectKeeps
  <2>3. FromPdh(a) = PdhCollect(a)
    BY <1>3 DEF FromPdh
  <2> QED BY <2>2, <2>3, CollectKeeps
<1>4. CASE a.throws # "pdh" /\ id \in memory
  <2>1. "mem.available_mb" \in pdh /\ a.memory /\ id = "mem.used_mb"
    BY <1>4
  <2>2. PICK c \in counters \cap a.counters : "mem.available_mb" = Specs[c[1]]
    BY <2>1
  <2>3. Named(PdhSums(a), "mem.available_mb")
    BY <1>2, <2>2, PdhSumsKeep
  <2>4. Named(PdhCollect(a), id)
    BY <2>1, <2>3, PdhCollectKeeps
  <2>5. FromPdh(a) = PdhCollect(a)
    BY <1>4 DEF FromPdh
  <2> QED BY <2>4, <2>5, CollectKeeps
<1>5. CASE a.throws # "wmi" /\ a.wmi = "ok" /\ ~GivenUp /\ id = "cpu.temp_c"
  <2>1. ~wmiDisabled
    BY <1>5, DisabledIsGivenUp
  <2>2. Named(WmiCollect(a), id)
    BY <1>5, <2>1, WmiCollectKeeps
  <2>3. FromWmi(a) = WmiCollect(a)
    BY <1>5 DEF FromWmi
  <2> QED BY <2>2, <2>3, CollectKeeps
<1>6. CASE a.throws # "nvml" /\ id \in nvml
  <2>1. nvmlReady
    BY <1>6
  <2>2. PICK x \in a.nvml : id \in Range(NvmlIds[x[2]])
    BY <1>6
  <2>3. x \in (1..Devices) \X Range(NvmlCalls)
    BY DEF IsAnswer, NvmlAnswers
  <2>4. PICK n \in DOMAIN NvmlCalls : x[2] = NvmlCalls[n]
    BY <2>3 DEF Range
  <2>5. x = <<x[1], NvmlCalls[n]>> /\ x[1] \in 1..Devices
    BY <2>3, <2>4
  <2>6. Reports(NvmlCalls[n], id)
    BY <2>2, <2>4 DEF Range, Reports
  <2>7. Named(Call(a, x[1], n), id)
    BY <2>2, <2>5, <2>6, CallKeeps
  <2>8. Named(NvmlDevice(a, x[1]), id)
    BY <2>7, NvmlDeviceKeeps
  <2>9. Named(NvmlCollect(a), id)
    BY <2>1, <2>5, <2>8, NvmlCollectKeeps
  <2>10. FromNvml(a) = NvmlCollect(a)
    BY <1>6 DEF FromNvml
  <2> QED BY <2>9, <2>10, CollectKeeps
<1> QED BY <1>1, <1>3, <1>4, <1>5, <1>6

-----------------------------------------------------------------------------
(* The samples on their way.                                               *)
Samples == [time : Nat, metrics : Seq(Metrics), offered : SUBSET Names]

Whole(x) == x.offered \subseteq {x.metrics[i].id : i \in DOMAIN x.metrics}

(* The inductive invariant of the collectors.                              *)
WholeInv == Built /\ Streak /\ inputs \in Nat /\ wire \in Seq(Samples) /\ WholeSamples

(* q holds some of the elements of p, in their order.                      *)
Thinned(q, p) ==
  /\ q \in Seq(Samples)
  /\ \E e \in [1..Len(q) -> 1..Len(p)] :
       /\ \A i, j \in 1..Len(q) : i < j => e[i] < e[j]
       /\ \A i \in 1..Len(q) : q[i] = p[e[i]]

(* Nothing is taken away.                                                  *)
LEMMA ThinnedSame ==
  ASSUME NEW p \in Seq(Samples)
  PROVE  Thinned(p, p)
<1> DEFINE e == [i \in 1..Len(p) |-> i]
<1>1. /\ e \in [1..Len(p) -> 1..Len(p)]
      /\ \A i, j \in 1..Len(p) : i < j => e[i] < e[j]
      /\ \A i \in 1..Len(p) : p[i] = p[e[i]]
  OBVIOUS
<1> HIDE DEF e
<1> QED BY <1>1 DEF Thinned

(* The client takes the first.                                             *)
LEMMA ThinnedTail ==
  ASSUME NEW p \in Seq(Samples), p # << >>
  PROVE  Thinned(Tail(p), p)
<1> DEFINE q == Tail(p)
           e == [i \in 1..Len(q) |-> i + 1]
<1>1. /\ q \in Seq(Samples) /\ Len(q) = Len(p) - 1 /\ Len(p) \in Nat
      /\ \A i \in 1..Len(q) : q[i] = p[i + 1]
  OBVIOUS
<1> HIDE DEF q
<1>2. /\ e \in [1..Len(q) -> 1..Len(p)]
      /\ \A i, j \in 1..Len(q) : i < j => e[i] < e[j]
      /\ \A i \in 1..Len(q) : q[i] = p[e[i]]
  BY <1>1
<1> HIDE DEF e
<1>3. Thinned(q, p)
  BY <1>1, <1>2 DEF Thinned
<1> QED BY <1>3 DEF q

(* The service dies and takes the last ones with it.                       *)
LEMMA ThinnedPrefix ==
  ASSUME NEW p \in Seq(Samples), NEW n \in 0..Len(p)
  PROVE  Thinned(SubSeq(p, 1, n), p)
<1> DEFINE q == SubSeq(p, 1, n)
           e == [i \in 1..Len(q) |-> i]
<1>1. /\ q \in Seq(Samples) /\ Len(q) = n /\ Len(p) \in Nat
      /\ \A i \in 1..Len(q) : q[i] = p[i]
  OBVIOUS
<1> HIDE DEF q
<1>2. /\ e \in [1..Len(q) -> 1..Len(p)]
      /\ \A i, j \in 1..Len(q) : i < j => e[i] < e[j]
      /\ \A i \in 1..Len(q) : q[i] = p[e[i]]
  BY <1>1
<1> HIDE DEF e
<1>3. Thinned(q, p)
  BY <1>1, <1>2 DEF Thinned
<1> QED BY <1>3 DEF q

(* One is lost.                                                            *)
LEMMA ThinnedByOne ==
  ASSUME NEW p \in Seq(Samples), NEW n \in 1..Len(p)
  PROVE  Thinned(RemoveAt(p, n), p)
<1> DEFINE a == SubSeq(p, 1, n - 1)
           b == SubSeq(p, n + 1, Len(p))
           q == a \o b
           e == [i \in 1..Len(q) |-> IF i < n THEN i ELSE i + 1]
<1>1. Len(p) \in Nat /\ n - 1 \in 0..Len(p)
  OBVIOUS
<1>2. /\ a \in Seq(Samples) /\ Len(a) = n - 1
      /\ \A i \in 1..(n - 1) : a[i] = p[i]
  BY <1>1
<1>3. /\ b \in Seq(Samples) /\ Len(b) = Len(p) - n
      /\ \A i \in 1..(Len(p) - n) : b[i] = p[i + n]
  BY <1>1
<1> HIDE DEF a, b
<1>4. /\ q \in Seq(Samples) /\ Len(q) = Len(p) - 1
      /\ \A i \in 1..Len(q) : q[i] = IF i < n THEN p[i] ELSE p[i + 1]
  <2>1. q \in Seq(Samples) /\ Len(q) = Len(p) - 1
    BY <1>1, <1>2, <1>3
  <2>2. ASSUME NEW i \in 1..Len(q) PROVE q[i] = IF i < n THEN p[i] ELSE p[i + 1]
    <3>1. CASE i < n
      <4>1. i \in 1..(n - 1) /\ i \in 1..Len(a)
        BY <1>2, <2>1, <3>1
      <4>2. q[i] = a[i]
        BY <1>2, <1>3, <4>1
      <4> QED BY <1>2, <3>1, <4>1, <4>2
    <3>2. CASE ~(i < n)
      <4>1. i - (n - 1) \in 1..Len(b) /\ i - (n - 1) \in 1..(Len(p) - n)
        BY <1>1, <1>3, <2>1, <3>2
      <4>2. q[Len(a) + (i - (n - 1))] = b[i - (n - 1)]
        BY <1>2, <1>3, <4>1
      <4>3. Len(a) + (i - (n - 1)) = i /\ i - (n - 1) + n = i + 1
        BY <1>2
      <4> QED BY <1>3, <3>2, <4>1, <4>2, <4>3
    <3> QED BY <3>1, <3>2
  <2> QED BY <2>1, <2>2
<1>5. RemoveAt(p, n) = q
  BY DEF RemoveAt, a, b
<1> HIDE DEF q
<1>6. /\ e \in [1..Len(q) -> 1..Len(p)]
      /\ \A i, j \in 1..Len(q) : i < j => e[i] < e[j]
      /\ \A i \in 1..Len(q) : q[i] = p[e[i]]
  BY <1>1, <1>4
<1> HIDE DEF e
<1> QED BY <1>4, <1>5, <1>6 DEF Thinned

(* A step that makes no sample leaves the collectors alone and loses at    *)
(* most some of the samples on their way.                                  *)
LEMMA CollectorsRest ==
  ASSUME WholeInv, UNCHANGED collectorVars, inputs' \in Nat, Thinned(wire', wire)
  PROVE  WholeInv'
<1>1. Built' /\ Streak'
  BY DEF WholeInv, Built, Streak, collectorVars
<1>2. wire' \in Seq(Samples)
  BY DEF Thinned
<1>3. PICK e \in [1..Len(wire') -> 1..Len(wire)] : \A i \in 1..Len(wire') : wire'[i] = wire[e[i]]
  BY DEF Thinned
<1>4. \A n \in DOMAIN wire : Whole(wire[n])
  BY DEF WholeInv, WholeSamples, Whole
<1>5. DOMAIN wire = 1..Len(wire) /\ DOMAIN wire' = 1..Len(wire')
  BY <1>2 DEF WholeInv
<1>6. \A n \in DOMAIN wire' : Whole(wire'[n])
  BY <1>3, <1>4, <1>5
<1>7. WholeSamples'
  BY <1>6 DEF WholeSamples, Whole
<1> QED BY <1>1, <1>2, <1>7 DEF WholeInv

(* A new process counts anew.                                              *)
LEMMA ConstructKeeps ==
  ASSUME NEW refused, NEW nvml \in BOOLEAN, Construct(refused, nvml)
  PROVE  Built' /\ Streak'
<1>1. Built'
  BY DEF Construct, Built, Counters
<1>2. wmiFailures' = 0 /\ wmiDisabled' = FALSE /\ wmiLog' = << >>
  BY DEF Construct
<1>3. << >> \in Seq(BOOLEAN) /\ Len(<< >>) = 0
  OBVIOUS
<1>4. Streak'
  BY <1>2, <1>3 DEF Streak
<1> QED BY <1>1, <1>4

(* The sample that a turn of the loop makes.                               *)
Sample(t, a) == [time |-> t, metrics |-> Collect(a), offered |-> Offered(a)]

LEMMA SampleIsWhole ==
  ASSUME Built, Streak, NEW a, IsAnswer(a), NEW t \in Nat
  PROVE  Sample(t, a) \in Samples /\ Whole(Sample(t, a))
<1>1. Collect(a) \in Seq(Metrics)
  BY CollectKeeps
<1>2. ASSUME NEW id \in Offered(a)
      PROVE  id \in Names /\ \E n \in DOMAIN Collect(a) : id = Collect(a)[n].id
  <2>1. Named(Collect(a), id)
    BY OfferedIsCollected
  <2>2. PICK n \in DOMAIN Collect(a) : id = Collect(a)[n].id
    BY <1>1, <2>1 DEF Named, Elems
  <2>3. Collect(a)[n] \in Metrics
    BY <1>1
  <2> QED BY <2>2, <2>3 DEF Metrics
<1> QED BY <1>1, <1>2 DEF Sample, Samples, Whole

(* What a turn of the loop does.                                           *)
LEMMA TickSends ==
  ASSUME Tick
  PROVE  /\ inputs' = inputs + 1 /\ UNCHANGED <<counters, nvmlReady, values, rows, points, taken, notified>>
         /\ \E a : /\ IsAnswer(a) /\ WmiCount(a)
                   /\ wire' = Append(wire, Sample(inputs + 1, a))
<1>1. inputs' = inputs + 1 /\ UNCHANGED <<counters, nvmlReady, values, rows, points, taken, notified>>
  BY DEF Tick, Input
<1>2. PICK v \in Readings : \E a \in {Good(v)} \cup OneFails(v) :
        /\ wire' = Append(wire, [time |-> inputs', metrics |-> ToProto(Collect(a), {}),
                                 offered |-> Offered(a)])
        /\ WmiCount(a)
  BY DEF Tick
<1>3. PICK a \in {Good(v)} \cup OneFails(v) :
        /\ wire' = Append(wire, [time |-> inputs', metrics |-> ToProto(Collect(a), {}),
                                 offered |-> Offered(a)])
        /\ WmiCount(a)
  BY <1>2
<1>4. IsAnswer(a)
  BY AnswerType
<1>5. wire' = Append(wire, Sample(inputs + 1, a))
  BY <1>1, <1>3 DEF ToProto, Sample
<1> QED BY <1>1, <1>3, <1>4, <1>5

(* One turn of the loop.                                                   *)
LEMMA TickIsWhole ==
  ASSUME WholeInv, Tick
  PROVE  WholeInv'
<1>1. PICK a : IsAnswer(a) /\ WmiCount(a) /\ wire' = Append(wire, Sample(inputs + 1, a))
  BY TickSends
<1>2. /\ inputs' = inputs + 1 /\ inputs \in Nat /\ inputs + 1 \in Nat
      /\ wire \in Seq(Samples) /\ UNCHANGED <<counters, nvmlReady>>
  BY TickSends DEF WholeInv
<1>3. Built'
  BY <1>2 DEF WholeInv, Built, Counters
<1>4. Streak'
  BY <1>1, WmiCountKeepsStreak DEF WholeInv
<1> DEFINE x == Sample(inputs + 1, a)
<1>5. x \in Samples /\ Whole(x)
  BY <1>1, <1>2, SampleIsWhole DEF WholeInv
<1> HIDE DEF x
<1>6. wire' = Append(wire, x)
  BY <1>1 DEF x
<1>7. wire' \in Seq(Samples) /\ \A n \in DOMAIN wire' : wire'[n] = x \/ (n \in DOMAIN wire /\ wire'[n] = wire[n])
  BY <1>2, <1>5, <1>6
<1>8. \A n \in DOMAIN wire : Whole(wire[n])
  BY DEF WholeInv, WholeSamples, Whole
<1>9. \A n \in DOMAIN wire' : Whole(wire'[n])
  BY <1>5, <1>7, <1>8
<1>10. WholeSamples'
  BY <1>9 DEF WholeSamples, Whole
<1>11. inputs' \in Nat
  BY <1>2
<1> QED BY <1>3, <1>4, <1>7, <1>10, <1>11 DEF WholeInv

(* Every step that makes no sample thins those on their way.               *)
LEMMA StepThins ==
  ASSUME WholeInv, [Next]_vars, ~Tick
  PROVE  Thinned(wire', wire) /\ inputs' \in Nat /\ (ServiceStarts \/ UNCHANGED collectorVars)
<1>1. inputs \in Nat /\ wire \in Seq(Samples)
  BY DEF WholeInv
<1>2. CASE ServiceStarts
  <2>1. UNCHANGED <<wire, inputs>>
    BY <1>2 DEF ServiceStarts
  <2> QED BY <1>1, <1>2, <2>1, ThinnedSame
<1>3. CASE ServiceDies
  <2>1. PICK n \in 0..Len(wire) : wire' = SubSeq(wire, 1, n)
    BY <1>3 DEF ServiceDies
  <2>2. UNCHANGED collectorVars /\ UNCHANGED inputs
    BY <1>3 DEF ServiceDies
  <2> QED BY <1>1, <2>1, <2>2, ThinnedPrefix
<1>4. CASE SampleLost
  <2>1. PICK n \in DOMAIN wire : wire' = RemoveAt(wire, n)
    BY <1>4 DEF SampleLost
  <2>2. UNCHANGED collectorVars /\ UNCHANGED inputs /\ n \in 1..Len(wire)
    BY <1>1, <1>4, <2>1 DEF SampleLost
  <2> QED BY <1>1, <2>1, <2>2, ThinnedByOne
<1>5. CASE HandleSample
  <2>1. UNCHANGED collectorVars /\ UNCHANGED inputs /\ wire # << >> /\ wire' = Tail(wire)
    BY <1>5 DEF HandleSample
  <2> QED BY <1>1, <2>1, ThinnedTail
<1>6. CASE ClearNotifications \/ \E ok \in BOOLEAN : SwitchResult(ok)
  <2>1. UNCHANGED collectorVars /\ UNCHANGED wire /\ inputs' = inputs + 1
    BY <1>6 DEF ClearNotifications, SwitchResult, Notify, Input
  <2> QED BY <1>1, <2>1, ThinnedSame
<1>7. CASE UNCHANGED vars
  <2>1. UNCHANGED collectorVars /\ UNCHANGED <<wire, inputs>>
    BY <1>7 DEF vars, pathVars
  <2> QED BY <1>1, <2>1, ThinnedSame
<1> QED BY <1>2, <1>3, <1>4, <1>5, <1>6, <1>7 DEF Next

(* The collectors' invariant holds in every behaviour.                     *)
LEMMA WholeHolds == Spec => []WholeInv
<1>1. Init => WholeInv
  <2> SUFFICES ASSUME Init PROVE WholeInv
    OBVIOUS
  <2>1. wire = << >> /\ inputs = 0 /\ counters = {} /\ nvmlReady = FALSE
    BY DEF Init
  <2>2. wmiFailures = 0 /\ wmiDisabled = FALSE /\ wmiLog = << >>
    BY DEF Init
  <2>3. << >> \in Seq(BOOLEAN) /\ Len(<< >>) = 0 /\ << >> \in Seq(Samples) /\ DOMAIN << >> = {}
    OBVIOUS
  <2>4. Streak
    BY <2>2, <2>3 DEF Streak
  <2>5. Built /\ WholeSamples /\ wire \in Seq(Samples) /\ inputs \in Nat
    BY <2>1, <2>3 DEF Built, WholeSamples
  <2> QED BY <2>4, <2>5 DEF WholeInv
<1>2. WholeInv /\ [Next]_vars => WholeInv'
  <2> SUFFICES ASSUME WholeInv, [Next]_vars PROVE WholeInv'
    OBVIOUS
  <2>1. CASE Tick
    BY <2>1, TickIsWhole
  <2>2. CASE ServiceStarts
    <3>1. \E r, nvml : nvml \in BOOLEAN /\ Construct(r, nvml)
      BY <2>2 DEF ServiceStarts
    <3>2. UNCHANGED <<wire, inputs>>
      BY <2>2 DEF ServiceStarts
    <3>3. Built' /\ Streak'
      BY <3>1, ConstructKeeps
    <3> QED BY <3>2, <3>3 DEF WholeInv, WholeSamples
  <2>3. CASE ~Tick /\ ~ServiceStarts
    <3>1. Thinned(wire', wire) /\ inputs' \in Nat /\ UNCHANGED collectorVars
      BY <2>3, StepThins
    <3> QED BY <3>1, CollectorsRest
  <2> QED BY <2>1, <2>2, <2>3
<1> QED BY <1>1, <1>2, PTL DEF Spec

(* A sample has all that Windows offered to the collectors of the process, *)
(* for any counters, devices and limits: a failure or an exception in one  *)
(* collector does not hide what the others have, and WMI is given up only  *)
(* after MaxFailures failures in a row.                                    *)
THEOREM SamplesAreWhole == Spec => []WholeSamples
<1>1. WholeInv => WholeSamples
  BY DEF WholeInv
<1> QED BY <1>1, WholeHolds, PTL

-----------------------------------------------------------------------------
(* What HandleSample appends, and what a series then holds.                *)

(* Total adds integers up.                                                 *)
LEMMA TotalType ==
  ASSUME NEW vs \in Seq(Int)
  PROVE  Total(vs) \in Int
<1> DEFINE m == Len(vs)
           g == [k \in 1..m |-> [x \in Int |-> x + vs[k]]]
           IsSum(h) == h = [n \in 0..m |-> IF n = 0 THEN 0 ELSE h[n - 1] + vs[n]]
           c == CHOOSE h : IsSum(h)
<1>1. m \in Nat /\ \A k \in 1..m : vs[k] \in Int
  OBVIOUS
<1>2. Total(vs) = c[m]
  BY DEF Total
<1>3. g \in Turns(Int, m)
  <2>1. g \in [1..m -> [Int -> Int]]
    BY <1>1
  <2> QED BY <2>1 DEF Turns
<1>4. PICK f : IsLoop(f, Int, m, 0, g)
  <2> HIDE DEF g, m
  <2>1. m \in Nat /\ 0 \in Int
    BY <1>1
  <2> QED BY <1>3, <2>1, Loop
<1>5. f \in [0..m -> Int] /\ f[0] = 0 /\ \A k \in 1..m : f[k] = g[k][f[k - 1]]
  BY <1>4 DEF IsLoop
<1>6. ASSUME NEW k \in 1..m PROVE f[k] = f[k - 1] + vs[k]
  <2>1. k - 1 \in 0..m
    BY <1>1
  <2>2. f[k - 1] \in Int
    BY <1>5, <2>1
  <2>3. g[k][f[k - 1]] = f[k - 1] + vs[k]
    BY <2>2
  <2> HIDE DEF g, m
  <2> QED BY <1>5, <2>3
<1> HIDE DEF m, g
<1>7. IsSum(c)
  <2>1. f = [n \in 0..m |-> IF n = 0 THEN 0 ELSE f[n - 1] + vs[n]]
    <3>1. ASSUME NEW n \in 0..m PROVE f[n] = IF n = 0 THEN 0 ELSE f[n - 1] + vs[n]
      <4>1. CASE n = 0
        BY <1>5, <4>1
      <4>2. CASE n # 0
        <5>1. n \in 1..m
          BY <1>1, <4>2
        <5> QED BY <1>6, <4>2, <5>1
      <4> QED BY <4>1, <4>2
    <3> QED BY <1>5, <3>1
  <2>2. IsSum(f)
    BY <2>1
  <2> HIDE DEF IsSum
  <2> QED BY <2>2
<1> DEFINE T == {n \in 0..m : c[n] \in Int}
<1>8. c = [n \in 0..m |-> IF n = 0 THEN 0 ELSE c[n - 1] + vs[n]]
  BY <1>7
<1> HIDE DEF c
<1>9. 0 \in T
  <2>1. 0 \in 0..m
    BY <1>1
  <2>2. c[0] = 0
    BY <1>8, <2>1
  <2> QED BY <2>1, <2>2
<1>10. ASSUME NEW n \in 1..m, n - 1 \in T PROVE n \in T
  <2>1. n \in 0..m /\ n # 0
    BY <1>1
  <2>2. c[n] = c[n - 1] + vs[n]
    BY <1>8, <2>1
  <2>3. c[n - 1] \in Int /\ vs[n] \in Int
    BY <1>1, <1>10
  <2>4. c[n] \in Int
    BY <2>2, <2>3
  <2> QED BY <2>1, <2>4
<1>11. m \in T
  <2> HIDE DEF T
  <2>1. m \in Nat /\ m \in 0..m
    BY <1>1
  <2>2. \A n \in 0..m : n \in T
    BY <1>9, <1>10, <2>1, Induction
  <2> QED BY <2>1, <2>2
<1> QED BY <1>2, <1>11

(* The latest of the first n elements of q, oldest first.                  *)
IsLatest(w, q, n) ==
  /\ w \in Seq(Int) /\ Len(w) = IF n <= SeriesCapacity THEN n ELSE SeriesCapacity
  /\ \A i \in 1..Len(w) : w[i] = q[n - Len(w) + i]

(* One more value keeps them the latest.                                   *)
LEMMA AppendValueLatest ==
  ASSUME NEW q \in Seq(Int), NEW n \in 1..Len(q), NEW w, IsLatest(w, q, n - 1)
  PROVE  IsLatest(AppendValue(w, q[n]), q, n)
<1> DEFINE k == Len(w)
           c == SeriesCapacity
           u == IF k >= c THEN Tail(w) ELSE w
           x == q[n]
           r == Append(u, x)
<1>1. /\ w \in Seq(Int) /\ k \in Nat /\ k = IF n - 1 <= c THEN n - 1 ELSE c
      /\ \A i \in 1..k : w[i] = q[n - 1 - k + i]
  BY DEF IsLatest
<1>2. c \in Nat \ {0} /\ x \in Int /\ n \in Nat /\ n > 0
  BY SizesAssumption
<1>3. AppendValue(w, q[n]) = r
  BY DEF AppendValue
<1> HIDE DEF x
<1>4. CASE k >= c
  <2>1. k = c /\ n - 1 >= c
    BY <1>1, <1>2, <1>4
  <2>2. u = Tail(w) /\ w # << >>
    BY <1>1, <1>2, <1>4
  <2>3. u \in Seq(Int) /\ Len(u) = k - 1 /\ \A i \in 1..(k - 1) : u[i] = w[i + 1]
    <3> HIDE DEF u
    <3> QED BY <1>1, <2>2
  <2> HIDE DEF u, k, c
  <2>4. r \in Seq(Int) /\ Len(r) = k /\ r[k] = x /\ \A i \in 1..(k - 1) : r[i] = w[i + 1]
    <3>0. \A t \in Seq(Int) : /\ Append(t, x) \in Seq(Int) /\ Len(Append(t, x)) = Len(t) + 1
                              /\ Append(t, x)[Len(t) + 1] = x
                              /\ \A i \in 1..Len(t) : Append(t, x)[i] = t[i]
      BY <1>2
    <3>1. /\ r \in Seq(Int) /\ Len(r) = Len(u) + 1 /\ r[Len(u) + 1] = x
          /\ \A i \in 1..Len(u) : r[i] = u[i]
      BY <2>3, <3>0
    <3>2. Len(u) = k - 1 /\ Len(u) + 1 = k
      BY <1>1, <2>3
    <3> HIDE DEF r
    <3> QED BY <2>3, <3>1, <3>2
  <2> HIDE DEF r
  <2>5. ASSUME NEW i \in 1..k PROVE r[i] = q[n - k + i]
    <3>1. CASE i = k
      <4>1. n - k + i = n
        BY <1>1, <1>2, <3>1
      <4> QED BY <2>4, <3>1, <4>1 DEF x
    <3>2. CASE i # k
      <4>1. i \in 1..(k - 1) /\ i + 1 \in 1..k /\ n - 1 - k + (i + 1) = n - k + i
        BY <1>1, <1>2, <3>2
      <4>2. w[i + 1] = q[n - 1 - k + (i + 1)]
        BY <1>1, <4>1
      <4> QED BY <2>4, <4>1, <4>2
    <3> QED BY <3>1, <3>2
  <2>6. k = IF n <= SeriesCapacity THEN n ELSE SeriesCapacity
    BY <1>1, <1>2, <2>1 DEF c
  <2>7. IsLatest(r, q, n)
    BY <2>4, <2>5, <2>6 DEF IsLatest
  <2> QED BY <1>3, <2>7 DEF x
<1>5. CASE ~(k >= c)
  <2>1. k = n - 1 /\ n <= c
    BY <1>1, <1>2, <1>5
  <2>2. u = w
    BY <1>5
  <2> HIDE DEF u, k, c
  <2>4. r \in Seq(Int) /\ Len(r) = n /\ r[n] = x /\ \A i \in 1..(n - 1) : r[i] = w[i]
    <3>1. r \in Seq(Int) /\ Len(r) = Len(w) + 1 /\ r[Len(w) + 1] = x
            /\ \A i \in 1..Len(w) : r[i] = w[i]
      BY <1>1, <1>2, <2>2
    <3>2. Len(w) = n - 1 /\ Len(w) + 1 = n
      BY <1>2, <2>1 DEF k
    <3> HIDE DEF r
    <3> QED BY <3>1, <3>2
  <2> HIDE DEF r
  <2>5. ASSUME NEW i \in 1..n PROVE r[i] = q[n - n + i]
    <3>0. n - n + i = i
      BY <1>2
    <3>1. CASE i = n
      BY <2>4, <3>0, <3>1 DEF x
    <3>2. CASE i # n
      <4>1. i \in 1..(n - 1) /\ i \in 1..k /\ n - 1 - k + i = i
        BY <1>2, <2>1, <3>2
      <4>2. w[i] = q[n - 1 - k + i]
        BY <1>1, <4>1
      <4> QED BY <2>4, <3>0, <4>1, <4>2
    <3> QED BY <3>1, <3>2
  <2>7. IsLatest(r, q, n)
    BY <2>1, <2>4, <2>5 DEF IsLatest, c
  <2> QED BY <1>3, <2>7 DEF x
<1> QED BY <1>4, <1>5

(* A series is a sequence of values.                                       *)
LEMMA AppendValueType ==
  ASSUME NEW w \in Seq(Int), NEW x \in Int
  PROVE  AppendValue(w, x) \in Seq(Int)
<1>1. SeriesCapacity \in Nat \ {0}
  BY SizesAssumption
<1>2. CASE Len(w) >= SeriesCapacity
  <2>1. w # << >>
    BY <1>1, <1>2
  <2>2. Tail(w) \in Seq(Int)
    BY <2>1
  <2>3. AppendValue(w, x) = Append(Tail(w), x)
    BY <1>2 DEF AppendValue
  <2> QED BY <2>2, <2>3
<1>3. CASE ~(Len(w) >= SeriesCapacity)
  <2>1. AppendValue(w, x) = Append(w, x)
    BY <1>3 DEF AppendValue
  <2> QED BY <2>1
<1> QED BY <1>2, <1>3

(* AppendAll appends one value after the other.                            *)
LEMMA AppendAllLoop ==
  ASSUME NEW w \in Seq(Int), NEW vs \in Seq(Int)
  PROVE  \E f : /\ f[0] = w /\ AppendAll(w, vs) = f[Len(vs)]
                /\ \A k \in 1..Len(vs) : f[k] = AppendValue(f[k - 1], vs[k])
<1> DEFINE V == Seq(Int)
           m == Len(vs)
           g == [k \in 1..m |-> [u \in V |-> AppendValue(u, vs[k])]]
           IsAfter(h) == h = [n \in 0..m |-> IF n = 0 THEN w ELSE AppendValue(h[n - 1], vs[n])]
           c == CHOOSE h : IsAfter(h)
<1>1. m \in Nat /\ \A k \in 1..m : vs[k] \in Int
  OBVIOUS
<1>2. AppendAll(w, vs) = c[m]
  BY DEF AppendAll
<1>3. g \in Turns(V, m)
  <2>1. g \in [1..m -> [V -> V]]
    BY <1>1, AppendValueType
  <2> QED BY <2>1 DEF Turns
<1>4. PICK f : IsLoop(f, V, m, w, g)
  <2> HIDE DEF g, m
  <2>1. m \in Nat /\ w \in V
    BY <1>1
  <2> HIDE DEF V
  <2> QED BY <1>3, <2>1, Loop
<1>5. f \in [0..m -> V] /\ f[0] = w /\ \A k \in 1..m : f[k] = g[k][f[k - 1]]
  BY <1>4 DEF IsLoop
<1> HIDE DEF V
<1>6. ASSUME NEW k \in 1..m PROVE f[k] = AppendValue(f[k - 1], vs[k])
  <2>1. k - 1 \in 0..m
    BY <1>1
  <2>2. f[k - 1] \in V
    BY <1>5, <2>1
  <2>3. g[k][f[k - 1]] = AppendValue(f[k - 1], vs[k])
    BY <2>2
  <2> HIDE DEF g, m
  <2> QED BY <1>5, <2>3
<1> HIDE DEF m, g
<1>7. IsAfter(c)
  <2>1. f = [n \in 0..m |-> IF n = 0 THEN w ELSE AppendValue(f[n - 1], vs[n])]
    <3>1. ASSUME NEW n \in 0..m PROVE f[n] = IF n = 0 THEN w ELSE AppendValue(f[n - 1], vs[n])
      <4>1. CASE n = 0
        BY <1>5, <4>1
      <4>2. CASE n # 0
        <5>1. n \in 1..m
          BY <1>1, <4>2
        <5> QED BY <1>6, <4>2, <5>1
      <4> QED BY <4>1, <4>2
    <3> QED BY <1>5, <3>1
  <2>2. IsAfter(f)
    BY <2>1
  <2> HIDE DEF IsAfter
  <2> QED BY <2>2
<1>8. c = [n \in 0..m |-> IF n = 0 THEN w ELSE AppendValue(c[n - 1], vs[n])]
  BY <1>7
<1> HIDE DEF c
<1>9. c[0] = w
  BY <1>1, <1>8
<1>10. ASSUME NEW k \in 1..m PROVE c[k] = AppendValue(c[k - 1], vs[k])
  <2>1. k \in 0..m /\ k # 0
    BY <1>1
  <2> QED BY <1>8, <2>1
<1> QED BY <1>2, <1>9, <1>10 DEF m

(* So the series holds the latest of the old values and the new.           *)
LEMMA AppendAllLatest ==
  ASSUME NEW p \in Seq(Int), NEW vs \in Seq(Int), NEW w, IsLatest(w, p, Len(p))
  PROVE  IsLatest(AppendAll(w, vs), p \o vs, Len(p \o vs))
<1> DEFINE q == p \o vs
           l == Len(p)
           m == Len(vs)
<1>1. /\ q \in Seq(Int) /\ l \in Nat /\ m \in Nat /\ Len(q) = l + m
      /\ \A i \in 1..l : q[i] = p[i]
      /\ \A i \in 1..m : q[l + i] = vs[i]
  OBVIOUS
<1>2. w \in Seq(Int)
  BY DEF IsLatest
<1>3. PICK f : /\ f[0] = w /\ AppendAll(w, vs) = f[m]
               /\ \A k \in 1..m : f[k] = AppendValue(f[k - 1], vs[k])
  BY <1>2, AppendAllLoop
<1>4. IsLatest(w, p, l)
  OBVIOUS
<1> HIDE DEF q, l, m
<1> DEFINE T == {n \in 0..m : IsLatest(f[n], q, l + n)}
<1>5. 0 \in T
  <2>1. /\ w \in Seq(Int) /\ Len(w) = IF l <= SeriesCapacity THEN l ELSE SeriesCapacity
        /\ \A i \in 1..Len(w) : w[i] = p[l - Len(w) + i]
    BY <1>4 DEF IsLatest
  <2>2. ASSUME NEW i \in 1..Len(w) PROVE w[i] = q[l - Len(w) + i]
    <3>1. Len(w) \in Nat /\ Len(w) <= l
      BY <1>1, <2>1, SizesAssumption
    <3>2. l - Len(w) + i \in 1..l
      BY <1>1, <3>1
    <3> QED BY <1>1, <2>1, <3>2
  <2>3. IsLatest(w, q, l)
    BY <2>1, <2>2 DEF IsLatest
  <2>4. l + 0 = l /\ 0 \in 0..m
    BY <1>1
  <2>5. IsLatest(f[0], q, l + 0)
    BY <1>3, <2>3, <2>4
  <2> QED BY <2>4, <2>5
<1>6. ASSUME NEW n \in 1..m, n - 1 \in T PROVE n \in T
  <2>1. n \in 0..m /\ l + n \in 1..Len(q) /\ l + n - 1 = l + (n - 1)
    BY <1>1
  <2>2. IsLatest(f[n - 1], q, l + n - 1)
    BY <1>6, <2>1
  <2>3. q[l + n] = vs[n]
    BY <1>1
  <2>4. IsLatest(AppendValue(f[n - 1], q[l + n]), q, l + n)
    <3> DEFINE k == l + n
               u == f[n - 1]
    <3>1. k \in 1..Len(q) /\ IsLatest(u, q, k - 1) /\ q \in Seq(Int)
      BY <1>1, <2>1, <2>2
    <3> HIDE DEF k, u
    <3>2. IsLatest(AppendValue(u, q[k]), q, k)
      BY <3>1, AppendValueLatest
    <3> QED BY <3>2 DEF k, u
  <2>5. IsLatest(f[n], q, l + n)
    BY <1>3, <2>3, <2>4
  <2> QED BY <2>1, <2>5
<1>7. m \in T
  <2> HIDE DEF T
  <2>1. m \in Nat /\ m \in 0..m
    BY <1>1
  <2>2. \A n \in 0..m : n \in T
    BY <1>5, <1>6, <2>1, Induction
  <2> QED BY <2>1, <2>2
<1>8. IsLatest(f[m], q, Len(q))
  BY <1>1, <1>7
<1> QED BY <1>3, <1>8 DEF q

(* What HandleSample finds and appends.                                    *)
LEMMA RoutedKeeps ==
  ASSUME NEW q \in Seq(Metrics), NEW s \in Series
  PROVE  /\ Routed(s, q) \in Seq(Int)
         /\ s = "disk.io_bps" => Len(Routed(s, q)) <= 1
         /\ s # "disk.io_bps" => Len(Routed(s, q)) <= Hits(q, s)
         /\ (\E id \in Sources(s) : Named(q, id)) => Len(Routed(s, q)) >= 1
<1> DEFINE found == Only(q, Sources(s))
           vs == [n \in DOMAIN found |-> found[n].value]
<1>1. found \in Seq(Metrics)
  BY OnlyKeeps
<1>8. (\E id \in Sources(s) : Named(q, id)) => Len(found) >= 1
  <2> SUFFICES ASSUME NEW id \in Sources(s), Named(q, id) PROVE Len(found) >= 1
    OBVIOUS
  <2>1. PICK x \in Elems(q) : x.id = id
    BY DEF Named
  <2>2. x \in Elems(found)
    BY <2>1, OnlyKeeps
  <2> HIDE DEF found
  <2>3. Len(found) \in Nat
    BY <1>1
  <2> QED BY <2>2, <2>3 DEF Elems
<1>2. Found(s, q) = vs
  BY DEF Found
<1>3. s # "disk.io_bps" => Len(found) <= Hits(q, s)
  <2>1. s # "disk.io_bps" => found = Only(q, {s})
    BY DEF Sources
  <2> HIDE DEF found
  <2> QED BY <2>1, OnlyLen
<1> HIDE DEF found
<1>4. vs \in Seq(Int) /\ Len(vs) = Len(found)
  <2>1. Len(found) \in Nat /\ DOMAIN found = 1..Len(found)
          /\ \A n \in 1..Len(found) : found[n] \in Metrics
    BY <1>1
  <2>2. vs \in [1..Len(found) -> Int]
    BY <2>1 DEF Metrics
  <2> HIDE DEF vs
  <2> QED BY <2>1, <2>2, FcnIsSeq
<1> HIDE DEF vs
<1>5. CASE s = "disk.io_bps" /\ vs # << >>
  <2>1. Routed(s, q) = <<Total(vs)>>
    BY <1>2, <1>5 DEF Routed
  <2>2. Total(vs) \in Int
    BY <1>4, TotalType
  <2>3. \A x \in Int : <<x>> \in Seq(Int) /\ Len(<<x>>) <= 1 /\ Len(<<x>>) >= 1
    OBVIOUS
  <2>4. Routed(s, q) \in Seq(Int) /\ Len(Routed(s, q)) <= 1 /\ Len(Routed(s, q)) >= 1
    BY <2>1, <2>2, <2>3
  <2> QED BY <1>5, <2>4
<1>6. CASE s = "disk.io_bps" /\ vs = << >>
  <2>1. Routed(s, q) = << >>
    BY <1>2, <1>6 DEF Routed
  <2>2. << >> \in Seq(Int) /\ Len(<< >>) <= 1
    OBVIOUS
  <2>3. Routed(s, q) \in Seq(Int) /\ Len(Routed(s, q)) <= 1
    BY <2>1, <2>2
  <2>4. ~(Len(found) >= 1)
    BY <1>4, <1>6
  <2> QED BY <1>6, <1>8, <2>3, <2>4
<1>7. CASE s # "disk.io_bps"
  <2>1. Routed(s, q) = vs
    BY <1>2, <1>7 DEF Routed
  <2> QED BY <1>3, <1>4, <1>7, <1>8, <2>1
<1> QED BY <1>5, <1>6, <1>7

-----------------------------------------------------------------------------
(* The points of a curve, each with the time of its sample.                *)
Points == [time : Nat, value : Int]

Values(p) == [i \in 1..Len(p) |-> p[i].value]
Stamped(new, t) == [n \in DOMAIN new |-> [time |-> t, value |-> new[n]]]

Ordered(p) == \A i, j \in 1..Len(p) : i < j => p[i].time <= p[j].time
Apart(p, k) == k = 1 => \A i, j \in 1..Len(p) : i < j => p[i].time # p[j].time
Before(p, t) == \A i \in 1..Len(p) : p[i].time < t

(* q is p with the values new of time t.                                   *)
Grown(q, p, new, t) ==
  /\ q \in Seq(Points) /\ Len(q) = Len(p) + Len(new)
  /\ \A i \in 1..Len(p) : q[i] = p[i]
  /\ \A i \in 1..Len(new) : q[Len(p) + i] = [time |-> t, value |-> new[i]]

(* The new points of a sample.                                             *)
LEMMA StampedKeeps ==
  ASSUME NEW p \in Seq(Points), NEW new \in Seq(Int), NEW t \in Nat,
         NEW q, q = p \o Stamped(new, t)
  PROVE  Grown(q, p, new, t)
<1> DEFINE st == Stamped(new, t)
           m == Len(new)
<1>1. m \in Nat /\ DOMAIN new = 1..m /\ \A i \in 1..m : new[i] \in Int
  OBVIOUS
<1>2. st = [n \in 1..m |-> [time |-> t, value |-> new[n]]]
  BY <1>1 DEF Stamped
<1>3. st \in [1..m -> Points]
  BY <1>1, <1>2 DEF Points
<1> HIDE DEF m, st
<1>4. st \in Seq(Points) /\ Len(st) = m
  BY <1>1, <1>3, FcnIsSeq
<1>0. q = p \o st
  BY DEF st
<1>5. /\ q \in Seq(Points) /\ Len(q) = Len(p) + Len(st)
      /\ \A i \in 1..Len(p) : q[i] = p[i]
      /\ \A i \in 1..Len(st) : q[Len(p) + i] = st[i]
  <2> DEFINE S == Points
  <2>1. p \in Seq(S) /\ st \in Seq(S)
    BY <1>4
  <2> HIDE DEF S
  <2>2. /\ q \in Seq(S) /\ Len(q) = Len(p) + Len(st)
        /\ \A i \in 1..Len(p) : q[i] = p[i]
        /\ \A i \in 1..Len(st) : q[Len(p) + i] = st[i]
    BY <1>0, <2>1
  <2> QED BY <2>2 DEF S
<1>6. \A i \in 1..m : st[i] = [time |-> t, value |-> new[i]]
  BY <1>2
<1> QED BY <1>4, <1>5, <1>6 DEF m, Grown

(* Points of a later sample leave those before them alone.                 *)
LEMMA CurveGrows ==
  ASSUME NEW p \in Seq(Points), NEW new \in Seq(Int), NEW t \in Nat, NEW k \in Nat,
         Ordered(p), Apart(p, k), Before(p, t), Len(new) <= k,
         NEW q, Grown(q, p, new, t)
  PROVE  Ordered(q) /\ Apart(q, k) /\ Before(q, t + 1)
<1> DEFINE l == Len(p)
           m == Len(new)
<1>1. /\ q \in Seq(Points) /\ Len(q) = l + m /\ l \in Nat /\ m \in Nat
      /\ \A i \in 1..l : q[i] = p[i]
      /\ \A i \in 1..m : q[l + i] = [time |-> t, value |-> new[i]]
  BY DEF Grown
<1>0. \A i \in 1..l : p[i] \in Points
  OBVIOUS
<1>2. /\ \A i \in 1..l : p[i].time \in Nat /\ p[i].time < t
      /\ \A i, j \in 1..l : i < j => p[i].time <= p[j].time
      /\ k = 1 => \A i, j \in 1..l : i < j => p[i].time # p[j].time
      /\ m <= k
  <2>1. \A i \in 1..l : p[i].time \in Nat
    BY <1>0 DEF Points
  <2>2. \A i \in 1..l : p[i].time < t
    BY DEF Before
  <2>3. \A i, j \in 1..l : i < j => p[i].time <= p[j].time
    BY DEF Ordered
  <2>4. k = 1 => \A i, j \in 1..l : i < j => p[i].time # p[j].time
    BY DEF Apart
  <2> QED BY <2>1, <2>2, <2>3, <2>4
<1> HIDE DEF l, m
<1>3. ASSUME NEW i \in (l + 1)..(l + m) PROVE q[i].time = t
  <2>1. i - l \in 1..m /\ i = l + (i - l)
    BY <1>1
  <2>2. q[i] = [time |-> t, value |-> new[i - l]]
    BY <1>1, <2>1
  <2> QED BY <2>2
<1>4. 1..Len(q) = (1..l) \cup ((l + 1)..(l + m)) /\ (1..l) \cap ((l + 1)..(l + m)) = {}
  BY <1>1
<1>5. Ordered(q)
  <2> SUFFICES ASSUME NEW i \in 1..Len(q), NEW j \in 1..Len(q), i < j
               PROVE  q[i].time <= q[j].time
    BY DEF Ordered
  <2>1. CASE j \in 1..l
    <3>1. i \in 1..l
      BY <1>1, <2>1
    <3> QED BY <1>1, <1>2, <2>1, <3>1
  <2>2. CASE j \notin 1..l
    <3>1. q[j].time = t
      BY <1>3, <1>4, <2>2
    <3>2. CASE i \in 1..l
      <4>1. q[i].time \in Nat /\ q[i].time < t
        BY <1>1, <1>2, <3>2
      <4> QED BY <3>1, <4>1
    <3>3. CASE i \notin 1..l
      <4>1. q[i].time = t
        BY <1>3, <1>4, <3>3
      <4> QED BY <3>1, <4>1
    <3> QED BY <3>2, <3>3
  <2> QED BY <2>1, <2>2
<1>6. Before(q, t + 1)
  <2> SUFFICES ASSUME NEW i \in 1..Len(q) PROVE q[i].time < t + 1
    BY DEF Before
  <2>1. CASE i \in 1..l
    <3>1. q[i].time \in Nat /\ q[i].time < t
      BY <1>1, <1>2, <2>1
    <3> QED BY <3>1
  <2>2. CASE i \notin 1..l
    <3>1. q[i].time = t
      BY <1>3, <1>4, <2>2
    <3> QED BY <3>1
  <2> QED BY <2>1, <2>2
<1>7. Apart(q, k)
  <2> SUFFICES ASSUME k = 1, NEW i \in 1..Len(q), NEW j \in 1..Len(q), i < j
               PROVE  q[i].time # q[j].time
    BY DEF Apart
  <2>1. i \in 1..l
    BY <1>1, <1>2
  <2>2. CASE j \in 1..l
    BY <1>1, <1>2, <2>1, <2>2
  <2>3. CASE j \notin 1..l
    <3>1. q[j].time = t
      BY <1>3, <1>4, <2>3
    <3>2. q[i].time \in Nat /\ q[i].time < t
      BY <1>1, <1>2, <2>1
    <3> QED BY <3>1, <3>2
  <2> QED BY <2>2, <2>3
<1> QED BY <1>5, <1>6, <1>7

(* A concatenation of integers.                                            *)
LEMMA Concat ==
  ASSUME NEW v \in Seq(Int), NEW u \in Seq(Int)
  PROVE  /\ v \o u \in Seq(Int) /\ Len(v \o u) = Len(v) + Len(u)
         /\ \A i \in 1..Len(v) : (v \o u)[i] = v[i]
         /\ \A i \in 1..Len(u) : (v \o u)[Len(v) + i] = u[i]
  OBVIOUS

(* The values of the points, old and new.                                  *)
LEMMA ValuesGrow ==
  ASSUME NEW p \in Seq(Points), NEW new \in Seq(Int), NEW t, NEW q, Grown(q, p, new, t)
  PROVE  Values(p) \in Seq(Int) /\ Len(Values(p)) = Len(p) /\ Values(q) = Values(p) \o new
<1> DEFINE l == Len(p)
           m == Len(new)
           v == Values(p)
           r == v \o new
<1>1. /\ Len(q) = l + m /\ l \in Nat /\ m \in Nat
      /\ \A i \in 1..l : q[i] = p[i]
      /\ \A i \in 1..m : q[l + i] = [time |-> t, value |-> new[i]]
  BY DEF Grown
<1>2. \A i \in 1..l : p[i] \in Points
  OBVIOUS
<1>3. v \in [1..l -> Int] /\ \A i \in 1..l : v[i] = p[i].value
  BY <1>2 DEF Values, Points
<1> HIDE DEF v, l
<1>4. v \in Seq(Int) /\ Len(v) = l
  BY <1>1, <1>3, FcnIsSeq
<1>5. /\ r \in Seq(Int) /\ Len(r) = l + m
      /\ \A i \in 1..l : r[i] = v[i]
      /\ \A i \in 1..m : r[l + i] = new[i]
  BY <1>4, Concat
<1> HIDE DEF r, m
<1>6. ASSUME NEW i \in 1..(l + m) PROVE r[i] = q[i].value
  <2>1. CASE i <= l
    <3>1. i \in 1..l
      BY <1>1, <2>1
    <3> QED BY <1>1, <1>3, <1>5, <3>1
  <2>2. CASE ~(i <= l)
    <3>1. i - l \in 1..m /\ i = l + (i - l)
      BY <1>1, <2>2
    <3>2. r[i] = new[i - l] /\ q[i] = [time |-> t, value |-> new[i - l]]
      BY <1>1, <1>5, <3>1
    <3> QED BY <3>2
  <2> QED BY <2>1, <2>2
<1>7. Values(q) = [i \in 1..(l + m) |-> q[i].value]
  BY <1>1 DEF Values
<1>8. r = [i \in 1..(l + m) |-> r[i]]
  BY <1>1, <1>5
<1>9. Values(q) = r
  <2>1. [i \in 1..(l + m) |-> q[i].value] = [i \in 1..(l + m) |-> r[i]]
    BY <1>6
  <2> QED BY <1>7, <1>8, <2>1
<1> QED BY <1>4, <1>9 DEF r, v, l

(* Earlier is earlier.                                                     *)
LEMMA BeforeMono ==
  ASSUME NEW p \in Seq(Points), NEW t \in Nat, NEW u \in Nat, t <= u, Before(p, t)
  PROVE  Before(p, u)
<1> SUFFICES ASSUME NEW i \in 1..Len(p) PROVE p[i].time < u
  BY DEF Before
<1>1. p[i] \in Points /\ p[i].time < t
  BY DEF Before
<1>2. p[i].time \in Nat
  BY <1>1 DEF Points
<1> QED BY <1>1, <1>2

(* A curve as HandleSample leaves it.                                      *)
CurveOK(w, p, s) ==
  /\ p \in Seq(Points) /\ IsLatest(w, Values(p), Len(p))
  /\ Ordered(p) /\ Apart(p, Most(s))

(* The metrics of a sample, as Loop and ToProto leave them.                *)
SampleOK(q) == q \in Seq(Metrics) /\ \A s \in Curves : Hits(q, s) <= Most(s)

HasPoint(p, t) == \E i \in 1..Len(p) : p[i].time = t

(* One sample, one curve.                                                  *)
LEMMA HandleKeepsCurve ==
  ASSUME NEW s \in Series, NEW w, NEW p, CurveOK(w, p, s), NEW q, SampleOK(q),
         NEW t \in Nat, Before(p, t)
  PROVE  /\ CurveOK(AppendAll(w, Routed(s, q)), p \o Stamped(Routed(s, q), t), s)
         /\ Before(p \o Stamped(Routed(s, q), t), t + 1)
         /\ \A i \in 1..Len(p) : HasPoint(p \o Stamped(Routed(s, q), t), p[i].time)
         /\ (\E id \in Sources(s) : Named(q, id)) => HasPoint(p \o Stamped(Routed(s, q), t), t)
<1> DEFINE new == Routed(s, q)
           r == p \o Stamped(new, t)
<1>1. p \in Seq(Points) /\ IsLatest(w, Values(p), Len(p)) /\ Ordered(p) /\ Apart(p, Most(s))
  BY DEF CurveOK
<1>2. q \in Seq(Metrics) /\ \A c \in Curves : Hits(q, c) <= Most(c)
  BY DEF SampleOK
<1>3. Most(s) \in Nat /\ Most(s) >= 1
  BY DevicesAssumption DEF Most
<1>4. new \in Seq(Int)
  BY <1>2, RoutedKeeps
<1>5. Len(new) <= Most(s)
  <2>1. Len(new) \in Nat
    BY <1>4
  <2>2. CASE s = "disk.io_bps"
    <3>1. Len(new) <= 1
      BY <1>2, <2>2, RoutedKeeps
    <3> HIDE DEF new
    <3> QED BY <1>3, <2>1, <3>1
  <2>3. CASE s # "disk.io_bps"
    <3>1. Len(new) <= Hits(q, s)
      BY <1>2, <2>3, RoutedKeeps
    <3>2. s \in Curves
      BY <2>3 DEF Curves
    <3>3. Hits(q, s) <= Most(s) /\ Hits(q, s) \in Nat
      BY <1>2, <3>2, NoHit
    <3> HIDE DEF new
    <3> QED BY <1>3, <2>1, <3>1, <3>3
  <2> QED BY <2>2, <2>3
<1>13. (\E id \in Sources(s) : Named(q, id)) => Len(new) >= 1
  BY <1>2, RoutedKeeps
<1> HIDE DEF new
<1>6. Grown(r, p, new, t)
  BY <1>1, <1>4, StampedKeeps
<1> HIDE DEF r
<1>7. Ordered(r) /\ Apart(r, Most(s)) /\ Before(r, t + 1)
  BY <1>1, <1>3, <1>4, <1>5, <1>6, CurveGrows
<1>8. Values(p) \in Seq(Int) /\ Len(Values(p)) = Len(p) /\ Values(r) = Values(p) \o new
  BY <1>1, <1>4, <1>6, ValuesGrow
<1>9. r \in Seq(Points) /\ Len(r) = Len(p) + Len(new)
  BY <1>6 DEF Grown
<1>10. IsLatest(AppendAll(w, new), Values(p) \o new, Len(Values(p) \o new))
  <2> DEFINE v == Values(p)
  <2>1. v \in Seq(Int) /\ IsLatest(w, v, Len(v))
    BY <1>1, <1>8
  <2> HIDE DEF v
  <2>2. IsLatest(AppendAll(w, new), v \o new, Len(v \o new))
    BY <1>4, <2>1, AppendAllLatest
  <2> QED BY <2>2 DEF v
<1>11. Len(Values(p) \o new) = Len(r)
  <2> DEFINE v == Values(p)
  <2>1. v \in Seq(Int) /\ Len(v) = Len(p) /\ Len(r) = Len(p) + Len(new)
    BY <1>8, <1>9
  <2> HIDE DEF v
  <2>2. Len(v \o new) = Len(v) + Len(new)
    BY <1>4, <2>1, Concat
  <2> QED BY <2>1, <2>2 DEF v
<1>12. CurveOK(AppendAll(w, new), r, s)
  BY <1>7, <1>8, <1>9, <1>10, <1>11 DEF CurveOK
<1>14. ASSUME NEW i \in 1..Len(p) PROVE HasPoint(r, p[i].time)
  <2>1. i \in 1..Len(r) /\ r[i] = p[i]
    BY <1>1, <1>4, <1>6 DEF Grown
  <2> QED BY <2>1 DEF HasPoint
<1>15. ASSUME Len(new) >= 1 PROVE HasPoint(r, t)
  <2>1. Len(p) + 1 \in 1..Len(r) /\ 1 \in 1..Len(new)
    BY <1>1, <1>4, <1>9, <1>15
  <2>2. r[Len(p) + 1] = [time |-> t, value |-> new[1]]
    BY <1>6, <2>1 DEF Grown
  <2>3. r[Len(p) + 1].time = t
    BY <2>2
  <2> QED BY <2>1, <2>3 DEF HasPoint
<1> QED BY <1>7, <1>12, <1>13, <1>14, <1>15 DEF r, new

-----------------------------------------------------------------------------
(* The rows of the notification list: the latest of all notifications,     *)
(* newest first.                                                           *)
Row == [number : Nat, level : {"info", "warn"}]

IsNewest(rs, ns) ==
  /\ rs \in Seq(Row) /\ ns \in Seq(Row)
  /\ Len(rs) = IF Len(ns) <= RowCapacity THEN Len(ns) ELSE RowCapacity
  /\ \A i \in 1..Len(rs) : rs[i] = ns[Len(ns) - i + 1]

(* One more notification.                                                  *)
LEMMA PushRowNewest ==
  ASSUME NEW rs, NEW ns, IsNewest(rs, ns), NEW r \in Row
  PROVE  IsNewest(PushRow(rs, r), Append(ns, r))
<1> DEFINE k == Len(rs)
           n == Len(ns)
           c == RowCapacity
           grown == <<r>> \o rs
           ms == Append(ns, r)
<1>1. /\ rs \in Seq(Row) /\ ns \in Seq(Row) /\ k \in Nat /\ n \in Nat
      /\ k = IF n <= c THEN n ELSE c
      /\ \A i \in 1..k : rs[i] = ns[n - i + 1]
  BY DEF IsNewest
<1>2. c \in Nat
  BY SizesAssumption
<1>3. /\ grown \in Seq(Row) /\ Len(grown) = k + 1 /\ grown[1] = r
      /\ \A i \in 2..(k + 1) : grown[i] = rs[i - 1]
  <2>1. <<r>> \in Seq(Row) /\ Len(<<r>>) = 1 /\ <<r>>[1] = r
    OBVIOUS
  <2> DEFINE o == <<r>>
             g == o \o rs
  <2>2. o \in Seq(Row) /\ Len(o) = 1 /\ o[1] = r
    BY <2>1
  <2> HIDE DEF o
  <2>3. /\ g \in Seq(Row) /\ Len(g) = Len(o) + Len(rs)
        /\ \A i \in 1..Len(o) : g[i] = o[i]
        /\ \A i \in 1..Len(rs) : g[Len(o) + i] = rs[i]
    <3> DEFINE S == Row
    <3>1. o \in Seq(S) /\ rs \in Seq(S)
      BY <1>1, <2>2
    <3> HIDE DEF S
    <3>2. /\ g \in Seq(S) /\ Len(g) = Len(o) + Len(rs)
          /\ \A i \in 1..Len(o) : g[i] = o[i]
          /\ \A i \in 1..Len(rs) : g[Len(o) + i] = rs[i]
      BY <3>1
    <3> QED BY <3>2 DEF S
  <2> HIDE DEF g
  <2>4. Len(g) = k + 1 /\ g[1] = r
    BY <1>1, <2>2, <2>3
  <2>5. ASSUME NEW i \in 2..(k + 1) PROVE g[i] = rs[i - 1]
    <3>1. i - 1 \in 1..k /\ 1 + (i - 1) = i
      BY <1>1
    <3> QED BY <2>2, <2>3, <3>1
  <2> QED BY <2>3, <2>4, <2>5 DEF g, o
<1>4. /\ ms \in Seq(Row) /\ Len(ms) = n + 1 /\ ms[n + 1] = r
      /\ \A i \in 1..n : ms[i] = ns[i]
  BY <1>1
<1>5. PushRow(rs, r) = IF Len(grown) > RowCapacity THEN Front(grown) ELSE grown
  BY DEF PushRow
<1> HIDE DEF k, n, c, grown, ms
<1>0. k \in Nat /\ n \in Nat /\ k <= n
  BY <1>1, <1>2
<1>6. ASSUME NEW i \in 1..(k + 1) PROVE grown[i] = ms[n + 1 - i + 1]
  <2>1. CASE i = 1
    <3>1. n + 1 - i + 1 = n + 1
      BY <1>1, <2>1
    <3> QED BY <1>3, <1>4, <2>1, <3>1
  <2>2. CASE i # 1
    <3>1. i \in 2..(k + 1) /\ i - 1 \in 1..k /\ n - (i - 1) + 1 = n + 1 - i + 1
      BY <1>0, <2>2
    <3>2. n + 1 - i + 1 \in 1..n
      BY <1>0, <3>1
    <3> QED BY <1>1, <1>3, <1>4, <3>1, <3>2
  <2> QED BY <2>1, <2>2
<1>7. CASE k + 1 > c
  <2>1. k = c /\ n >= c
    BY <1>1, <1>2, <1>7
  <2>2. PushRow(rs, r) = Front(grown)
    BY <1>3, <1>5, <1>7 DEF c
  <2>3. Front(grown) = SubSeq(grown, 1, k)
    <3>1. Len(grown) - 1 = k
      BY <1>1, <1>3
    <3> QED BY <3>1 DEF Front
  <2>4. /\ SubSeq(grown, 1, k) \in Seq(Row) /\ Len(SubSeq(grown, 1, k)) = k
        /\ \A i \in 1..k : SubSeq(grown, 1, k)[i] = grown[i]
    BY <1>1, <1>3
  <2> DEFINE f == Front(grown)
  <2>5. f \in Seq(Row) /\ Len(f) = k /\ \A i \in 1..k : f[i] = grown[i]
    BY <2>3, <2>4
  <2> HIDE DEF f
  <2>6. \A i \in 1..Len(f) : f[i] = ms[Len(ms) - i + 1]
    <3> SUFFICES ASSUME NEW i \in 1..Len(f) PROVE f[i] = ms[Len(ms) - i + 1]
      OBVIOUS
    <3>1. i \in 1..k /\ i \in 1..(k + 1)
      BY <1>1, <2>5
    <3>2. Len(ms) - i + 1 = n + 1 - i + 1
      <4>1. Len(ms) = n + 1
        BY <1>4
      <4> QED BY <1>0, <3>1, <4>1
    <3> QED BY <1>6, <2>5, <3>1, <3>2
  <2>7. Len(f) = IF Len(ms) <= RowCapacity THEN Len(ms) ELSE RowCapacity
    <3>1. ~(n + 1 <= c) /\ Len(ms) = n + 1 /\ Len(f) = c
      BY <1>1, <1>2, <1>4, <2>1, <2>5
    <3> QED BY <3>1 DEF c
  <2>8. IsNewest(f, ms)
    BY <1>4, <2>5, <2>6, <2>7 DEF IsNewest
  <2> QED BY <2>2, <2>8 DEF f, ms
<1>8. CASE ~(k + 1 > c)
  <2>1. k = n /\ n + 1 <= c
    BY <1>1, <1>2, <1>8
  <2>2. PushRow(rs, r) = grown
    BY <1>3, <1>5, <1>8 DEF c
  <2>3. \A i \in 1..Len(grown) : grown[i] = ms[Len(ms) - i + 1]
    <3>1. Len(grown) = k + 1 /\ Len(ms) = n + 1
      BY <1>3, <1>4
    <3> QED BY <1>0, <1>6, <3>1
  <2>4. Len(grown) = IF Len(ms) <= RowCapacity THEN Len(ms) ELSE RowCapacity
    <3>1. Len(ms) <= c /\ Len(grown) = Len(ms)
      BY <1>3, <1>4, <2>1
    <3> QED BY <3>1 DEF c
  <2>5. IsNewest(grown, ms)
    BY <1>3, <1>4, <2>3, <2>4 DEF IsNewest
  <2> QED BY <2>2, <2>5 DEF ms
<1> QED BY <1>7, <1>8

-----------------------------------------------------------------------------
(* The inductive invariant of the client: the samples on the wire are in   *)
(* the order of their ticks and newer than every point, none is from the   *)
(* future, what was taken is shown, and the curves and the list show the   *)
(* latest.                                                                 *)
OnWire(w, n) ==
  /\ \A i \in 1..Len(w) : SampleOK(w[i].metrics) /\ w[i].time \in 1..n
  /\ \A i, j \in 1..Len(w) : i < j => w[i].time < w[j].time

Dated(p, w, n) ==
  Before(p, n + 1) /\ \A i \in 1..Len(w) : Before(p, w[i].time)

Shown(p, s) ==
  \A x \in taken : Sources(s) \cap x.offered # {} => HasPoint(p, x.time)

ClientInv ==
  /\ OnWire(wire, inputs)
  /\ \A s \in Series : /\ CurveOK(values[s], points[s], s)
                        /\ Dated(points[s], wire, inputs)
                        /\ Shown(points[s], s)
  /\ IsNewest(rows, notified)

(* At first nothing is shown.                                              *)
LEMMA ClientInit ==
  ASSUME Init
  PROVE  ClientInv
<1>1. inputs = 0 /\ wire = << >> /\ rows = << >> /\ notified = << >> /\ taken = {}
  BY DEF Init
<1>2. \A s \in Series : values[s] = << >> /\ points[s] = << >>
  BY DEF Init
<1>3. OnWire(wire, inputs)
  BY <1>1 DEF OnWire
<1>4. ASSUME NEW s \in Series PROVE CurveOK(values[s], points[s], s)
  <2>1. << >> \in Seq(Points) /\ << >> \in Seq(Int) /\ Len(<< >>) = 0
    OBVIOUS
  <2>2. IsLatest(<< >>, Values(<< >>), 0)
    BY <2>1, SizesAssumption DEF IsLatest
  <2>3. Ordered(<< >>) /\ Apart(<< >>, Most(s))
    BY <2>1 DEF Ordered, Apart
  <2> QED BY <1>2, <2>1, <2>2, <2>3 DEF CurveOK
<1>5. ASSUME NEW s \in Series PROVE Dated(points[s], wire, inputs) /\ Shown(points[s], s)
  <2>1. \A t : Before(<< >>, t)
    BY DEF Before
  <2> QED BY <1>1, <1>2, <2>1 DEF Dated, Shown
<1>6. IsNewest(rows, notified)
  <2>1. << >> \in Seq(Row) /\ Len(<< >>) = 0
    OBVIOUS
  <2>2. IsNewest(<< >>, << >>)
    BY <2>1, SizesAssumption DEF IsNewest
  <2> QED BY <1>1, <2>2
<1> QED BY <1>3, <1>4, <1>5, <1>6 DEF ClientInv

(* What is left of the wire is still in order, on a clock that goes on.    *)
LEMMA ThinnedKeeps ==
  ASSUME NEW v, NEW w \in Seq(Samples), Thinned(v, w), NEW n \in Nat, NEW m \in Nat, n <= m,
         OnWire(w, n)
  PROVE  /\ OnWire(v, m)
         /\ \A p \in Seq(Points) : Dated(p, w, n) => Dated(p, v, m)
<1>1. PICK e \in [1..Len(v) -> 1..Len(w)] :
        /\ \A i, j \in 1..Len(v) : i < j => e[i] < e[j]
        /\ \A i \in 1..Len(v) : v[i] = w[e[i]]
  BY DEF Thinned
<1>2. /\ \A i \in 1..Len(w) : SampleOK(w[i].metrics) /\ w[i].time \in 1..n
      /\ \A i, j \in 1..Len(w) : i < j => w[i].time < w[j].time
  BY DEF OnWire
<1>3. 1..n \subseteq 1..m
  OBVIOUS
<1>4. OnWire(v, m)
  BY <1>1, <1>2, <1>3 DEF OnWire
<1>5. ASSUME NEW p \in Seq(Points), Dated(p, w, n) PROVE Dated(p, v, m)
  <2>1. Before(p, n + 1) /\ \A i \in 1..Len(w) : Before(p, w[i].time)
    BY <1>5 DEF Dated
  <2>2. Before(p, m + 1)
    <3>1. n + 1 \in Nat /\ m + 1 \in Nat /\ n + 1 <= m + 1
      OBVIOUS
    <3> QED BY <2>1, <3>1, BeforeMono
  <2> QED BY <1>1, <2>1, <2>2 DEF Dated
<1> QED BY <1>4, <1>5

(* Steps that leave the curves alone.                                      *)
LEMMA CurvesRest ==
  ASSUME WholeInv, ClientInv, UNCHANGED <<values, points, taken>>, Thinned(wire', wire),
         inputs' = inputs \/ inputs' = inputs + 1, IsNewest(rows', notified')
  PROVE  ClientInv'
<1>1. inputs \in Nat /\ wire \in Seq(Samples) /\ OnWire(wire, inputs)
  BY DEF WholeInv, ClientInv
<1>2. PICK m : m = inputs'
  OBVIOUS
<1>3. m \in Nat /\ inputs <= m
  BY <1>1, <1>2
<1>4. /\ OnWire(wire', m)
      /\ \A p \in Seq(Points) : Dated(p, wire, inputs) => Dated(p, wire', m)
  BY <1>1, <1>3, ThinnedKeeps
<1>5. ASSUME NEW s \in Series
      PROVE  /\ CurveOK(values'[s], points'[s], s)
             /\ Dated(points'[s], wire', m)
             /\ Shown(points[s], s)'
  <2>1. CurveOK(values[s], points[s], s) /\ Dated(points[s], wire, inputs) /\ Shown(points[s], s)
    BY DEF ClientInv
  <2>2. points[s] \in Seq(Points)
    BY <2>1 DEF CurveOK
  <2>3. Shown(points[s], s)'
    BY <2>1 DEF Shown
  <2> QED BY <1>4, <2>1, <2>2, <2>3
<1> QED BY <1>2, <1>4, <1>5 DEF ClientInv

(* A turn of the loop puts a sample on the wire.                           *)
LEMMA TickKeeps ==
  ASSUME WholeInv, ClientInv, Tick
  PROVE  ClientInv'
<1>1. PICK a : IsAnswer(a) /\ WmiCount(a) /\ wire' = Append(wire, Sample(inputs + 1, a))
  BY TickSends
<1>2. UNCHANGED <<values, rows, points, taken, notified>>
  BY TickSends
<1>3. inputs' = inputs + 1 /\ inputs \in Nat /\ wire \in Seq(Samples) /\ OnWire(wire, inputs)
  BY TickSends DEF WholeInv, ClientInv
<1> DEFINE x == Sample(inputs + 1, a)
           m == inputs + 1
<1>4. x \in Samples
  BY <1>1, <1>3, SampleIsWhole DEF WholeInv
<1>5. SampleOK(x.metrics) /\ x.time = m
  BY <1>1, CollectKeeps DEF SampleOK, Sample
<1>6. wire' = Append(wire, x)
  BY <1>1
<1>7. m \in Nat /\ m + 1 \in Nat /\ inputs <= m /\ m <= m + 1 /\ m \in 1..m /\ m = inputs + 1
  BY <1>3
<1> HIDE DEF x, m
<1>8. /\ Len(wire') = Len(wire) + 1 /\ Len(wire) \in Nat /\ wire'[Len(wire) + 1] = x
      /\ \A i \in 1..Len(wire) : wire'[i] = wire[i]
  BY <1>3, <1>4, <1>6
<1>9. /\ OnWire(wire, m)
      /\ \A p \in Seq(Points) : Dated(p, wire, inputs) => Dated(p, wire, m)
  BY <1>3, <1>7, ThinnedSame, ThinnedKeeps
<1>10. /\ \A i \in 1..Len(wire) : SampleOK(wire[i].metrics) /\ wire[i].time \in 1..inputs
       /\ \A i, j \in 1..Len(wire) : i < j => wire[i].time < wire[j].time
  BY <1>3 DEF OnWire
<1>11. OnWire(wire', m)
  <2>1. ASSUME NEW i \in 1..Len(wire') PROVE SampleOK(wire'[i].metrics) /\ wire'[i].time \in 1..m
    <3>1. CASE i \in 1..Len(wire)
      BY <1>8, <1>9, <3>1 DEF OnWire
    <3>2. CASE i \notin 1..Len(wire)
      <4>1. i = Len(wire) + 1
        BY <1>8, <3>2
      <4> QED BY <1>5, <1>7, <1>8, <4>1
    <3> QED BY <3>1, <3>2
  <2>2. ASSUME NEW i \in 1..Len(wire'), NEW j \in 1..Len(wire'), i < j
        PROVE  wire'[i].time < wire'[j].time
    <3>1. i \in 1..Len(wire) /\ wire'[i] = wire[i]
      BY <1>8, <2>2
    <3>2. CASE j \in 1..Len(wire)
      BY <1>8, <1>10, <2>2, <3>1, <3>2
    <3>3. CASE j \notin 1..Len(wire)
      <4>1. j = Len(wire) + 1
        BY <1>8, <3>3
      <4>2. wire'[j].time = m /\ wire[i].time \in 1..inputs
        BY <1>5, <1>8, <1>10, <3>1, <4>1
      <4>3. PICK a1, b1 : a1 = wire'[i].time /\ b1 = wire'[j].time
        OBVIOUS
      <4>4. a1 \in 1..inputs /\ b1 = inputs + 1
        BY <1>7, <3>1, <4>2, <4>3
      <4>5. a1 < b1
        BY <1>3, <4>4
      <4> QED BY <4>3, <4>5
    <3> QED BY <3>2, <3>3
  <2> QED BY <2>1, <2>2 DEF OnWire
<1>12. ASSUME NEW s \in Series
       PROVE  /\ CurveOK(values'[s], points'[s], s)
              /\ Dated(points'[s], wire', m)
              /\ Shown(points[s], s)'
  <2>1. CurveOK(values[s], points[s], s) /\ Dated(points[s], wire, inputs) /\ Shown(points[s], s)
    BY DEF ClientInv
  <2>2. points[s] \in Seq(Points)
    BY <2>1 DEF CurveOK
  <2>3. Shown(points[s], s)'
    BY <1>2, <2>1 DEF Shown
  <2>4. Dated(points[s], wire, m)
    BY <1>9, <2>1, <2>2
  <2>5. Before(points[s], m)
    BY <1>7, <2>1 DEF Dated
  <2>6. ASSUME NEW i \in 1..Len(wire') PROVE Before(points[s], wire'[i].time)
    <3>1. CASE i \in 1..Len(wire)
      BY <1>8, <2>4, <3>1 DEF Dated
    <3>2. CASE i \notin 1..Len(wire)
      <4>1. i = Len(wire) + 1
        BY <1>8, <3>2
      <4>2. wire'[i].time = m
        BY <1>5, <1>8, <4>1
      <4> QED BY <2>5, <4>2
    <3> QED BY <3>1, <3>2
  <2>7. Dated(points[s], wire', m)
    BY <2>4, <2>6 DEF Dated
  <2> QED BY <1>2, <2>1, <2>3, <2>7
<1>13. IsNewest(rows', notified')
  BY <1>2 DEF ClientInv
<1>14. inputs' = m
  BY <1>3, <1>7
<1> QED BY <1>11, <1>12, <1>13, <1>14 DEF ClientInv

(* The client takes the oldest sample.                                     *)
LEMMA HandleKeeps ==
  ASSUME WholeInv, ClientInv, HandleSample
  PROVE  ClientInv'
<1>1. /\ wire # << >> /\ wire' = Tail(wire)
      /\ inputs' = inputs /\ rows' = rows /\ notified' = notified
  BY DEF HandleSample
<1>2. wire \in Seq(Samples) /\ inputs \in Nat /\ OnWire(wire, inputs)
  BY DEF WholeInv, ClientInv
<1> DEFINE x == Head(wire)
           t == x.time
           q == x.metrics
<1>3. ASSUME NEW s \in Series
      PROVE  /\ values'[s] = AppendAll(values[s], Routed(s, q))
             /\ points'[s] = points[s] \o Stamped(Routed(s, q), t)
  BY DEF HandleSample, Stamped
<1>4. taken' = taken \cup {[time |-> t, offered |-> x.offered]}
  BY DEF HandleSample
<1>5. x = wire[1] /\ 1 \in 1..Len(wire) /\ DOMAIN wire = 1..Len(wire) /\ Len(wire) \in Nat
  BY <1>1, <1>2
<1>6. /\ SampleOK(q) /\ t \in 1..inputs /\ \A i \in 2..Len(wire) : t < wire[i].time
      /\ \A i \in 1..Len(wire) : wire[i].time \in 1..inputs
  BY <1>2, <1>5 DEF OnWire
<1>7. Whole(x) /\ q \in Seq(Metrics)
  <2>1. Whole(wire[1])
    BY <1>5 DEF WholeInv, WholeSamples, Whole
  <2>2. q \in Seq(Metrics)
    BY <1>6 DEF SampleOK
  <2> QED BY <1>5, <2>1, <2>2
<1>8. \A id \in x.offered : Named(q, id)
  BY <1>7 DEF Whole, Named, Elems
<1> HIDE DEF x, t, q
<1>9. t \in Nat /\ t + 1 \in Nat /\ inputs + 1 \in Nat /\ t + 1 <= inputs + 1
  BY <1>2, <1>6
<1>10. /\ OnWire(wire', inputs)
       /\ Len(wire') = Len(wire) - 1 /\ \A i \in 1..Len(wire') : wire'[i] = wire[i + 1]
  <2>1. Thinned(wire', wire)
    BY <1>1, <1>2, ThinnedTail
  <2>2. Len(wire') = Len(wire) - 1 /\ \A i \in 1..Len(wire') : wire'[i] = wire[i + 1]
    BY <1>1, <1>2
  <2> QED BY <1>2, <2>1, <2>2, ThinnedKeeps
<1>11. ASSUME NEW s \in Series
       PROVE  /\ CurveOK(values'[s], points'[s], s)
              /\ Dated(points'[s], wire', inputs)
              /\ Shown(points[s], s)'
  <2> DEFINE p == points[s]
             r == points'[s]
  <2>1. CurveOK(values[s], p, s) /\ Dated(p, wire, inputs) /\ Shown(p, s)
    BY DEF ClientInv
  <2>2. Before(p, t)
    BY <1>5, <2>1 DEF Dated, t
  <2>3. /\ CurveOK(values'[s], r, s) /\ Before(r, t + 1)
        /\ \A i \in 1..Len(p) : HasPoint(r, p[i].time)
        /\ (\E id \in Sources(s) : Named(q, id)) => HasPoint(r, t)
    <3> DEFINE r0 == p \o Stamped(Routed(s, q), t)
               v0 == AppendAll(values[s], Routed(s, q))
    <3>1. /\ CurveOK(v0, r0, s) /\ Before(r0, t + 1)
          /\ \A i \in 1..Len(p) : HasPoint(r0, p[i].time)
          /\ (\E id \in Sources(s) : Named(q, id)) => HasPoint(r0, t)
      <4> HIDE DEF p
      <4> QED BY <1>6, <1>9, <2>1, <2>2, HandleKeepsCurve
    <3>2. r = r0 /\ values'[s] = v0
      BY <1>3
    <3> HIDE DEF r0, v0, p, r
    <3> QED BY <3>1, <3>2
  <2>4. r \in Seq(Points)
    BY <2>3 DEF CurveOK
  <2>5. Shown(points[s], s)'
    <3> SUFFICES ASSUME NEW y \in taken', Sources(s) \cap y.offered # {} PROVE HasPoint(r, y.time)
      BY DEF Shown
    <3>1. CASE y \in taken
      <4>1. HasPoint(p, y.time)
        BY <2>1, <3>1 DEF Shown
      <4> QED BY <2>3, <4>1 DEF HasPoint
    <3>2. CASE y = [time |-> t, offered |-> x.offered]
      <4>1. y.time = t /\ y.offered = x.offered
        BY <3>2
      <4> HIDE DEF r
      <4> QED BY <1>8, <2>3, <4>1
    <3> QED BY <1>4, <3>1, <3>2
  <2> HIDE DEF r, p
  <2>6. Before(r, inputs + 1)
    BY <1>9, <2>3, <2>4, BeforeMono
  <2>7. ASSUME NEW i \in 1..Len(wire') PROVE Before(r, wire'[i].time)
    <3>1. i + 1 \in 2..Len(wire) /\ i + 1 \in 1..Len(wire) /\ wire'[i] = wire[i + 1]
      BY <1>5, <1>10
    <3>2. PICK u : u = wire[i + 1].time
      OBVIOUS
    <3>3. u \in Nat /\ t + 1 <= u
      <4>1. t < u /\ u \in 1..inputs
        BY <1>6, <3>1, <3>2
      <4> QED BY <1>2, <1>9, <4>1
    <3>4. Before(r, u)
      BY <1>9, <2>3, <2>4, <3>3, BeforeMono
    <3> QED BY <3>1, <3>2, <3>4
  <2>8. Dated(r, wire', inputs)
    BY <2>6, <2>7 DEF Dated
  <2> QED BY <2>3, <2>5, <2>8 DEF r
<1>12. IsNewest(rows', notified')
  BY <1>1 DEF ClientInv
<1> QED BY <1>1, <1>10, <1>11, <1>12 DEF ClientInv

(* The notification list.                                                  *)
LEMMA RowsKeep ==
  ASSUME WholeInv, ClientInv, ClearNotifications \/ \E ok \in BOOLEAN : SwitchResult(ok)
  PROVE  IsNewest(rows', notified')
<1>1. inputs' = inputs + 1 /\ inputs \in Nat
  BY DEF ClearNotifications, SwitchResult, Notify, Input, WholeInv
<1>2. CASE ClearNotifications
  <2>1. rows' = << >> /\ notified' = << >>
    BY <1>2 DEF ClearNotifications
  <2>2. << >> \in Seq(Row) /\ Len(<< >>) = 0
    OBVIOUS
  <2>3. IsNewest(<< >>, << >>)
    BY <2>2, SizesAssumption DEF IsNewest
  <2> QED BY <2>1, <2>3
<1>3. ASSUME NEW ok \in BOOLEAN, SwitchResult(ok) PROVE IsNewest(rows', notified')
  <2> DEFINE row == [number |-> inputs', level |-> IF ok THEN "info" ELSE "warn"]
  <2>1. rows' = PushRow(rows, row) /\ notified' = Append(notified, row)
    BY <1>3 DEF SwitchResult, Notify
  <2>2. row \in Row
    BY <1>1 DEF Row
  <2> HIDE DEF row
  <2>3. IsNewest(rows, notified)
    BY DEF ClientInv
  <2> QED BY <2>1, <2>2, <2>3, PushRowNewest
<1> QED BY <1>2, <1>3

(* The client's invariant holds in every behaviour.                        *)
LEMMA ClientHolds == Spec => []ClientInv
<1>1. Init => ClientInv
  BY ClientInit
<1>2. WholeInv /\ ClientInv /\ [Next]_vars => ClientInv'
  <2> SUFFICES ASSUME WholeInv, ClientInv, [Next]_vars PROVE ClientInv'
    OBVIOUS
  <2>1. CASE Tick
    BY <2>1, TickKeeps
  <2>2. CASE HandleSample
    BY <2>2, HandleKeeps
  <2>3. CASE ~Tick /\ (ClearNotifications \/ \E ok \in BOOLEAN : SwitchResult(ok))
    <3>1. UNCHANGED <<values, points, taken>> /\ inputs' = inputs + 1
      BY <2>3 DEF ClearNotifications, SwitchResult, Notify, Input
    <3>2. IsNewest(rows', notified') /\ Thinned(wire', wire)
      BY <2>3, RowsKeep, StepThins
    <3> QED BY <3>1, <3>2, CurvesRest
  <2>4. CASE ~Tick /\ (ServiceStarts \/ ServiceDies \/ SampleLost \/ UNCHANGED vars)
    <3>1. UNCHANGED <<values, points, taken>> /\ inputs' = inputs /\ UNCHANGED <<rows, notified>>
      BY <2>4 DEF ServiceStarts, ServiceDies, SampleLost, vars, pathVars
    <3>2. Thinned(wire', wire)
      BY <2>4, StepThins
    <3>3. IsNewest(rows', notified')
      BY <3>1 DEF ClientInv
    <3> QED BY <3>1, <3>2, <3>3, CurvesRest
  <2> QED BY <2>1, <2>2, <2>3, <2>4 DEF Next
<1> QED BY <1>1, <1>2, WholeHolds, PTL DEF Spec

(* The points of every curve are in the order of the ticks, over a queue   *)
(* of samples on their way, lost ones and restarts of the service; every   *)
(* sample that arrives has its point where Windows offered the metric, and *)
(* only one unless PDH and devices share the series.                       *)
THEOREM CurvesAreFaithful == Spec => []CurvesFollowSamples
<1>1. ClientInv => CurvesFollowSamples
  <2> SUFFICES ASSUME ClientInv, NEW s \in Series
               PROVE  /\ \A i, j \in DOMAIN points[s] : i < j =>
                           /\ points[s][i].time <= points[s][j].time
                           /\ points[s][i].time = points[s][j].time => s \in SharedSeries
                      /\ \A x \in taken : Sources(s) \cap x.offered # {} =>
                           \E i \in DOMAIN points[s] : points[s][i].time = x.time
    BY DEF CurvesFollowSamples
  <2>1. /\ points[s] \in Seq(Points) /\ Ordered(points[s]) /\ Apart(points[s], Most(s))
        /\ Shown(points[s], s)
    BY DEF ClientInv, CurveOK
  <2>2. DOMAIN points[s] = 1..Len(points[s])
    BY <2>1
  <2>3. s \notin SharedSeries => Most(s) = 1
    BY DEF Most
  <2> QED BY <2>1, <2>2, <2>3 DEF Ordered, Apart, Shown, HasPoint
<1> QED BY <1>1, ClientHolds, PTL

(* The lesser of two numbers.                                              *)
LEMMA MinPair ==
  ASSUME NEW a \in Int, NEW b \in Int
  PROVE  Min({a, b}) = IF a <= b THEN a ELSE b
<1>1. \E x \in {a, b} : \A y \in {a, b} : x <= y
  OBVIOUS
<1>2. Min({a, b}) \in {a, b} /\ \A y \in {a, b} : Min({a, b}) <= y
  BY <1>1 DEF Min
<1> QED BY <1>2

(* A series holds the latest values of its points, oldest first, and the   *)
(* list the latest notifications, newest first, for any capacities: the    *)
(* client forgets from the right end and nothing else.                     *)
THEOREM LatestAreShown == Spec => []LatestShown
<1>1. ClientInv => LatestShown
  <2> SUFFICES ASSUME ClientInv PROVE LatestShown
    OBVIOUS
  <2>1. ASSUME NEW s \in Series
        PROVE  LET n == Len(points[s])
                   k == Min({n, SeriesCapacity})
               IN  values[s] = [i \in 1..k |-> points[s][n - k + i].value]
    <3> DEFINE p == points[s]
               w == values[s]
               n == Len(p)
               k == Min({n, SeriesCapacity})
    <3>1. p \in Seq(Points) /\ IsLatest(w, Values(p), n)
      BY DEF ClientInv, CurveOK
    <3>2. n \in Nat /\ SeriesCapacity \in Nat
      BY <3>1, SizesAssumption
    <3> HIDE DEF p, w
    <3>3. k = IF n <= SeriesCapacity THEN n ELSE SeriesCapacity
      <4> HIDE DEF n
      <4> QED BY <3>2, MinPair
    <3>4. w \in Seq(Int) /\ Len(w) = k /\ \A i \in 1..k : w[i] = Values(p)[n - k + i]
      <4> HIDE DEF n, k
      <4>1. /\ w \in Seq(Int) /\ Len(w) = IF n <= SeriesCapacity THEN n ELSE SeriesCapacity
            /\ \A i \in 1..Len(w) : w[i] = Values(p)[n - Len(w) + i]
        BY <3>1 DEF IsLatest
      <4> QED BY <3>3, <4>1
    <3>5. k \in Nat /\ k <= n
      <4> HIDE DEF n, k
      <4> QED BY <3>2, <3>3
    <3>6. \A j \in 1..n : Values(p)[j] = p[j].value
      BY DEF Values
    <3> HIDE DEF n, k
    <3>7. ASSUME NEW i \in 1..k PROVE w[i] = p[n - k + i].value
      <4>1. n - k + i \in 1..n
        BY <3>2, <3>5
      <4> QED BY <3>4, <3>6, <4>1
    <3>8. w = [i \in 1..k |-> w[i]]
      BY <3>4
    <3>9. w = [i \in 1..k |-> p[n - k + i].value]
      BY <3>7, <3>8
    <3> QED BY <3>9 DEF p, w, n, k
  <2>2. LET n == Len(notified)
        IN  rows = [i \in 1..Min({n, RowCapacity}) |-> notified[n - i + 1]]
    <3> DEFINE n == Len(notified)
               k == Min({n, RowCapacity})
    <3>1. /\ rows \in Seq(Row) /\ notified \in Seq(Row)
          /\ Len(rows) = IF n <= RowCapacity THEN n ELSE RowCapacity
          /\ \A i \in 1..Len(rows) : rows[i] = notified[n - i + 1]
      BY DEF ClientInv, IsNewest
    <3>2. n \in Nat /\ RowCapacity \in Nat
      BY <3>1, SizesAssumption
    <3> HIDE DEF n
    <3>3. k = Len(rows)
      BY <3>1, <3>2, MinPair
    <3> HIDE DEF k
    <3>4. rows = [i \in 1..k |-> rows[i]]
      BY <3>1, <3>3
    <3>5. rows = [i \in 1..k |-> notified[n - i + 1]]
      BY <3>1, <3>3, <3>4
    <3> QED BY <3>5 DEF n, k
  <2> QED BY <2>1, <2>2 DEF LatestShown
<1> QED BY <1>1, ClientHolds, PTL

-----------------------------------------------------------------------------
(* LineChart.                                                              *)

(* The greater of two numbers.                                             *)
LEMMA MaxPair ==
  ASSUME NEW a \in Int, NEW b \in Int
  PROVE  Max({a, b}) = IF a >= b THEN a ELSE b
<1>1. \E x \in {a, b} : \A y \in {a, b} : x >= y
  OBVIOUS
<1>2. Max({a, b}) \in {a, b} /\ \A y \in {a, b} : Max({a, b}) >= y
  BY <1>1 DEF Max
<1> QED BY <1>2

(* A size times a fraction.                                                *)
LEMMA Scale ==
  ASSUME NEW h \in Nat, NEW a \in Nat, NEW b \in Nat, a <= b
  PROVE  h * a \in Nat /\ h * b \in Nat /\ h * a <= h * b
<1>1. PICK d \in Nat : b = a + d
  <2>1. b - a \in Nat /\ b = a + (b - a)
    OBVIOUS
  <2> QED BY <2>1
<1>2. h * b = h * a + h * d
  BY <1>1
<1>3. h * a \in Nat /\ h * d \in Nat
  OBVIOUS
<1> QED BY <1>2, <1>3

(* The least and the greatest of some integers.                            *)
LEMMA Extremes ==
  ASSUME NEW vs \in Seq(Int), Len(vs) >= 1
  PROVE  /\ \E i \in 1..Len(vs) : \A j \in 1..Len(vs) : vs[i] <= vs[j]
         /\ \E i \in 1..Len(vs) : \A j \in 1..Len(vs) : vs[j] <= vs[i]
<1> DEFINE m == Len(vs)
           T == {n \in 0..m : n # 0 => /\ \E i \in 1..n : \A j \in 1..n : vs[i] <= vs[j]
                                       /\ \E i \in 1..n : \A j \in 1..n : vs[j] <= vs[i]}
<1>1. m \in Nat /\ m # 0 /\ \A i \in 1..m : vs[i] \in Int
  OBVIOUS
<1> HIDE DEF m
<1>2. 0 \in T
  BY <1>1
<1>3. ASSUME NEW n \in 1..m, n - 1 \in T PROVE n \in T
  <2>0. n \in 0..m /\ n # 0 /\ 1..n = (1..(n - 1)) \cup {n} /\ 1..n \subseteq 1..m /\ n \in 1..n
    BY <1>1
  <2>1. \A i \in 1..n : vs[i] \in Int
    BY <1>1, <2>0
  <2>2. CASE n = 1
    <3>1. 1..n = {1}
      BY <2>2
    <3>2. vs[1] <= vs[1]
      BY <2>1, <3>1
    <3> QED BY <2>0, <3>1, <3>2
  <2>3. CASE n # 1
    <3>1. PICK a \in 1..(n - 1) : \A j \in 1..(n - 1) : vs[a] <= vs[j]
      BY <1>3, <2>3
    <3>2. PICK b \in 1..(n - 1) : \A j \in 1..(n - 1) : vs[j] <= vs[b]
      BY <1>3, <2>3
    <3>3. \E i \in 1..n : \A j \in 1..n : vs[i] <= vs[j]
      <4>1. CASE vs[a] <= vs[n]
        BY <2>0, <3>1, <4>1
      <4>2. CASE ~(vs[a] <= vs[n])
        <5>1. \A j \in 1..n : vs[n] <= vs[j]
          BY <2>0, <2>1, <3>1, <4>2
        <5> QED BY <2>0, <5>1
      <4> QED BY <4>1, <4>2
    <3>4. \E i \in 1..n : \A j \in 1..n : vs[j] <= vs[i]
      <4>1. CASE vs[n] <= vs[b]
        BY <2>0, <3>2, <4>1
      <4>2. CASE ~(vs[n] <= vs[b])
        <5>1. \A j \in 1..n : vs[j] <= vs[n]
          BY <2>0, <2>1, <3>2, <4>2
        <5> QED BY <2>0, <5>1
      <4> QED BY <4>1, <4>2
    <3> QED BY <2>0, <3>3, <3>4
  <2> QED BY <2>2, <2>3
<1>4. m \in T
  <2> HIDE DEF T
  <2>1. m \in Nat /\ m \in 0..m
    BY <1>1
  <2>2. \A n \in 0..m : n \in T
    BY <1>2, <1>3, <2>1, Induction
  <2> QED BY <2>1, <2>2
<1> QED BY <1>1, <1>4 DEF m

(* The least and the greatest of a set that has them.                      *)
HasEnds(R) == (\E x \in R : \A y \in R : x <= y) /\ (\E x \in R : \A y \in R : x >= y)

LEMMA MinMax ==
  ASSUME NEW R, HasEnds(R)
  PROVE  /\ Min(R) \in R /\ \A y \in R : Min(R) <= y
         /\ Max(R) \in R /\ \A y \in R : Max(R) >= y
<1> DEFINE Lowest(x) == x \in R /\ \A y \in R : x <= y
           Highest(x) == x \in R /\ \A y \in R : x >= y
<1>1. Min(R) = CHOOSE x : Lowest(x)
  BY Zenon DEF Min
<1>2. Max(R) = CHOOSE x : Highest(x)
  BY Zenon DEF Max
<1> QED BY <1>1, <1>2, Zenon DEF HasEnds

(* The range of the values.                                                *)
LEMMA Extent ==
  ASSUME NEW vs \in Seq(Int), Len(vs) >= 1
  PROVE  /\ Min(Range(vs)) \in Int /\ Max(Range(vs)) \in Int
         /\ \A i \in 1..Len(vs) : Min(Range(vs)) <= vs[i] /\ vs[i] <= Max(Range(vs))
         /\ \E i \in 1..Len(vs) : vs[i] = Min(Range(vs))
         /\ \E i \in 1..Len(vs) : vs[i] = Max(Range(vs))
<1> DEFINE R == Range(vs)
           m == Len(vs)
<1>1. m \in Nat /\ DOMAIN vs = 1..m /\ \A i \in 1..m : vs[i] \in Int
  OBVIOUS
<1>2. \A x : x \in R <=> \E i \in 1..m : x = vs[i]
  BY <1>1 DEF Range
<1>3. (\E i \in 1..m : \A j \in 1..m : vs[i] <= vs[j]) /\ \E i \in 1..m : \A j \in 1..m : vs[j] <= vs[i]
  BY Extremes
<1> HIDE DEF R, m
<1>4. \E x \in R : \A y \in R : x <= y
  <2>1. PICK i \in 1..m : \A j \in 1..m : vs[i] <= vs[j]
    BY <1>3
  <2>2. ASSUME NEW y \in R PROVE vs[i] <= y
    BY <1>2, <2>1
  <2>3. vs[i] \in R
    BY <1>2
  <2> QED BY <2>2, <2>3
<1>5. \E x \in R : \A y \in R : x >= y
  <2>1. PICK i \in 1..m : \A j \in 1..m : vs[j] <= vs[i]
    BY <1>3
  <2>2. ASSUME NEW y \in R PROVE vs[i] >= y
    <3>1. PICK j \in 1..m : y = vs[j]
      BY <1>2
    <3> QED BY <1>1, <2>1, <3>1
  <2>3. vs[i] \in R
    BY <1>2
  <2> QED BY <2>2, <2>3
<1>0. HasEnds(R)
  BY <1>4, <1>5 DEF HasEnds
<1>6. Min(R) \in R /\ \A y \in R : Min(R) <= y
  BY <1>0, MinMax
<1>7. Max(R) \in R /\ \A y \in R : Max(R) >= y
  BY <1>0, MinMax
<1>8. \A x \in R : x \in Int
  BY <1>1, <1>2
<1>9. \A i \in 1..m : vs[i] \in R
  BY <1>2
<1>10. \A i \in 1..m : Min(R) <= vs[i] /\ vs[i] <= Max(R)
  BY <1>6, <1>7, <1>8, <1>9
<1> QED BY <1>2, <1>6, <1>7, <1>8, <1>10 DEF R, m

(* All values are the same.                                                *)
LEMMA Flat ==
  ASSUME NEW vs \in Seq(Int), Len(vs) >= 1
  PROVE  /\ Cardinality(Range(vs)) = 1 => Min(Range(vs)) = Max(Range(vs))
         /\ Cardinality(Range(vs)) > 1 => Min(Range(vs)) # Max(Range(vs))
<1> DEFINE R == Range(vs)
           m == Len(vs)
           lo == Min(R)
           hi == Max(R)
<1>1. m \in Nat /\ DOMAIN vs = 1..m /\ \A i \in 1..m : vs[i] \in Int
  OBVIOUS
<1>2. \A x : x \in R <=> \E i \in 1..m : x = vs[i]
  BY <1>1 DEF Range
<1>3. /\ lo \in Int /\ hi \in Int /\ \A i \in 1..m : lo <= vs[i] /\ vs[i] <= hi
      /\ \E i \in 1..m : vs[i] = lo
      /\ \E i \in 1..m : vs[i] = hi
  BY Extent
<1> HIDE DEF R, m, lo, hi
<1>4. IsFiniteSet(R)
  <2>1. vs \in Surjection(1..m, R)
    <3>1. vs \in [1..m -> R]
      BY <1>1, <1>2
    <3> QED BY <1>2, <3>1 DEF Surjection
  <2>2. IsFiniteSet(1..m)
    BY <1>1, FS_Interval
  <2> QED BY <2>1, <2>2, FS_Surjection
<1>5. lo \in R /\ hi \in R
  BY <1>2, <1>3
<1>6. Cardinality(R) = 1 => lo = hi
  <2> SUFFICES ASSUME Cardinality(R) = 1 PROVE lo = hi
    OBVIOUS
  <2>1. \E x : R = {x}
    BY <1>4, FS_Singleton
  <2> QED BY <1>5, <2>1
<1>7. Cardinality(R) > 1 => lo # hi
  <2> SUFFICES ASSUME lo = hi PROVE ~(Cardinality(R) > 1)
    OBVIOUS
  <2>1. \A i \in 1..m : vs[i] = lo
    BY <1>1, <1>3
  <2>2. R = {lo}
    BY <1>2, <1>5, <2>1
  <2>3. Cardinality(R) = 1
    BY <2>2, FS_Singleton
  <2> QED BY <2>3
<1> QED BY <1>6, <1>7 DEF R, lo, hi

(* The range of a chart is not empty; an automatic one has the values in   *)
(* it, up to its ends unless they are all the same.                        *)
LEMMA PaintRangeKeeps ==
  ASSUME NEW vs \in Seq(Int), Len(vs) >= 1, NEW auto \in BOOLEAN,
         NEW lo, lo = PaintRange(vs, auto).lo, NEW hi, hi = PaintRange(vs, auto).hi
  PROVE  /\ lo \in Int /\ hi \in Int /\ lo < hi
         /\ auto /\ Cardinality(Range(vs)) = 1 =>
              hi - lo = 2 /\ \A i \in 1..Len(vs) : vs[i] - lo = 1
         /\ auto /\ Cardinality(Range(vs)) > 1 =>
              (\E i \in 1..Len(vs) : vs[i] = hi) /\ (\E i \in 1..Len(vs) : vs[i] = lo)
<1> DEFINE m == Len(vs)
           a == Min(Range(vs))
           b == Max(Range(vs))
<1>1. /\ a \in Int /\ b \in Int /\ \A i \in 1..m : a <= vs[i] /\ vs[i] <= b
      /\ \E i \in 1..m : vs[i] = a
      /\ \E i \in 1..m : vs[i] = b
  BY Extent
<1>2. m \in Nat /\ m >= 1 /\ \A i \in 1..m : vs[i] \in Int
  OBVIOUS
<1>3. /\ Cardinality(Range(vs)) = 1 => a = b
      /\ Cardinality(Range(vs)) > 1 => a # b
  BY Flat
<1>4. a <= b
  BY <1>1, <1>2
<1>5. CASE ~auto
  <2>1. PaintRange(vs, auto) = [lo |-> 0, hi |-> Max({RangeMax, 1})]
    BY <1>5 DEF PaintRange
  <2>2. lo = 0 /\ hi = Max({RangeMax, 1})
    BY <2>1
  <2>3. RangeMax \in Int /\ 1 \in Int
    BY SizesAssumption
  <2>4. Max({RangeMax, 1}) = IF RangeMax >= 1 THEN RangeMax ELSE 1
    BY <2>3, MaxPair
  <2> QED BY <1>5, <2>2, <2>3, <2>4
<1>6. CASE auto /\ a = b
  <2>1. PaintRange(vs, auto) = [lo |-> a - 1, hi |-> b + 1]
    BY <1>6 DEF PaintRange
  <2>2. lo = a - 1 /\ hi = b + 1
    BY <2>1
  <2> HIDE DEF a, b, m
  <2>3. \A i \in 1..m : vs[i] = a
    BY <1>1, <1>2, <1>6
  <2>4. lo \in Int /\ hi \in Int /\ lo < hi /\ hi - lo = 2 /\ a - lo = 1
    <3>1. a \in Int /\ a = b
      BY <1>1, <1>6
    <3> QED BY ONLY <2>2, <3>1
  <2>5. \A i \in 1..m : vs[i] - lo = 1
    BY <2>3, <2>4
  <2>6. ~(Cardinality(Range(vs)) > 1)
    BY <1>3, <1>6
  <2> QED BY <2>4, <2>5, <2>6 DEF m
<1>7. CASE auto /\ a # b
  <2>1. PaintRange(vs, auto) = [lo |-> a, hi |-> b]
    BY <1>7 DEF PaintRange
  <2>2. lo = a /\ hi = b
    BY <2>1
  <2> HIDE DEF a, b, m
  <2>3. lo \in Int /\ hi \in Int /\ lo < hi
    <3>1. a \in Int /\ b \in Int /\ a <= b /\ a # b
      BY <1>1, <1>4, <1>7
    <3> QED BY ONLY <2>2, <3>1
  <2>4. Cardinality(Range(vs)) # 1
    BY <1>3, <1>7
  <2>5. (\E i \in 1..m : vs[i] = hi) /\ (\E i \in 1..m : vs[i] = lo)
    BY <1>1, <2>2
  <2> QED BY <2>3, <2>4, <2>5 DEF m
<1> QED BY <1>5, <1>6, <1>7

(* The clamped height of a value above lo.                                 *)
Clamp(span, d) == Max({0, Min({span, d})})

(* It is within the span, and where it is when it already was.             *)
LEMMA ClampKeeps ==
  ASSUME NEW span \in Nat, NEW d \in Int
  PROVE  Clamp(span, d) = IF d <= 0 THEN 0 ELSE IF d >= span THEN span ELSE d
<1> DEFINE u == Min({span, d})
<1>1. span \in Int /\ d \in Int /\ 0 \in Int
  OBVIOUS
<1>2. u = IF span <= d THEN span ELSE d
  BY <1>1, MinPair
<1>3. u \in Int
  BY <1>1, <1>2
<1>4. Clamp(span, d) = Max({0, u})
  BY DEF Clamp
<1> HIDE DEF u
<1>5. Max({0, u}) = IF 0 >= u THEN 0 ELSE u
  BY <1>1, <1>3, MaxPair
<1> QED BY <1>2, <1>3, <1>4, <1>5

(* A vertex of the line strip.                                             *)
LEMMA VertexKeeps ==
  ASSUME NEW vs \in Seq(Int), NEW auto \in BOOLEAN, NEW i \in 1..Len(vs),
         NEW lo, lo = PaintRange(vs, auto).lo, NEW hi, hi = PaintRange(vs, auto).hi
  PROVE  /\ Vertex(vs, auto, i).x = Width * (i - 1)
         /\ Vertex(vs, auto, i).xd = Len(vs) - 1
         /\ Vertex(vs, auto, i).y = Height * (hi - lo - Clamp(hi - lo, vs[i] - lo))
         /\ Vertex(vs, auto, i).yd = hi - lo
  BY DEF Vertex, Clamp

(* A picture of the values that DrawnInside speaks of.                     *)
InChart(ps, vs) ==
  \A i \in DOMAIN ps :
    /\ ps[i].xd > 0 /\ ps[i].yd > 0
    /\ ps[i].x \in 0..(Width * ps[i].xd) /\ ps[i].y \in 0..(Height * ps[i].yd)
    /\ \A j \in DOMAIN ps : vs[i] <= vs[j] => ps[j].y <= ps[i].y

Spans(ps) == ps[1].x = 0 /\ Last(ps).x = Width * Last(ps).xd

Fills(ps, vs, auto) ==
  /\ auto /\ Cardinality(Range(vs)) = 1 => 2 * ps[1].y = Height * ps[1].yd
  /\ auto /\ Cardinality(Range(vs)) > 1 =>
       \E i, j \in DOMAIN ps : ps[i].y = 0 /\ ps[j].y = Height * ps[j].yd

Inside(ps, vs, auto) == InChart(ps, vs) /\ Spans(ps) /\ Fills(ps, vs, auto)

(* The picture of a series: what updatePaintNode draws of any values.      *)
LEMMA DrawnKeeps ==
  ASSUME NEW vs \in Seq(Int), Len(vs) >= 2, NEW auto \in BOOLEAN,
         NEW ps, ps = [i \in DOMAIN vs |-> Vertex(vs, auto, i)]
  PROVE  Inside(ps, vs, auto)
<1> DEFINE m == Len(vs)
           lo == PaintRange(vs, auto).lo
           hi == PaintRange(vs, auto).hi
           span == hi - lo
           t(i) == Clamp(span, vs[i] - lo)
<1>1. m \in Nat /\ m >= 2 /\ DOMAIN vs = 1..m /\ \A i \in 1..m : vs[i] \in Int
  OBVIOUS
<1>2. Width \in Nat /\ Height \in Nat
  BY SizesAssumption
<1>3. /\ lo \in Int /\ hi \in Int /\ lo < hi
      /\ auto /\ Cardinality(Range(vs)) = 1 => hi - lo = 2 /\ \A i \in 1..m : vs[i] - lo = 1
      /\ auto /\ Cardinality(Range(vs)) > 1 =>
           (\E i \in 1..m : vs[i] = hi) /\ (\E i \in 1..m : vs[i] = lo)
  <2>1. m >= 1
    BY <1>1
  <2> HIDE DEF lo, hi
  <2>2. lo = PaintRange(vs, auto).lo /\ hi = PaintRange(vs, auto).hi
    BY DEF lo, hi
  <2> QED BY <2>1, <2>2, PaintRangeKeeps
<1>4. ASSUME NEW i \in 1..m
      PROVE  /\ ps[i].x = Width * (i - 1) /\ ps[i].xd = m - 1
             /\ ps[i].y = Height * (span - t(i)) /\ ps[i].yd = span
  <2>1. ps[i] = Vertex(vs, auto, i)
    BY <1>1
  <2> HIDE DEF lo, hi
  <2>2. lo = PaintRange(vs, auto).lo /\ hi = PaintRange(vs, auto).hi
    BY DEF lo, hi
  <2> QED BY <2>1, <2>2, VertexKeeps
<1>5. DOMAIN ps = 1..m /\ Len(ps) = m
  BY <1>1
<1> HIDE DEF lo, hi, m
<1>6. span \in Nat /\ span > 0
  BY <1>3
<1>7. ASSUME NEW i \in 1..m
      PROVE  /\ t(i) = IF vs[i] - lo <= 0 THEN 0 ELSE IF vs[i] - lo >= span THEN span ELSE vs[i] - lo
             /\ t(i) \in 0..span
  <2> DEFINE d == vs[i] - lo
  <2>1. d \in Int
    BY <1>1, <1>3
  <2>2. Clamp(span, d) = IF d <= 0 THEN 0 ELSE IF d >= span THEN span ELSE d
    <3> HIDE DEF d, span
    <3> QED BY <1>6, <2>1, ClampKeeps
  <2>3. Clamp(span, d) \in 0..span
    <3> HIDE DEF d, span
    <3> QED BY <1>6, <2>1, <2>2
  <2> QED BY <2>2, <2>3
<1> HIDE DEF span, t
<1>8. ASSUME NEW i \in 1..m PROVE ps[i].xd > 0 /\ ps[i].x \in 0..(Width * ps[i].xd)
  <2>1. i - 1 \in Nat /\ m - 1 \in Nat /\ i - 1 <= m - 1 /\ m - 1 > 0
    BY <1>1
  <2>2. Width * (i - 1) \in Nat /\ Width * (m - 1) \in Nat /\ Width * (i - 1) <= Width * (m - 1)
    BY <1>2, <2>1, Scale
  <2>3. Width * (i - 1) \in 0..(Width * (m - 1))
    BY <2>2
  <2> QED BY <1>4, <2>1, <2>3
<1>9. ASSUME NEW i \in 1..m PROVE ps[i].yd > 0 /\ ps[i].y \in 0..(Height * ps[i].yd)
  <2> DEFINE r == span - t(i)
  <2>1. r \in Nat /\ r <= span
    BY <1>6, <1>7
  <2> HIDE DEF r
  <2>2. Height * r \in Nat /\ Height * span \in Nat /\ Height * r <= Height * span
    BY <1>2, <1>6, <2>1, Scale
  <2>3. Height * r \in 0..(Height * span)
    BY <2>2
  <2>4. ps[i].y = Height * r /\ ps[i].yd = span
    BY <1>4 DEF r
  <2> QED BY <1>6, <2>3, <2>4
<1>10. ASSUME NEW i \in 1..m, NEW j \in 1..m, vs[i] <= vs[j] PROVE ps[j].y <= ps[i].y
  <2> DEFINE r == span - t(i)
             u == span - t(j)
  <2>1. t(i) <= t(j) /\ t(i) \in 0..span /\ t(j) \in 0..span
    <3> DEFINE d == vs[i] - lo
               e == vs[j] - lo
    <3>1. d \in Int /\ e \in Int /\ d <= e
      <4>1. vs[i] \in Int /\ vs[j] \in Int /\ lo \in Int
        BY <1>1, <1>3
      <4> QED BY <1>10, <4>1
    <3>2. t(i) = IF d <= 0 THEN 0 ELSE IF d >= span THEN span ELSE d
      BY <1>7
    <3>3. t(j) = IF e <= 0 THEN 0 ELSE IF e >= span THEN span ELSE e
      BY <1>7
    <3> HIDE DEF d, e
    <3>4. t(i) <= t(j)
      BY ONLY <1>6, <3>1, <3>2, <3>3
    <3> QED BY <1>7, <3>4
  <2>2. r \in Nat /\ u \in Nat /\ u <= r
    BY <1>6, <2>1
  <2> HIDE DEF r, u
  <2>3. Height * u <= Height * r
    BY <1>2, <2>2, Scale
  <2>4. ps[i].y = Height * r /\ ps[j].y = Height * u
    BY <1>4 DEF r, u
  <2> QED BY <2>3, <2>4
<1>11. ps[1].x = 0 /\ Last(ps).x = Width * Last(ps).xd
  <2>1. 1 \in 1..m /\ m \in 1..m
    BY <1>1
  <2>2. Last(ps) = ps[m]
    BY <1>5 DEF Last
  <2>3. ps[1].x = Width * (1 - 1)
    BY <1>4, <2>1
  <2>4. Width * (1 - 1) = 0
    BY <1>2
  <2> QED BY <1>4, <2>1, <2>2, <2>3, <2>4
<1>12. ASSUME auto, Cardinality(Range(vs)) = 1 PROVE 2 * ps[1].y = Height * ps[1].yd
  <2>1. 1 \in 1..m
    BY <1>1
  <2>2. span = 2 /\ vs[1] - lo = 1
    BY <1>3, <1>12, <2>1 DEF span
  <2>3. t(1) = 1
    BY <1>7, <2>1, <2>2
  <2>5. ps[1].y = Height * (span - t(1)) /\ ps[1].yd = span
    BY <1>4, <2>1
  <2>6. span - t(1) = 1
    BY <2>2, <2>3
  <2>4. ps[1].y = Height * 1 /\ ps[1].yd = 2
    BY <2>2, <2>5, <2>6
  <2> QED BY <1>2, <2>4
<1>13. ASSUME auto, Cardinality(Range(vs)) > 1
       PROVE  \E i, j \in 1..m : ps[i].y = 0 /\ ps[j].y = Height * ps[j].yd
  <2>1. PICK i \in 1..m : vs[i] = hi
    BY <1>3, <1>13
  <2>2. PICK j \in 1..m : vs[j] = lo
    BY <1>3, <1>13
  <2>3. vs[i] - lo = span /\ vs[j] - lo = 0
    BY <1>3, <2>1, <2>2 DEF span
  <2>4. t(i) = span /\ t(j) = 0
    <3>1. t(i) = IF vs[i] - lo <= 0 THEN 0 ELSE IF vs[i] - lo >= span THEN span ELSE vs[i] - lo
      BY <1>7
    <3>2. t(j) = IF vs[j] - lo <= 0 THEN 0 ELSE IF vs[j] - lo >= span THEN span ELSE vs[j] - lo
      BY <1>7
    <3> QED BY <1>6, <2>3, <3>1, <3>2
  <2>5. ps[i].y = Height * (span - span) /\ ps[j].y = Height * (span - 0) /\ ps[j].yd = span
    BY <1>4, <2>4
  <2>6. span - span = 0 /\ span - 0 = span /\ Height * 0 = 0
    BY <1>2, <1>6
  <2> QED BY <2>5, <2>6
<1>14. InChart(ps, vs)
  BY <1>5, <1>8, <1>9, <1>10 DEF InChart
<1>15. Fills(ps, vs, auto)
  <2>1. auto /\ Cardinality(Range(vs)) = 1 => 2 * ps[1].y = Height * ps[1].yd
    BY ONLY <1>12, Zenon
  <2>2. auto /\ Cardinality(Range(vs)) > 1 =>
          \E i, j \in 1..m : ps[i].y = 0 /\ ps[j].y = Height * ps[j].yd
    BY ONLY <1>13, Zenon
  <2>3. DOMAIN ps = 1..m
    BY <1>5
  <2> QED BY ONLY <2>1, <2>2, <2>3, Zenon DEF Fills
<1> QED BY <1>11, <1>14, <1>15 DEF Inside, Spans

(* What is drawn of any series stays inside the chart, goes from its left  *)
(* to its right edge, is in the order of the values, and uses the height,  *)
(* for any size of the chart, fixed range and values: LineChart divides by *)
(* no zero, and clamps what is out of the range.                           *)
THEOREM DrawingIsInside == Spec => []DrawnInside
<1>1. ClientInv => DrawnInside
  <2> SUFFICES ASSUME ClientInv, NEW s \in Series
               PROVE  LET vs == values[s]
                          ps == UpdatePaintNode(vs, AutoRange(s))
                      IN  /\ \A i \in DOMAIN ps :
                               /\ ps[i].xd > 0 /\ ps[i].yd > 0
                               /\ ps[i].x \in 0..(Width * ps[i].xd) /\ ps[i].y \in 0..(Height * ps[i].yd)
                               /\ \A j \in DOMAIN ps : vs[i] <= vs[j] => ps[j].y <= ps[i].y
                          /\ ps # << >> =>
                               /\ ps[1].x = 0 /\ Last(ps).x = Width * Last(ps).xd
                               /\ AutoRange(s) /\ Cardinality(Range(vs)) = 1 => 2 * ps[1].y = Height * ps[1].yd
                               /\ AutoRange(s) /\ Cardinality(Range(vs)) > 1 =>
                                    \E i, j \in DOMAIN ps : ps[i].y = 0 /\ ps[j].y = Height * ps[j].yd
    BY DEF DrawnInside
  <2> DEFINE vs == values[s]
             ps == UpdatePaintNode(vs, AutoRange(s))
  <2>1. vs \in Seq(Int) /\ Len(vs) \in Nat
    <3>1. CurveOK(values[s], points[s], s)
      BY DEF ClientInv
    <3>2. values[s] \in Seq(Int)
      BY <3>1 DEF CurveOK, IsLatest
    <3> QED BY <3>2
  <2>2. AutoRange(s) \in BOOLEAN
    BY DEF AutoRange
  <2> HIDE DEF vs
  <2>3. CASE Len(vs) < 2
    <3>1. ps = << >>
      BY <2>3 DEF UpdatePaintNode
    <3>2. DOMAIN ps = {}
      BY <3>1
    <3> HIDE DEF ps
    <3> QED BY <3>1, <3>2 DEF vs, ps
  <2>4. CASE ~(Len(vs) < 2)
    <3>1. ps = [i \in DOMAIN vs |-> Vertex(vs, AutoRange(s), i)] /\ Len(vs) >= 2
      BY <2>1, <2>4 DEF UpdatePaintNode
    <3> DEFINE auto == AutoRange(s)
    <3> HIDE DEF ps, auto
    <3>2. ps = [i \in DOMAIN vs |-> Vertex(vs, auto, i)] /\ auto \in BOOLEAN
      BY <2>2, <3>1 DEF auto
    <3>3. Inside(ps, vs, auto)
      BY <2>1, <3>1, <3>2, DrawnKeeps
    <3> QED BY <3>3 DEF vs, ps, auto, Inside, InChart, Spans, Fills
  <2> QED BY <2>3, <2>4
<1> QED BY <1>1, ClientHolds, PTL
=============================================================================
