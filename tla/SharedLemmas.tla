---------------------------- MODULE SharedLemmas -----------------------------
(***************************************************************************)
(* What several of the proofs of this project rest on. First induction over *)
(* the naturals up to a bound. The library states induction for an          *)
(* operator, which the installed provers cannot instantiate; stated for the *)
(* SET of the numbers a fact holds of, it is a first-order fact, and it is  *)
(* enough for what the models iterate: the motions of a run, the setups of  *)
(* a job, the calls of a program. The least element comes from the          *)
(* well-founded ordering of finite sets by inclusion. Then what flattening  *)
(* a list of lists gives, list by list; what InOrder is,                    *)
(* a permutation in order; and what Findings makes of the hits of a replay, *)
(* which both `run` and `verify` judge by.                                  *)
(***************************************************************************)
EXTENDS Findings, FiniteSetTheorems, FunctionTheorems, SequenceTheorems, WellFoundedInduction, TLAPS

(* A set of naturals that is not empty has a least element.                  *)
LEMMA NatMin ==
  ASSUME NEW T \in SUBSET Nat, T # {}
  PROVE  \E x \in T : \A y \in T : x <= y
<1>1. PICK n \in T : TRUE
  OBVIOUS
<1> DEFINE S == 0 .. n
           R == StrictSubsetOrdering(S)
           U == {0 .. k : k \in {t \in T : t <= n}}
<1>2. IsWellFoundedOn(R, FiniteSubsetsOf(S))
  BY FS_StrictSubsetOrderingWellFounded, FS_Interval
<1>3. U \subseteq FiniteSubsetsOf(S)
  <2>1. ASSUME NEW k \in T, k <= n PROVE 0 .. k \in FiniteSubsetsOf(S)
    <3>1. k \in Nat /\ n \in Nat
      OBVIOUS
    <3>2. IsFiniteSet(0 .. k)
      BY <3>1, FS_Interval
    <3>3. 0 .. k \subseteq S
      BY <2>1, <3>1
    <3> QED BY <3>2, <3>3 DEF FiniteSubsetsOf
  <2> QED BY <2>1
<1>4. U # {}
  BY <1>1
<1>5. PICK X \in U : \A Y \in U : ~(<<Y, X>> \in R)
  <2> HIDE DEF U, R, S
  <2> QED BY <1>2, <1>3, <1>4, WFMin
<1>6. PICK x \in T : x <= n /\ X = 0 .. x
  BY <1>5
<1>7. ASSUME NEW y \in T, y < x PROVE FALSE
  <2>1. 0 .. y \in U
    BY <1>6, <1>7, <1>1
  <2>2. 0 .. y \subseteq 0 .. x /\ x \in 0 .. x /\ x \notin 0 .. y
    BY <1>7
  <2>3. 0 .. y \subseteq S /\ 0 .. x \subseteq S
    BY <1>6, <1>7, <1>1
  <2> QED BY <2>1, <2>2, <2>3, <1>5, <1>6 DEF StrictSubsetOrdering
<1> QED BY <1>6, <1>7

(* Induction up to a bound, over the set of the numbers a fact holds of.     *)
LEMMA Induction ==
  ASSUME NEW n \in Nat, NEW T, 0 \in T,
         \A k \in 0 .. n - 1 : k \in T => k + 1 \in T
  PROVE  \A k \in 0 .. n : k \in T
<1> SUFFICES ASSUME NEW j \in 0 .. n, j \notin T PROVE FALSE
  OBVIOUS
<1> DEFINE Bad == {k \in 0 .. n : k \notin T}
<1>1. PICK x \in Bad : \A y \in Bad : x <= y
  <2>1. Bad \in SUBSET Nat /\ Bad # {}
    OBVIOUS
  <2> QED BY <2>1, NatMin
<1>2. x # 0 /\ x - 1 \in 0 .. n - 1
  BY <1>1
<1>3. x - 1 \notin Bad
  BY <1>1
<1> QED BY <1>1, <1>2, <1>3

(* The last of a set of naturals below a bound.                              *)
LEMMA NatMax ==
  ASSUME NEW n \in Nat, NEW T \in SUBSET (0 .. n), T # {}
  PROVE  \E x \in T : \A y \in T : y <= x
<1> DEFINE U == {n - t : t \in T}
<1>1. U \in SUBSET Nat /\ U # {}
  <2>1. PICK t \in T : TRUE
    OBVIOUS
  <2>2. n - t \in U
    BY <2>1
  <2> QED BY <2>2
<1>2. PICK u \in U : \A v \in U : u <= v
  <2> HIDE DEF U
  <2> QED BY <1>1, NatMin
<1>3. PICK x \in T : u = n - x
  BY <1>2
<1>4. \A y \in T : n - x <= n - y
  BY <1>2, <1>3
<1> QED BY <1>4

\* h iterates T from x.
Iterates(h, n, x, T) == h = [k \in 0 .. n |-> IF k = 0 THEN x ELSE T[k][h[k - 1]]]

(* A recursion over a bounded index that stays in a set has a solution.      *)
LEMMA IterationExists ==
  ASSUME NEW n \in Nat, NEW S, NEW x \in S, NEW T,
         \A k \in 1 .. n : \A y \in S : T[k][y] \in S
  PROVE  \E h : Iterates(h, n, x, T)
<1> DEFINE Upto(m, h) == h[0] = x /\ \A k \in 1 .. m : h[k] = T[k][h[k - 1]]
           Good == {m \in 0 .. n : \E h \in [0 .. m -> S] : Upto(m, h)}
<1>1. 0 \in Good
  <2> DEFINE h == [k \in 0 .. 0 |-> x]
  <2>1. h \in [0 .. 0 -> S] /\ h[0] = x
    OBVIOUS
  <2>2. Upto(0, h)
    <3> HIDE DEF h
    <3> QED BY <2>1
  <2>3. 0 \in 0 .. n
    OBVIOUS
  <2> HIDE DEF h, Upto
  <2> QED BY <2>1, <2>2, <2>3
<1>2. ASSUME NEW m \in 0 .. n - 1, m \in Good PROVE m + 1 \in Good
  <2>1. PICK h \in [0 .. m -> S] : Upto(m, h)
    BY <1>2
  <2> DEFINE g == [k \in 0 .. m + 1 |-> IF k = m + 1 THEN T[m + 1][h[m]] ELSE h[k]]
  <2>2. T[m + 1][h[m]] \in S
    <3>1. m + 1 \in 1 .. n /\ h[m] \in S
      OBVIOUS
    <3> QED BY <3>1
  <2>3. g \in [0 .. m + 1 -> S]
    <3>1. ASSUME NEW k \in 0 .. m + 1, k # m + 1 PROVE h[k] \in S
      <4>1. k \in 0 .. m
        BY <3>1
      <4> QED BY <4>1
    <3> QED BY <2>2, <3>1
  <2>4. g[0] = x
    BY <2>1
  <2>5. ASSUME NEW k \in 1 .. m + 1 PROVE g[k] = T[k][g[k - 1]]
    <3>1. CASE k = m + 1
      <4>1. g[k] = T[m + 1][h[m]] /\ g[k - 1] = h[m]
        BY <3>1
      <4> QED BY <4>1, <3>1
    <3>2. CASE k # m + 1
      <4>1. k \in 1 .. m
        BY <3>2
      <4>2. g[k] = h[k] /\ g[k - 1] = h[k - 1]
        BY <4>1
      <4> HIDE DEF g
      <4> QED BY <4>1, <4>2, <2>1
    <3> QED BY <3>1, <3>2
  <2>6. m + 1 \in 0 .. n
    OBVIOUS
  <2> HIDE DEF g
  <2> QED BY <2>3, <2>4, <2>5, <2>6
<1>3. n \in Good
  <2> HIDE DEF Good
  <2>1. \A k \in 0 .. n - 1 : k \in Good => k + 1 \in Good
    BY <1>2
  <2>2. \A k \in 0 .. n : k \in Good
    BY <1>1, <2>1, Induction
  <2> QED BY <2>2
<1>4. PICK h \in [0 .. n -> S] : Upto(n, h)
  BY <1>3
<1>5. ASSUME NEW k \in 0 .. n PROVE h[k] = IF k = 0 THEN x ELSE T[k][h[k - 1]]
  <2>1. CASE k = 0
    BY <2>1, <1>4
  <2>2. CASE k # 0
    <3>1. k \in 1 .. n
      BY <2>2
    <3> QED BY <3>1, <2>2, <1>4
  <2> QED BY <2>1, <2>2
<1>6. h = [k \in 0 .. n |-> IF k = 0 THEN x ELSE T[k][h[k - 1]]]
  BY <1>5
<1> QED BY <1>6 DEF Iterates
-----------------------------------------------------------------------------
(* Flattening the first k of a list of lists appends the k-th to what the    *)
(* k - 1 before it give.                                                     *)
Flattens(h, E, n, f) ==
  /\ h \in [0 .. n -> Seq(E)]
  /\ h[0] = <<>>
  /\ \A k \in 1 .. n : h[k] = h[k - 1] \o f[k]
  /\ \A k \in 0 .. n : FlattenSeq([i \in 1 .. k |-> f[i]]) = h[k]

(* Flattening a list of lists, list by list.                                *)
LEMMA FlattenSteps ==
  ASSUME NEW E, NEW n \in Nat, NEW f \in [1 .. n -> Seq(E)]
  PROVE  \E h : Flattens(h, E, n, f)
<1> DEFINE T == [i \in 1 .. n |-> [y \in Seq(E) |-> y \o f[i]]]
<1>0. <<>> \in Seq(E)
  OBVIOUS
<1>1. \A i \in 1 .. n : \A y \in Seq(E) : T[i][y] \in Seq(E)
  OBVIOUS
<1>2. PICK g : Iterates(g, n, <<>>, T)
  <2> HIDE DEF T
  <2> QED BY <1>0, <1>1, IterationExists
<1>3. g[0] = <<>> /\ \A i \in 1 .. n : g[i] = T[i][g[i - 1]]
  <2> HIDE DEF T
  <2> QED BY <1>2 DEF Iterates
<1>4. \A i \in 0 .. n : g[i] \in Seq(E)
  <2> DEFINE G == {i \in 0 .. n : g[i] \in Seq(E)}
  <2>1. 0 \in G
    <3>1. g[0] \in Seq(E) /\ 0 \in 0 .. n
      BY <1>0, <1>3
    <3> QED BY <3>1
  <2>2. ASSUME NEW i \in 0 .. n - 1, i \in G PROVE i + 1 \in G
    <3>1. i + 1 \in 1 .. n /\ (i + 1) - 1 = i /\ i + 1 \in 0 .. n
      OBVIOUS
    <3> HIDE DEF T
    <3>2. g[i + 1] = T[i + 1][g[i]]
      BY <1>3, <3>1
    <3> QED BY <2>2, <3>1, <3>2, <1>1
  <2> HIDE DEF G
  <2>3. \A i \in 0 .. n : i \in G
    BY <2>1, <2>2, Induction
  <2> QED BY <2>3 DEF G
<1>5. \A i \in 1 .. n : g[i] = g[i - 1] \o f[i]
  <2>1. TAKE i \in 1 .. n
  <2>2. i - 1 \in 0 .. n
    OBVIOUS
  <2> QED BY <1>3, <1>4, <2>2
<1> DEFINE h == [k \in 0 .. n |-> g[k]]
<1>6. h \in [0 .. n -> Seq(E)] /\ h[0] = <<>>
  BY <1>3, <1>4
<1>7. \A k \in 1 .. n : h[k] = h[k - 1] \o f[k]
  <2>1. TAKE k \in 1 .. n
  <2>2. k \in 0 .. n /\ k - 1 \in 0 .. n
    OBVIOUS
  <2> HIDE DEF T
  <2> QED BY <1>5, <2>2
<1> HIDE DEF h, T
<1>8. ASSUME NEW k \in 0 .. n
      PROVE  FlattenSeq([i \in 1 .. k |-> f[i]]) = h[k]
  <2> DEFINE s == [i \in 1 .. k |-> f[i]]
  <2>1. s \in Seq(Seq(E)) /\ Len(s) = k /\ k \in Nat
    BY SMT
  <2>2. CASE k = 0
    <3>1. s = <<>>
      BY <2>1, <2>2
    <3> QED BY <3>1, <2>1, <2>2, <1>6 DEF FlattenSeq
  <2>3. CASE k # 0
    <3> DEFINE Step(u) == [i \in 1 .. k |-> IF i = 1 THEN s[i] ELSE u[i - 1] \o s[i]]
               flat == CHOOSE u : u = Step(u)
               own == [i \in 1 .. k |-> h[i]]
    <3>1. FlattenSeq(s) = flat[k]
      BY <2>1, <2>3 DEF FlattenSeq
    <3>2. own = Step(own)
      <4>1. ASSUME NEW i \in 1 .. k PROVE own[i] = IF i = 1 THEN s[i] ELSE own[i - 1] \o s[i]
        <5>1. i \in 1 .. n /\ s[i] = f[i] /\ own[i] = h[i] /\ f[i] \in Seq(E)
          OBVIOUS
        <5>2. h[i] = h[i - 1] \o f[i]
          BY <5>1, <1>7
        <5>3. CASE i = 1
          <6>1. <<>> \o f[i] = f[i]
            BY <5>1
          <6>2. h[i] = <<>> \o f[i]
            <7>1. i - 1 = 0
              BY <5>3
            <7> QED BY <5>2, <7>1, <1>6
          <6> HIDE DEF own, s
          <6> QED BY <5>1, <5>3, <6>1, <6>2
        <5>4. CASE i # 1
          <6>1. i - 1 \in 1 .. k /\ own[i - 1] = h[i - 1]
            BY <5>4
          <6> HIDE DEF own, s
          <6> QED BY <5>1, <5>2, <5>4, <6>1
        <5> QED BY <5>3, <5>4
      <4> QED BY <4>1
    <3>3. flat = Step(flat)
      <4> HIDE DEF own, Step
      <4> QED BY <3>2
    <3> HIDE DEF flat
    <3>4. \A i \in 1 .. k : flat[i] = IF i = 1 THEN s[i] ELSE flat[i - 1] \o s[i]
      BY <3>3
    <3> HIDE DEF s, Step
    <3>5. \A i \in 0 .. k - 1 : flat[i + 1] = h[i + 1]
      <4> DEFINE G == {i \in 0 .. k - 1 : flat[i + 1] = h[i + 1]}
      <4>1. 0 \in G
        <5>1. 1 \in 1 .. k /\ 1 \in 1 .. n
          BY <2>3
        <5>2. flat[1] = s[1] /\ s[1] = f[1]
          BY <5>1, <3>4 DEF s
        <5>3. h[1] = <<>> \o f[1] /\ f[1] \in Seq(E)
          <6>1. 1 - 1 = 0
            OBVIOUS
          <6>2. f[1] \in Seq(E)
            BY <5>1
          <6> QED BY <5>1, <6>1, <6>2, <1>6, <1>7
        <5>4. h[1] = f[1]
          BY <5>3
        <5> QED BY <5>1, <5>2, <5>4
      <4>2. ASSUME NEW i \in 0 .. (k - 1) - 1, i \in G PROVE i + 1 \in G
        <5>1. i + 2 \in 1 .. k /\ i + 2 \in 1 .. n /\ i + 2 # 1 /\ (i + 2) - 1 = i + 1
          OBVIOUS
        <5>2. flat[i + 2] = flat[i + 1] \o s[i + 2]
          BY <5>1, <3>4
        <5>3. h[i + 2] = h[i + 1] \o f[i + 2] /\ s[i + 2] = f[i + 2]
          BY <5>1, <1>7 DEF s
        <5>4. flat[i + 1] = h[i + 1]
          BY <4>2
        <5>5. (i + 1) + 1 = i + 2 /\ i + 1 \in 0 .. k - 1
          OBVIOUS
        <5> QED BY <5>2, <5>3, <5>4, <5>5
      <4> HIDE DEF G
      <4>3. k - 1 \in Nat
        BY <2>3
      <4>4. \A i \in 0 .. k - 1 : i \in G
        BY <4>1, <4>2, <4>3, Induction
      <4> QED BY <4>4 DEF G
    <3>6. (k - 1) + 1 = k /\ k - 1 \in 0 .. k - 1
      BY <2>3
    <3>7. flat[k] = h[k]
      BY <3>5, <3>6
    <3> QED BY <3>1, <3>7 DEF s
  <2> QED BY <2>2, <2>3
<1> QED BY <1>6, <1>7, <1>8 DEF Flattens

(* What is flattened is a sequence over the same set.                       *)
COROLLARY FlattenTyped ==
  ASSUME NEW E, NEW n \in Nat, NEW f \in [1 .. n -> Seq(E)]
  PROVE  FlattenSeq(f) \in Seq(E)
<1>1. PICK h : Flattens(h, E, n, f)
  BY FlattenSteps
<1>2. [i \in 1 .. n |-> f[i]] = f /\ n \in 0 .. n
  OBVIOUS
<1> QED BY <1>1, <1>2 DEF Flattens

KeepsAll(n, f) ==
  \A i \in 1 .. n : \A j \in 1 .. Len(f[i]) :
    \E k \in 1 .. Len(FlattenSeq(f)) : FlattenSeq(f)[k] = f[i][j]

(* Whatever is in one of the lists is in the flat one.                       *)
LEMMA FlattenHas ==
  ASSUME NEW E, NEW n \in Nat, NEW f \in [1 .. n -> Seq(E)]
  PROVE  KeepsAll(n, f)
<1> SUFFICES ASSUME NEW i \in 1 .. n, NEW j \in 1 .. Len(f[i])
             PROVE  \E k \in 1 .. Len(FlattenSeq(f)) : FlattenSeq(f)[k] = f[i][j]
  BY DEF KeepsAll
<1>0. PICK h : Flattens(h, E, n, f)
  BY FlattenSteps
<1>1. /\ h \in [0 .. n -> Seq(E)]
      /\ \A k \in 1 .. n : h[k] = h[k - 1] \o f[k]
      /\ \A k \in 0 .. n : FlattenSeq([q \in 1 .. k |-> f[q]]) = h[k]
  BY <1>0 DEF Flattens
<1> DEFINE Found(k) == \E p \in 1 .. Len(h[k]) : h[k][p] = f[i][j]
           G == {k \in 0 .. n - i : Found(i + k)}
<1>2. 0 \in G
  <2>1. h[i - 1] \in Seq(E) /\ f[i] \in Seq(E) /\ h[i] = h[i - 1] \o f[i]
    BY <1>1
  <2> DEFINE p == Len(h[i - 1]) + j
  <2>2. p \in 1 .. Len(h[i]) /\ h[i][p] = f[i][j]
    BY <2>1
  <2>3. i + 0 = i /\ 0 \in 0 .. n - i
    OBVIOUS
  <2> HIDE DEF p
  <2>4. Found(i + 0)
    BY <2>2, <2>3
  <2> QED BY <2>3, <2>4
<1>3. ASSUME NEW k \in 0 .. (n - i) - 1, k \in G PROVE k + 1 \in G
  <2>1. /\ i + (k + 1) \in 1 .. n /\ (i + (k + 1)) - 1 = i + k /\ k + 1 \in 0 .. n - i
        /\ i + k \in 0 .. n
    OBVIOUS
  <2>2. PICK p \in 1 .. Len(h[i + k]) : h[i + k][p] = f[i][j]
    BY <1>3
  <2>3. h[i + (k + 1)] = h[i + k] \o f[i + (k + 1)]
    BY <1>1, <2>1
  <2>4. h[i + k] \in Seq(E) /\ f[i + (k + 1)] \in Seq(E)
    <3> DEFINE a == i + k
               b == i + (k + 1)
    <3>1. a \in 0 .. n /\ b \in 1 .. n
      BY <2>1
    <3> HIDE DEF a, b
    <3>2. h[a] \in Seq(E) /\ f[b] \in Seq(E)
      BY <3>1, <1>1
    <3> QED BY <3>2 DEF a, b
  <2>5. p \in 1 .. Len(h[i + (k + 1)]) /\ h[i + (k + 1)][p] = f[i][j]
    <3> DEFINE u == h[i + k]
               v == f[i + (k + 1)]
    <3>1. u \in Seq(E) /\ v \in Seq(E) /\ p \in 1 .. Len(u)
      BY <2>2, <2>4
    <3> HIDE DEF u, v
    <3>2. p \in 1 .. Len(u \o v) /\ (u \o v)[p] = u[p]
      BY <3>1
    <3> QED BY <2>2, <2>3, <3>2 DEF u, v
  <2>6. Found(i + (k + 1))
    BY <2>5
  <2> QED BY <2>1, <2>6
<1> HIDE DEF G
<1>4. \A k \in 0 .. n - i : k \in G
  <2>1. n - i \in Nat
    OBVIOUS
  <2> QED BY <1>2, <1>3, <2>1, Induction
<1>5. Found(n)
  <2>1. n - i \in 0 .. n - i /\ i + (n - i) = n
    OBVIOUS
  <2> QED BY <1>4, <2>1 DEF G
<1>6. [q \in 1 .. n |-> f[q]] = f /\ n \in 0 .. n
  OBVIOUS
<1>7. FlattenSeq(f) = h[n]
  BY <1>1, <1>6
<1> QED BY <1>5, <1>7
-----------------------------------------------------------------------------
(* Order. *)

(* Tuples of one length are ordered totally.                                 *)
LEMMA LexicographicTotal ==
  ASSUME NEW p \in Seq(Int), NEW q \in Seq(Int), Len(p) = Len(q), p # q
  PROVE  Lexicographic(p, q) \/ Lexicographic(q, p)
<1> DEFINE D == {i \in 1 .. Len(p) : p[i] # q[i]}
<1>1. D \in SUBSET Nat /\ D # {}
  <2>1. PICK i \in 1 .. Len(p) : p[i] # q[i]
    BY SeqEqual
  <2>2. i \in D
    BY <2>1
  <2>3. D \in SUBSET Nat
    OBVIOUS
  <2> QED BY <2>2, <2>3
<1>2. PICK i \in D : \A j \in D : i <= j
  <2> HIDE DEF D
  <2> QED BY <1>1, NatMin
<1>3. i \in 1 .. Len(p) /\ p[i] \in Int /\ q[i] \in Int /\ p[i] # q[i]
  OBVIOUS
<1>4. \A j \in 1 .. i - 1 : p[j] = q[j]
  <2> SUFFICES ASSUME NEW j \in 1 .. i - 1, p[j] # q[j] PROVE FALSE
    OBVIOUS
  <2>1. j \in D
    BY <1>3
  <2> QED BY <2>1, <1>2, <1>3
<1>5. p[i] < q[i] \/ q[i] < p[i]
  BY <1>3
<1> QED BY <1>3, <1>4, <1>5 DEF Lexicographic

LEMMA LexicographicIrreflexive ==
  ASSUME NEW p \in Seq(Int)
  PROVE  ~Lexicographic(p, p)
BY DEF Lexicographic

LEMMA LexicographicTransitive ==
  ASSUME NEW p \in Seq(Int), NEW q \in Seq(Int), NEW r \in Seq(Int),
         Len(p) = Len(q), Len(q) = Len(r), Lexicographic(p, q), Lexicographic(q, r)
  PROVE  Lexicographic(p, r)
<1>1. PICK i \in 1 .. Len(p) : p[i] < q[i] /\ \A j \in 1 .. i - 1 : p[j] = q[j]
  BY DEF Lexicographic
<1>2. PICK k \in 1 .. Len(p) : q[k] < r[k] /\ \A j \in 1 .. k - 1 : q[j] = r[j]
  BY DEF Lexicographic
<1>3. CASE i < k
  <2>1. i \in 1 .. k - 1
    BY <1>3
  <2>2. p[i] < r[i]
    BY <2>1, <1>1, <1>2
  <2>3. \A j \in 1 .. i - 1 : p[j] = r[j]
    <3>1. ASSUME NEW j \in 1 .. i - 1 PROVE j \in 1 .. k - 1
      BY <1>3
    <3> QED BY <3>1, <1>1, <1>2
  <2> QED BY <2>2, <2>3 DEF Lexicographic
<1>4. CASE i = k
  <2>1. p[i] < r[i]
    <3>1. p[i] \in Int /\ q[i] \in Int /\ r[i] \in Int
      OBVIOUS
    <3> QED BY <3>1, <1>1, <1>2, <1>4
  <2> QED BY <2>1, <1>1, <1>2, <1>4 DEF Lexicographic
<1>5. CASE k < i
  <2>1. k \in 1 .. i - 1
    BY <1>5
  <2>2. p[k] < r[k]
    BY <2>1, <1>1, <1>2
  <2>3. \A j \in 1 .. k - 1 : p[j] = r[j]
    <3>1. ASSUME NEW j \in 1 .. k - 1 PROVE j \in 1 .. i - 1
      BY <1>5
    <3> QED BY <3>1, <1>1, <1>2
  <2> QED BY <2>2, <2>3 DEF Lexicographic
<1> QED BY <1>3, <1>4, <1>5

\* Keys of one length that tell the members of S apart.
Keyed(S, key, n) ==
  /\ \A x \in S : key[x] \in Seq(Int) /\ Len(key[x]) = n
  /\ \A x, y \in S : key[x] = key[y] => x = y

(* InOrder is a permutation of a finite set, and in order; what comes before  *)
(* its n-th member is n - 1 members.                                         *)
LEMMA InOrderRanks ==
  ASSUME NEW S, IsFiniteSet(S), NEW key, NEW width, Keyed(S, key, width)
  PROVE  /\ Cardinality(S) \in Nat
         /\ InOrder(S, key) \in [1 .. Cardinality(S) -> S]
         /\ \A x \in S : \E n \in 1 .. Cardinality(S) : InOrder(S, key)[n] = x
         /\ \A m, n \in 1 .. Cardinality(S) :
              m < n => Lexicographic(key[InOrder(S, key)[m]], key[InOrder(S, key)[n]])
         /\ \A n \in 1 .. Cardinality(S) :
              Cardinality(Before(S, key, InOrder(S, key)[n])) = n - 1
<1> DEFINE c == Cardinality(S)
           rank == [x \in S |-> Cardinality(Before(S, key, x))]
<1>1. c \in Nat
  BY FS_CardinalityType
<1>2. ASSUME NEW x \in S
      PROVE  IsFiniteSet(Before(S, key, x)) /\ rank[x] \in 0 .. c - 1
  <2>1. x \notin Before(S, key, x) /\ Before(S, key, x) \in SUBSET (S \ {x})
    BY LexicographicIrreflexive DEF Before, Keyed
  <2>2. IsFiniteSet(S \ {x}) /\ Cardinality(S \ {x}) = c - 1
    BY FS_RemoveElement
  <2>3. IsFiniteSet(Before(S, key, x)) /\ Cardinality(Before(S, key, x)) <= c - 1
    BY <2>1, <2>2, FS_Subset
  <2>4. Cardinality(Before(S, key, x)) \in Nat
    BY <2>3, FS_CardinalityType
  <2> QED BY <2>3, <2>4, <1>1
<1>3. ASSUME NEW x \in S, NEW y \in S, Lexicographic(key[x], key[y]) PROVE rank[x] < rank[y]
  <2> DEFINE B == Before(S, key, x)
             C == Before(S, key, y)
  <2>1. IsFiniteSet(B) /\ IsFiniteSet(C) /\ Cardinality(B) = rank[x] /\ Cardinality(C) = rank[y]
    BY <1>2
  <2>2. x \notin B
    BY LexicographicIrreflexive DEF Before, Keyed
  <2>3. B \cup {x} \in SUBSET C
    <3>1. x \in C
      BY <1>3 DEF Before
    <3>2. ASSUME NEW z \in B PROVE z \in C
      <4>1. z \in S /\ Lexicographic(key[z], key[x])
        BY DEF Before
      <4>2. Lexicographic(key[z], key[y])
        BY <4>1, <1>3, LexicographicTransitive DEF Keyed
      <4> QED BY <4>1, <4>2 DEF Before
    <3> QED BY <3>1, <3>2
  <2> HIDE DEF B, C
  <2>4. Cardinality(B \cup {x}) = Cardinality(B) + 1
    BY <2>1, <2>2, FS_AddElement
  <2>5. Cardinality(B \cup {x}) <= Cardinality(C)
    BY <2>1, <2>3, FS_Subset
  <2>6. Cardinality(B) \in Nat /\ Cardinality(C) \in Nat
    BY <2>1, FS_CardinalityType
  <2> QED BY <2>1, <2>4, <2>5, <2>6
<1>4. ASSUME NEW x \in S, NEW y \in S, x # y
      PROVE  Lexicographic(key[x], key[y]) \/ Lexicographic(key[y], key[x])
  BY <1>4, LexicographicTotal DEF Keyed
<1>5. rank \in [S -> 0 .. c - 1]
  BY <1>2
<1> HIDE DEF rank, c
<1>6. ASSUME NEW x \in S, NEW y \in S, rank[x] = rank[y] PROVE x = y
  <2>1. rank[x] \in Int /\ rank[y] \in Int
    BY <1>5, <1>1
  <2> QED BY <1>3, <1>4, <1>6, <2>1
<1>7. ASSUME NEW r \in 0 .. c - 1 PROVE \E x \in S : rank[x] = r
  <2>1. rank \in Injection(S, 0 .. c - 1)
    BY <1>5, <1>6 DEF Injection, IsInjective
  <2>2. IsFiniteSet(0 .. c - 1) /\ Cardinality(0 .. c - 1) = c
    BY <1>1, FS_Interval
  <2>3. rank \in Surjection(S, 0 .. c - 1)
    BY <2>1, <2>2, FS_Injection DEF c
  <2> QED BY <2>3 DEF Surjection
<1> DEFINE q == InOrder(S, key)
<1>8. ASSUME NEW n \in 1 .. c PROVE q[n] \in S /\ rank[q[n]] = n - 1
  <2>1. n - 1 \in 0 .. c - 1
    BY <1>1
  <2>2. q[n] = CHOOSE x \in S : Cardinality(Before(S, key, x)) = n - 1
    BY DEF InOrder, c
  <2>3. \A x \in S : rank[x] = Cardinality(Before(S, key, x))
    BY DEF rank
  <2>4. \E x \in S : Cardinality(Before(S, key, x)) = n - 1
    BY <2>1, <2>3, <1>7
  <2> QED BY <2>2, <2>3, <2>4
<1>9. q \in [1 .. c -> S]
  BY <1>8 DEF InOrder, c
<1> HIDE DEF q
<1>10. ASSUME NEW x \in S PROVE \E n \in 1 .. c : q[n] = x
  <2>1. rank[x] \in 0 .. c - 1
    BY <1>5
  <2>2. rank[x] + 1 \in 1 .. c /\ (rank[x] + 1) - 1 = rank[x]
    BY <2>1, <1>1
  <2>3. q[rank[x] + 1] = x
    BY <2>2, <1>8, <1>6
  <2> QED BY <2>2, <2>3
<1>11. ASSUME NEW m \in 1 .. c, NEW n \in 1 .. c, m < n PROVE Lexicographic(key[q[m]], key[q[n]])
  <2>1. q[m] \in S /\ q[n] \in S /\ rank[q[m]] = m - 1 /\ rank[q[n]] = n - 1
    BY <1>8
  <2>2. rank[q[m]] < rank[q[n]] /\ ~(rank[q[n]] < rank[q[m]]) /\ q[m] # q[n]
    BY <2>1, <1>1, <1>11
  <2> QED BY <2>1, <2>2, <1>3, <1>4
<1>12. ASSUME NEW n \in 1 .. c PROVE Cardinality(Before(S, key, q[n])) = n - 1
  BY <1>8 DEF rank
<1> QED BY <1>1, <1>9, <1>10, <1>11, <1>12 DEF q, c
(* The permutation alone. *)
LEMMA InOrderProperties ==
  ASSUME NEW S, IsFiniteSet(S), NEW key, NEW width, Keyed(S, key, width)
  PROVE  /\ Cardinality(S) \in Nat
         /\ InOrder(S, key) \in [1 .. Cardinality(S) -> S]
         /\ \A x \in S : \E n \in 1 .. Cardinality(S) : InOrder(S, key)[n] = x
         /\ \A m, n \in 1 .. Cardinality(S) :
              m < n => Lexicographic(key[InOrder(S, key)[m]], key[InOrder(S, key)[n]])
BY InOrderRanks
-----------------------------------------------------------------------------
\* The key of a group, and of a hit in the report, are tuples of integers that
\* say whether the hit is a collision.
LEMMA KeysTyped ==
  ASSUME NEW h \in Hit, NEW kinds
  PROVE  /\ GroupKey(h) = <<h.k, h.role, IF is_collision(h) THEN 1 ELSE 0, h.obstacle>>
         /\ ReportKey(kinds, h) \in Seq(Int) /\ Len(ReportKey(kinds, h)) = 7
         /\ ReportKey(kinds, h)[1] = IF is_collision(h) THEN 0 ELSE 1
         /\ ReportKey(kinds, h)[4] = h.obstacle
         /\ ReportKey(kinds, h)[6] = h.role
         /\ ReportKey(kinds, h)[7] = h.k
<1> DEFINE a == IF is_collision(h) THEN 0 ELSE 1
           b == IF kinds[h.k] = "rapid" THEN 0 ELSE 1
<1>1. a \in Int /\ b \in Int
  OBVIOUS
<1>2. -h.length \in Int /\ h.obstacle \in Int /\ h.at \in Int /\ h.role \in Int /\ h.k \in Int
  BY DEF Hit
<1>3. ReportKey(kinds, h) = <<a, b, -h.length, h.obstacle, h.at, h.role, h.k>>
  BY DEF ReportKey
<1> DEFINE l == -h.length
<1> HIDE DEF a, b, l
<1>4. <<a, b, l, h.obstacle, h.at, h.role, h.k>> \in Seq(Int)
  BY <1>1, <1>2 DEF l
<1> QED BY <1>3, <1>4 DEF GroupKey, a, l

\* The worst of a group is one of it.
LEMMA WorstIsOne ==
  ASSUME NEW raw \in Seq(Hit), NEW key, \E i \in DOMAIN raw : GroupKey(raw[i]) = key
  PROVE  WorstOf(raw, key) \in DOMAIN raw /\ GroupKey(raw[WorstOf(raw, key)]) = key
<1> DEFINE G == {i \in DOMAIN raw : GroupKey(raw[i]) = key}
           size == [i \in DOMAIN raw |-> <<raw[i].length, i>>]
           group == InOrder(G, size)
<1>1. DOMAIN raw = 1 .. Len(raw) /\ Len(raw) \in Nat
  BY LenProperties
<1>2. IsFiniteSet(G) /\ G # {}
  <2>1. IsFiniteSet(1 .. Len(raw))
    BY <1>1, FS_Interval
  <2>2. G \in SUBSET (1 .. Len(raw))
    BY <1>1
  <2> QED BY <2>1, <2>2, FS_Subset
<1>3. Keyed(G, size, 2)
  <2>1. ASSUME NEW i \in G
        PROVE size[i] \in Seq(Int) /\ Len(size[i]) = 2 /\ size[i][2] = i
    <3>1. i \in Int /\ raw[i] \in Hit
      BY <1>1, ElementOfSeq
    <3>2. raw[i].length \in Int
      BY <3>1 DEF Hit
    <3>3. size[i] = <<raw[i].length, i>>
      OBVIOUS
    <3> HIDE DEF size
    <3> QED BY <3>1, <3>2, <3>3
  <2> HIDE DEF size, G
  <2> QED BY <2>1 DEF Keyed
<1> HIDE DEF G, size
<1>4. Cardinality(G) \in Nat /\ Cardinality(G) # 0 /\ group \in [1 .. Cardinality(G) -> G]
  BY <1>2, <1>3, InOrderProperties, FS_EmptySet
<1> HIDE DEF group
<1>5. Len(group) = Cardinality(G) /\ group[1] \in G /\ group[Cardinality(G)] \in G
  <2>1. group \in Seq(G)
    BY <1>4
  <2>2. Len(group) = Cardinality(G)
    BY <2>1, <1>4
  <2> QED BY <2>2, <1>4
<1>6. WorstOf(raw, key) \in G
  BY <1>5 DEF WorstOf, group, size, G
<1> QED BY <1>6 DEF G

\* A report of hits has a collision if and only if the hits had one: grouping
\* never merges the two kinds, and drops no group.
LEMMA AssembleTells ==
  ASSUME NEW raw \in Seq(Hit), NEW kinds, NEW grid
  PROVE  collision_gate(assemble(raw, kinds, grid)) = "pass"
           <=> \A i \in DOMAIN raw : ~is_collision(raw[i])
<1> DEFINE keys == {GroupKey(raw[i]) : i \in DOMAIN raw}
           worst == {WorstOf(raw, key) : key \in keys}
           slot(i) == Cardinality({j \in worst : /\ raw[j].at \div grid = raw[i].at \div grid
                                           /\ Lexicographic(GroupKey(raw[j]), GroupKey(raw[i]))})
           found == [i \in worst |->
                 LET h == raw[i]
                 IN  [id |-> <<h.role, h.obstacle, kinds[h.k], h.at \div grid, slot(i)>>,
                      contact |-> h.contact, role |-> h.role, obstacle |-> h.obstacle,
                      length |-> h.length, at |-> h.at, k |-> h.k]]
           place == [i \in worst |-> ReportKey(kinds, raw[i])]
           order == InOrder(worst, place)
           all == [n \in DOMAIN order |-> found[order[n]]]
<1>1. DOMAIN raw = 1 .. Len(raw) /\ Len(raw) \in Nat /\ \A i \in DOMAIN raw : raw[i] \in Hit
  BY LenProperties, ElementOfSeq
<1>2. ASSUME NEW key \in keys
      PROVE  WorstOf(raw, key) \in DOMAIN raw /\ GroupKey(raw[WorstOf(raw, key)]) = key
  BY WorstIsOne
<1>3. worst \in SUBSET (1 .. Len(raw)) /\ IsFiniteSet(worst)
  <2>1. IsFiniteSet(1 .. Len(raw))
    BY <1>1, FS_Interval
  <2>2. worst \in SUBSET (1 .. Len(raw))
    <3> HIDE DEF keys
    <3> QED BY <1>1, <1>2
  <2> HIDE DEF worst
  <2> QED BY <2>1, <2>2, FS_Subset
<1>4. \A i \in worst : i = WorstOf(raw, GroupKey(raw[i]))
  <2> HIDE DEF keys
  <2> QED BY <1>2
<1>5. \A i \in DOMAIN raw : \E j \in worst : GroupKey(raw[j]) = GroupKey(raw[i])
  <2> SUFFICES ASSUME NEW i \in DOMAIN raw PROVE \E j \in worst : GroupKey(raw[j]) = GroupKey(raw[i])
    OBVIOUS
  <2>1. GroupKey(raw[i]) \in keys
    OBVIOUS
  <2> HIDE DEF keys
  <2> QED BY <2>1, <1>2
<1> HIDE DEF keys
<1>6. Keyed(worst, place, 7)
  <2>1. ASSUME NEW i \in worst
        PROVE  place[i] \in Seq(Int) /\ Len(place[i]) = 7
    <3>1. place[i] = ReportKey(kinds, raw[i]) /\ raw[i] \in Hit
      BY <1>1, <1>3
    <3> QED BY <3>1, KeysTyped
  <2>2. ASSUME NEW i \in worst, NEW j \in worst, place[i] = place[j] PROVE i = j
    <3>1. place[i] = ReportKey(kinds, raw[i]) /\ place[j] = ReportKey(kinds, raw[j])
      OBVIOUS
    <3>2. raw[i] \in Hit /\ raw[j] \in Hit
      BY <1>1, <1>3
    <3> HIDE DEF place, worst
    <3>3. \A m \in {i, j} :
            LET h == raw[m]
                p == place[m]
            IN  /\ GroupKey(h) = <<h.k, h.role, IF is_collision(h) THEN 1 ELSE 0, h.obstacle>>
                /\ p[1] = (IF is_collision(h) THEN 0 ELSE 1)
                /\ p[4] = h.obstacle /\ p[6] = h.role /\ p[7] = h.k
      <4>1. ASSUME NEW m \in {i, j} PROVE raw[m] \in Hit /\ place[m] = ReportKey(kinds, raw[m])
        BY <3>1, <3>2
      <4>2. ASSUME NEW m \in {i, j}
            PROVE  /\ GroupKey(raw[m]) = <<raw[m].k, raw[m].role, IF is_collision(raw[m]) THEN 1 ELSE 0, raw[m].obstacle>>
                   /\ place[m][1] = (IF is_collision(raw[m]) THEN 0 ELSE 1)
                   /\ place[m][4] = raw[m].obstacle /\ place[m][6] = raw[m].role /\ place[m][7] = raw[m].k
        <5> DEFINE h == raw[m]
        <5>1. h \in Hit /\ place[m] = ReportKey(kinds, h)
          BY <4>1
        <5> HIDE DEF h
        <5>2. /\ GroupKey(h) = <<h.k, h.role, IF is_collision(h) THEN 1 ELSE 0, h.obstacle>>
              /\ ReportKey(kinds, h)[1] = (IF is_collision(h) THEN 0 ELSE 1)
              /\ ReportKey(kinds, h)[4] = h.obstacle /\ ReportKey(kinds, h)[6] = h.role
              /\ ReportKey(kinds, h)[7] = h.k
          BY <5>1, KeysTyped, Zenon
        <5> QED BY <5>1, <5>2, Zenon DEF h
      <4> QED BY <4>2
    <3> DEFINE g == raw[i]
               h == raw[j]
    <3>4. g.k = h.k /\ g.role = h.role /\ g.obstacle = h.obstacle
      BY <3>3, <2>2
    <3>5. (IF is_collision(g) THEN 0 ELSE 1) = (IF is_collision(h) THEN 0 ELSE 1)
      BY <3>3, <2>2
    <3>6. is_collision(g) <=> is_collision(h)
      BY <3>5
    <3>7. GroupKey(g) = GroupKey(h)
      BY <3>3, <3>4, <3>6
    <3> QED BY <3>7, <1>4
  <2> HIDE DEF place, worst
  <2> QED BY <2>1, <2>2 DEF Keyed
<1>7. /\ Cardinality(worst) \in Nat /\ order \in [1 .. Cardinality(worst) -> worst]
      /\ \A i \in worst : \E n \in 1 .. Cardinality(worst) : order[n] = i
  <2> HIDE DEF place, worst
  <2> QED BY <1>3, <1>6, InOrderProperties
<1>8. assemble(raw, kinds, grid) = all
  BY DEF assemble, keys
<1>9. \A i \in worst : found[i].contact = raw[i].contact
  <2> HIDE DEF worst, slot
  <2> QED OBVIOUS
<1> HIDE DEF found, worst, order
<1>10. DOMAIN all = 1 .. Cardinality(worst) /\ \A n \in DOMAIN all : all[n] = found[order[n]]
  BY <1>7
<1> HIDE DEF all
<1>11. (\E n \in DOMAIN all : is_collision(all[n])) <=> \E i \in worst : is_collision(raw[i])
  <2>1. \A n \in DOMAIN all : order[n] \in worst /\ (is_collision(all[n]) <=> is_collision(raw[order[n]]))
    BY <1>7, <1>9, <1>10 DEF is_collision
  <2> QED BY <2>1, <1>7, <1>10
<1>12. (\E i \in worst : is_collision(raw[i])) <=> \E i \in DOMAIN raw : is_collision(raw[i])
  <2>1. \A i, j \in DOMAIN raw : GroupKey(raw[i]) = GroupKey(raw[j]) =>
          (is_collision(raw[i]) <=> is_collision(raw[j]))
    <3> SUFFICES ASSUME NEW i \in DOMAIN raw, NEW j \in DOMAIN raw, GroupKey(raw[i]) = GroupKey(raw[j])
                 PROVE  is_collision(raw[i]) <=> is_collision(raw[j])
      OBVIOUS
    <3>1. GroupKey(raw[i])[3] = (IF is_collision(raw[i]) THEN 1 ELSE 0)
      BY DEF GroupKey
    <3>2. GroupKey(raw[j])[3] = (IF is_collision(raw[j]) THEN 1 ELSE 0)
      BY DEF GroupKey
    <3> QED BY <3>1, <3>2
  <2> QED BY <2>1, <1>1, <1>3, <1>5
<1> QED BY <1>8, <1>11, <1>12 DEF collision_gate
=============================================================================
