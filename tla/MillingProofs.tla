--------------------------- MODULE MillingProofs ----------------------------
(* Three things about stock and its tools, for every set of sources: a mesh that *)
(* is welded is the one the soup stands for, its vertices in the order of where  *)
(* they are (WeldIsCanonical); the library file is read as it is spelled         *)
(* (LibraryReadsBack); and a file of a field is read as what was built or cut,   *)
(* or as no field when it is damaged (FilesReadBack). The first rests on an      *)
(* invariant that says only which mesh there is, the second on what is known of  *)
(* the document at each stage, the third on what is known of the file.           *)
EXTENDS Milling, SharedLemmas, FiniteSetTheorems

(* The order weld sorts keys by is the lexicographic one.                    *)
LEMMA KeyBeforeIsLexicographic ==
  ASSUME NEW p \in [1 .. 3 -> Int], NEW q \in [1 .. 3 -> Int]
  PROVE  /\ p \in Seq(Int) /\ Len(p) = 3
         /\ KeyBefore(p, q) <=> Lexicographic(p, q)
<1>1. p \in Seq(Int) /\ Len(p) = 3
  <2>1. \E n \in Nat : p \in [1 .. n -> Int]
    OBVIOUS
  <2>2. p \in Seq(Int)
    BY <2>1, SeqDef
  <2> QED BY <2>2, LenProperties
<1>2. Lexicographic(p, q) <=> \E i \in 1 .. 3 : p[i] < q[i] /\ \A j \in 1 .. i - 1 : p[j] = q[j]
  BY <1>1 DEF Lexicographic
<1>3. ASSUME KeyBefore(p, q) PROVE \E i \in 1 .. 3 : p[i] < q[i] /\ \A j \in 1 .. i - 1 : p[j] = q[j]
  <2>1. CASE p[1] < q[1]
    <3>1. p[1] < q[1] /\ \A j \in 1 .. 1 - 1 : p[j] = q[j]
      BY <2>1
    <3> QED BY <3>1
  <2>2. CASE p[1] = q[1] /\ p[2] < q[2]
    <3>1. p[2] < q[2] /\ \A j \in 1 .. 2 - 1 : p[j] = q[j]
      BY <2>2
    <3> QED BY <3>1
  <2>3. CASE p[1] = q[1] /\ p[2] = q[2] /\ p[3] < q[3]
    <3>1. p[3] < q[3] /\ \A j \in 1 .. 3 - 1 : p[j] = q[j]
      BY <2>3
    <3> QED BY <3>1
  <2> QED BY <1>3, <2>1, <2>2, <2>3 DEF KeyBefore
<1>4. ASSUME NEW i \in 1 .. 3, p[i] < q[i], \A j \in 1 .. i - 1 : p[j] = q[j] PROVE KeyBefore(p, q)
  <2>1. CASE i = 1
    BY <1>4, <2>1 DEF KeyBefore
  <2>2. CASE i = 2
    BY <1>4, <2>2 DEF KeyBefore
  <2>3. CASE i = 3
    BY <1>4, <2>3 DEF KeyBefore
  <2> QED BY <2>1, <2>2, <2>3
<1> QED BY <1>1, <1>2, <1>3, <1>4

(* A quotient between two neighbouring multiples.                            *)
LEMMA RoundsTo ==
  ASSUME NEW a \in Int, NEW b \in Int, b > 0, NEW q \in Int, b * q <= a, a < b * q + b
  PROVE  a \div b = q
OBVIOUS

(* What is within half a step of a point of the lattice rounds to it.        *)
LEMMA Quantised ==
  ASSUME NEW v \in Int, NEW w \in Int, w > 0, NEW c \in Int, NEW f \in Int, f = c * w,
         -w < 2 * (v - f), 2 * (v - f) < w
  PROVE  quantise(v, w) = c
<1>1. CASE v >= 0
  <2>1. (2 * w) * c = 2 * f
    OBVIOUS
  <2>2. (2 * w) * c <= 2 * v + w /\ 2 * v + w < (2 * w) * c + 2 * w
    BY <2>1
  <2>3. (2 * v + w) \div (2 * w) = c
    BY <2>2, RoundsTo
  <2> QED BY <1>1, <2>3 DEF quantise
<1>2. CASE v < 0
  <2>1. (2 * w) * (-c) = -(2 * f)
    OBVIOUS
  <2>2. (2 * w) * (-c) <= w - 2 * v /\ w - 2 * v < (2 * w) * (-c) + 2 * w
    BY <2>1
  <2>3. (w - 2 * v) \div (2 * w) = -c
    BY <2>2, RoundsTo
  <2> QED BY <1>2, <2>3 DEF quantise
<1> QED BY <1>1, <1>2
-----------------------------------------------------------------------------
\* What weld makes of the keys of a soup.
Distinct(soup, w) == {Key(soup.vertices[i], w) : i \in DOMAIN soup.vertices}

Rank(D) == [k \in D |-> 1 + Cardinality({m \in D : KeyBefore(m, k)})]

Numbering(D, ranks) == [n \in 1 .. Cardinality(D) |-> CHOOSE k \in D : ranks[k] = n]

Numbered(D) == Numbering(D, Rank(D))

(* The numbers weld gives are a bijection in the order of the keys.          *)
LEMMA RanksNumber ==
  ASSUME NEW D, IsFiniteSet(D), D \subseteq [1 .. 3 -> Int]
  PROVE  /\ Cardinality(D) \in Nat
         /\ Numbered(D) \in [1 .. Cardinality(D) -> D]
         /\ \A k \in D : Rank(D)[k] \in 1 .. Cardinality(D) /\ Numbered(D)[Rank(D)[k]] = k
         /\ \A m, n \in 1 .. Cardinality(D) :
              m < n => KeyBefore(Numbered(D)[m], Numbered(D)[n])
<1> DEFINE id == [k \in D |-> k]
<1>1. Keyed(D, id, 3)
  BY KeyBeforeIsLexicographic DEF Keyed
<1>2. ASSUME NEW k \in D
      PROVE  Before(D, id, k) = {m \in D : KeyBefore(m, k)}
  BY KeyBeforeIsLexicographic DEF Before
<1>3. Cardinality(D) \in Nat
  BY FS_CardinalityType
<1>4. ASSUME NEW k \in D
      PROVE  /\ Cardinality(Before(D, id, k)) \in Nat
             /\ Rank(D)[k] = 1 + Cardinality(Before(D, id, k))
  <2>1. IsFiniteSet({m \in D : KeyBefore(m, k)})
    BY FS_Subset
  <2> QED BY <2>1, <1>2, FS_CardinalityType DEF Rank
<1>5. /\ InOrder(D, id) \in [1 .. Cardinality(D) -> D]
      /\ \A k \in D : \E n \in 1 .. Cardinality(D) : InOrder(D, id)[n] = k
      /\ \A m, n \in 1 .. Cardinality(D) :
           m < n => Lexicographic(id[InOrder(D, id)[m]], id[InOrder(D, id)[n]])
      /\ \A n \in 1 .. Cardinality(D) :
           Cardinality(Before(D, id, InOrder(D, id)[n])) = n - 1
  <2> HIDE DEF id
  <2> QED BY <1>1, InOrderRanks
<1>6. InOrder(D, id) = Numbered(D)
  <2>1. ASSUME NEW n \in 1 .. Cardinality(D), NEW k \in D
        PROVE  Cardinality(Before(D, id, k)) = n - 1 <=> Rank(D)[k] = n
    <3> HIDE DEF id
    <3> QED BY <1>3, <1>4
  <2>2. ASSUME NEW n \in 1 .. Cardinality(D)
        PROVE  (CHOOSE k \in D : Cardinality(Before(D, id, k)) = n - 1)
                 = (CHOOSE k \in D : Rank(D)[k] = n)
    <3> HIDE DEF id
    <3> QED BY <2>1
  <2> DEFINE F == [n \in 1 .. Cardinality(D) |-> CHOOSE k \in D : Cardinality(Before(D, id, k)) = n - 1]
             G == [n \in 1 .. Cardinality(D) |-> CHOOSE k \in D : Rank(D)[k] = n]
  <2>3. F = G
    <3>1. ASSUME NEW n \in 1 .. Cardinality(D) PROVE F[n] = G[n]
      <4>1. F[n] = CHOOSE k \in D : Cardinality(Before(D, id, k)) = n - 1
        <5> HIDE DEF id
        <5> QED OBVIOUS
      <4>2. G[n] = CHOOSE k \in D : Rank(D)[k] = n
        OBVIOUS
      <4> HIDE DEF F, G, id
      <4> QED BY <4>1, <4>2, <2>2, Zenon
    <3>2. F = [n \in 1 .. Cardinality(D) |-> F[n]] /\ G = [n \in 1 .. Cardinality(D) |-> G[n]]
      <4> HIDE DEF id
      <4> QED OBVIOUS
    <3> HIDE DEF F, G
    <3> QED BY <3>1, <3>2
  <2>4. InOrder(D, id) = F
    <3> HIDE DEF id
    <3> QED BY DEF InOrder
  <2>5. Numbered(D) = G
    BY DEF Numbered, Numbering
  <2> QED BY <2>3, <2>4, <2>5
<1> DEFINE N == Numbered(D)
<1>7. N \in [1 .. Cardinality(D) -> D]
  BY <1>5, <1>6
<1>8. \A m, n \in 1 .. Cardinality(D) : m < n => KeyBefore(N[m], N[n])
  <2>1. \A x \in D : id[x] = x
    OBVIOUS
  <2> HIDE DEF id, N
  <2>2. \A m, n \in 1 .. Cardinality(D) : m < n => Lexicographic(N[m], N[n])
    BY <1>5, <1>6, <1>7, <2>1 DEF N
  <2> QED BY <2>2, <1>7, KeyBeforeIsLexicographic
<1>9. \A k \in D : Rank(D)[k] \in 1 .. Cardinality(D) /\ N[Rank(D)[k]] = k
  <2> HIDE DEF id
  <2>1. ASSUME NEW k \in D PROVE Rank(D)[k] \in 1 .. Cardinality(D) /\ N[Rank(D)[k]] = k
    <3>1. PICK n \in 1 .. Cardinality(D) : N[n] = k
      BY <1>5, <1>6
    <3>2. Cardinality(Before(D, id, k)) = n - 1
      BY <3>1, <1>5, <1>6
    <3>3. Rank(D)[k] = n
      BY <3>2, <1>4, <1>3
    <3> QED BY <3>1, <3>3
  <2> QED BY <2>1
<1> QED BY <1>3, <1>7, <1>8, <1>9

Welds(soup, w) ==
  LET D == Distinct(soup, w)
  IN [vertices |-> [n \in 1 .. Cardinality(D) |-> [l \in 1 .. 3 |-> Numbered(D)[n][l] * w]],
      triangles |-> [t \in 1 .. Len(soup.triangles) |->
                       [k \in 1 .. 3 |-> Rank(D)[Key(soup.vertices[soup.triangles[t][k]], w)]]]]

(* weld is what the numbers make of it.                                      *)
LEMMA WeldUnfolds ==
  ASSUME NEW soup, NEW w,
         soup.triangles \in Seq([1 .. 3 -> DOMAIN soup.vertices])
  PROVE  weld(soup, w) = Welds(soup, w)
<1> DEFINE keys == [i \in DOMAIN soup.vertices |-> Key(soup.vertices[i], w)]
           distinct == {keys[i] : i \in DOMAIN keys}
           ranks == [k \in distinct |-> 1 + Cardinality({m \in distinct : KeyBefore(m, k)})]
           at == [n \in 1 .. Cardinality(distinct) |-> CHOOSE k \in distinct : ranks[k] = n]
           V == [n \in DOMAIN at |-> [l \in 1 .. 3 |-> at[n][l] * w]]
           T == [t \in Triangles(soup) |-> [k \in 1 .. 3 |-> ranks[keys[soup.triangles[t][k]]]]]
           D == Distinct(soup, w)
<1>1. weld(soup, w) = [vertices |-> V, triangles |-> T]
  BY Zenon DEF weld
<1>2. distinct = D
  BY DEF Distinct
<1>3. ranks = Rank(D)
  <2> HIDE DEF distinct, D
  <2> QED BY <1>2 DEF Rank
<1>4. at = Numbered(D)
  <2>1. at = Numbering(distinct, ranks)
    BY Zenon DEF Numbering
  <2> HIDE DEF distinct, D, ranks, at
  <2> QED BY <2>1, <1>2, <1>3 DEF Numbered
<1>5. DOMAIN at = 1 .. Cardinality(D)
  <2> HIDE DEF distinct, D, ranks
  <2> QED BY <1>2
<1>6. V = [n \in 1 .. Cardinality(D) |-> [l \in 1 .. 3 |-> Numbered(D)[n][l] * w]]
  <2> HIDE DEF distinct, D, ranks, at
  <2> QED BY <1>4, <1>5, Zenon
<1>7. T = [t \in 1 .. Len(soup.triangles) |->
             [k \in 1 .. 3 |-> Rank(D)[Key(soup.vertices[soup.triangles[t][k]], w)]]]
  <2>1. ASSUME NEW t \in 1 .. Len(soup.triangles), NEW k \in 1 .. 3
        PROVE  keys[soup.triangles[t][k]] = Key(soup.vertices[soup.triangles[t][k]], w)
    OBVIOUS
  <2>2. Triangles(soup) = 1 .. Len(soup.triangles)
    BY DEF Triangles
  <2> HIDE DEF distinct, D, ranks, at, keys
  <2> QED BY <1>3, <2>1, <2>2
<1> HIDE DEF V, T, D
<1> QED BY <1>1, <1>6, <1>7 DEF Welds, D

(* A soup that stands for facets welds to them, in the order of the keys.    *)
LEMMA WeldStands ==
  ASSUME NEW soup, NEW facets, NEW w \in Int, w > 0, StandsFor(soup, facets, w),
         NEW welded, welded = weld(soup, w)
  PROVE  /\ \A t \in Triangles(welded) : corners(welded, t) = facets[t]
         /\ \A i, j \in DOMAIN welded.vertices :
              i < j => KeyBefore(welded.vertices[i], welded.vertices[j])
<1> DEFINE D == Distinct(soup, w)
           c == Cardinality(D)
           N == Numbered(D)
<1>1. /\ soup.vertices \in Seq([1 .. 3 -> Int])
      /\ soup.triangles \in Seq([1 .. 3 -> DOMAIN soup.vertices])
  BY DEF StandsFor
<1>2. welded = Welds(soup, w)
  BY <1>1, WeldUnfolds
<1>3. /\ welded.vertices = [n \in 1 .. c |-> [l \in 1 .. 3 |-> N[n][l] * w]]
      /\ welded.triangles = [t \in 1 .. Len(soup.triangles) |->
           [k \in 1 .. 3 |-> Rank(D)[Key(soup.vertices[soup.triangles[t][k]], w)]]]
  <2> HIDE DEF D, c, N
  <2> QED BY <1>2 DEF Welds, D, c, N
<1>4. D \subseteq [1 .. 3 -> Int]
  <2>1. ASSUME NEW v \in [1 .. 3 -> Int] PROVE Key(v, w) \in [1 .. 3 -> Int]
    <3>1. \A x \in Int : quantise(x, w) \in Int
      BY DEF quantise
    <3> QED BY <3>1 DEF Key
  <2>2. \A i \in DOMAIN soup.vertices : soup.vertices[i] \in [1 .. 3 -> Int]
    BY <1>1
  <2> QED BY <2>1, <2>2 DEF Distinct
<1>5. IsFiniteSet(D)
  <2>1. DOMAIN soup.vertices = 1 .. Len(soup.vertices) /\ Len(soup.vertices) \in Nat
    BY <1>1
  <2>2. IsFiniteSet(DOMAIN soup.vertices)
    BY <2>1, FS_Interval
  <2>3. D = {Key(soup.vertices[i], w) : i \in DOMAIN soup.vertices}
    BY DEF Distinct
  <2> DEFINE f == [i \in DOMAIN soup.vertices |-> Key(soup.vertices[i], w)]
  <2>4. f \in Surjection(DOMAIN soup.vertices, D)
    BY <2>3 DEF Surjection
  <2> HIDE DEF D, f
  <2> QED BY <2>2, <2>4, FS_Surjection
<1> HIDE DEF D
<1>6. /\ c \in Nat
      /\ N \in [1 .. c -> D]
      /\ \A k \in D : Rank(D)[k] \in 1 .. c /\ N[Rank(D)[k]] = k
      /\ \A m, n \in 1 .. c : m < n => KeyBefore(N[m], N[n])
  BY <1>4, <1>5, RanksNumber
<1> HIDE DEF c, N
<1>7. ASSUME NEW i \in 1 .. c, NEW j \in 1 .. c, i < j
      PROVE  KeyBefore(welded.vertices[i], welded.vertices[j])
  <2>1. N[i] \in [1 .. 3 -> Int] /\ N[j] \in [1 .. 3 -> Int] /\ KeyBefore(N[i], N[j])
    BY <1>4, <1>6, <1>7
  <2>2. \A l \in 1 .. 3 : welded.vertices[i][l] = N[i][l] * w /\ welded.vertices[j][l] = N[j][l] * w
    BY <1>3
  <2>3. ASSUME NEW x \in Int, NEW y \in Int, x < y PROVE x * w < y * w
    BY <2>3
  <2> QED BY <2>1, <2>2, <2>3 DEF KeyBefore
<1>8. ASSUME NEW t \in 1 .. Len(soup.triangles)
      PROVE  corners(welded, t) = facets[t]
  <2>1. facets[t] \in [1 .. 3 -> [1 .. 3 -> Int]]
    BY <1>1 DEF StandsFor
  <2>2. ASSUME NEW k \in 1 .. 3 PROVE welded.vertices[welded.triangles[t][k]] = facets[t][k]
    <3> DEFINE v == soup.vertices[soup.triangles[t][k]]
               key == Key(v, w)
    <3>1. soup.triangles[t][k] \in DOMAIN soup.vertices /\ v \in [1 .. 3 -> Int]
      <4>1. soup.triangles[t] \in [1 .. 3 -> DOMAIN soup.vertices]
        BY <1>1
      <4>2. soup.triangles[t][k] \in DOMAIN soup.vertices
        BY <4>1
      <4>3. \A i \in DOMAIN soup.vertices : soup.vertices[i] \in [1 .. 3 -> Int]
        BY <1>1
      <4> QED BY <4>2, <4>3
    <3>2. key \in D
      BY <3>1 DEF D, Distinct
    <3>3. welded.triangles[t][k] = Rank(D)[key]
      BY <1>3
    <3> HIDE DEF v, key
    <3>4. welded.vertices[Rank(D)[key]] = [l \in 1 .. 3 |-> key[l] * w]
      BY <1>3, <1>6, <3>2
    <3>5. ASSUME NEW l \in 1 .. 3 PROVE key[l] * w = facets[t][k][l]
      <4> DEFINE f == facets[t][k][l]
      <4>1. f \in Int /\ v[l] \in Int
        BY <2>1, <3>1
      <4>2. f % w = 0 /\ -w < 2 * (v[l] - f) /\ 2 * (v[l] - f) < w
        <5>1. t \in DOMAIN soup.triangles
          BY <1>1
        <5>2. \A m \in DOMAIN soup.triangles : \A a, b \in 1 .. 3 :
                /\ facets[m][a][b] % w = 0
                /\ -w < 2 * (soup.vertices[soup.triangles[m][a]][b] - facets[m][a][b])
                /\ 2 * (soup.vertices[soup.triangles[m][a]][b] - facets[m][a][b]) < w
          BY DEF StandsFor
        <5> QED BY <5>1, <5>2 DEF v
      <4>3. key[l] = quantise(v[l], w)
        BY DEF key, Key
      <4> HIDE DEF f
      <4>4. f = (f \div w) * w /\ f \div w \in Int
        BY <4>1, <4>2
      <4>5. quantise(v[l], w) = f \div w
        BY <4>1, <4>2, <4>4, Quantised
      <4> QED BY <4>3, <4>4, <4>5 DEF f
    <3>6. facets[t][k] \in [1 .. 3 -> Int]
      BY <2>1
    <3>7. [l \in 1 .. 3 |-> key[l] * w] = facets[t][k]
      BY <3>5, <3>6
    <3> QED BY <3>3, <3>4, <3>7
  <2> QED BY <2>1, <2>2 DEF corners
<1>9. Triangles(welded) = 1 .. Len(soup.triangles)
  BY <1>1, <1>3 DEF Triangles
<1>10. DOMAIN welded.vertices = 1 .. c
  BY <1>3
<1> QED BY <1>7, <1>8, <1>9, <1>10
-----------------------------------------------------------------------------
\* The mesh is the soup of a mesh source, welded; a field has no soup to weld.
WeldInv ==
  /\ source \in Sources
  /\ phase = "Raw" => source.kind # "field"
  /\ mesh # None => /\ source.kind = "mesh" /\ source.weld > 0
                    /\ mesh = weld(source.soup, source.weld)

(* Nothing is welded at first.                                               *)
LEMMA WeldInvInit == MillInit => WeldInv
BY DEF MillInit, Init, WeldInv

\* What a step that does not weld leaves: the mesh, and nothing raw again.
Welded == source' = source /\ mesh' = mesh /\ (phase' = "Raw" => phase = "Raw")

(* A mesh is welded once, of the soup.                                       *)
LEMMA WeldInvNext == WeldInv /\ [MillNext]_all_vars => WeldInv'
<1> SUFFICES ASSUME WeldInv, [MillNext]_all_vars PROVE WeldInv'
  OBVIOUS
<1>1. Welded => WeldInv'
  BY DEF Welded, WeldInv
<1>2. CASE UNCHANGED all_vars
  BY <1>1, <1>2 DEF all_vars, vars, Welded
<1>3. ASSUME Weld, source.kind # "tools" PROVE WeldInv'
  <2>1. source.kind = "mesh" /\ source.weld \in Int
    BY <1>3, KindsAssumption, MeshesAssumption DEF Weld, WeldInv
  <2>2. CASE source.weld <= 0
    <3>1. Welded
      BY <1>3, <2>2 DEF Weld, Refuse, Welded
    <3> QED BY <3>1, <1>1
  <2>3. CASE source.weld > 0
    <3>1. mesh' = weld(source.soup, source.weld) /\ phase' = "Building" /\ source' = source
      BY <1>3, <2>1, <2>3 DEF Weld
    <3> QED BY <3>1, <2>1, <2>3 DEF WeldInv
  <2> QED BY <2>1, <2>2, <2>3
<1>4. CASE SkipAxis
  BY <1>1, <1>4 DEF SkipAxis, Welded
<1>5. CASE Begin
  BY <1>1, <1>5 DEF Begin, Refuse, Welded
<1>6. CASE CastRay
  BY <1>1, <1>6 DEF CastRay, Refuse, Welded
<1>7. CASE Register
  BY <1>1, <1>7 DEF Register, Refuse, Welded
<1>8. CASE Write
  BY <1>1, <1>8 DEF Write, Welded
<1>9. CASE Damage
  BY <1>1, <1>9 DEF Damage, Welded
<1>10. CASE Read
  BY <1>1, <1>10 DEF Read, Refuse, Welded
<1>11. CASE StartSweep
  BY <1>1, <1>11 DEF StartSweep, Refuse, Welded
<1>12. CASE SweepSlab
  BY <1>1, <1>12 DEF SweepSlab, Welded
<1>13. CASE Extracted
  BY <1>1, <1>13 DEF Extracted, Welded
<1>14. CASE Draw
  BY <1>1, <1>14 DEF Draw, DrawnOr, Refuse, StockSame, Welded
<1>15. CASE EditLibrary
  BY <1>1, <1>15 DEF EditLibrary, StockSame, Welded
<1>16. CASE ReadLibrary
  BY <1>1, <1>16 DEF ReadLibrary, ReadOr, Refuse, StockSame, Welded
<1>17. CASE Tessellate
  BY <1>1, <1>17 DEF Tessellate, Refuse, StockSame, Welded
<1>18. CASE CutMotion
  BY <1>1, <1>18 DEF CutMotion, Welded
<1>19. CASE StockStep
  BY <1>19, <1>3, <1>4, <1>5, <1>6, <1>7, <1>8, <1>9, <1>10, <1>11, <1>12, <1>13 DEF StockStep
<1> QED BY <1>2, <1>19, <1>14, <1>15, <1>16, <1>17, <1>18 DEF MillNext

(* The invariant says what the mesh is; a mesh stands for facets.            *)
LEMMA WeldInvCanonical == WeldInv => WeldIsCanonical
<1> SUFFICES ASSUME WeldInv, mesh # None
    PROVE  /\ \A t \in Triangles(mesh) : corners(mesh, t) = source.facets[t]
           /\ \A i, j \in DOMAIN mesh.vertices :
                i < j => KeyBefore(mesh.vertices[i], mesh.vertices[j])
  BY DEF WeldIsCanonical
<1>1. /\ source \in Sources /\ source.kind = "mesh" /\ source.weld > 0
      /\ mesh = weld(source.soup, source.weld)
  BY DEF WeldInv
<1>2. source.weld \in Int /\ StandsFor(source.soup, source.facets, source.weld)
  BY <1>1, MeshesAssumption
<1> QED BY <1>1, <1>2, WeldStands

(***************************************************************************)
(* Welding is canonical (weld.rs:204-272): whatever soup a file spells, the *)
(* mesh that is built has the facets it stands for, and its vertices are in *)
(* the order of where they are and not of where the file names them.        *)
(***************************************************************************)
THEOREM WeldIsCanonicalHolds == MillSpec => []WeldIsCanonical
<1> QED BY WeldInvInit, WeldInvNext, WeldInvCanonical, PTL DEF MillSpec
-----------------------------------------------------------------------------
(* What the checks of the library file come to (io.rs): no fault is the        *)
(* conjunction of what each of them looks for.                                *)

(* The least of a set of numbers is one of it.                               *)
LEMMA MinIsOne ==
  ASSUME NEW T \in SUBSET Nat, T # {}
  PROVE  Min(T) \in T
BY NatMin, Zenon DEF Min

(* No first fault is no fault at all.                                        *)
LEMMA FirstFaultNone ==
  ASSUME NEW faults, DOMAIN faults \subseteq Nat
  PROVE  FirstFault(faults) = "None" <=> \A i \in DOMAIN faults : faults[i] = "None"
<1> DEFINE bad == {i \in DOMAIN faults : faults[i] # "None"}
<1>1. FirstFault(faults) = IF bad = {} THEN "None" ELSE faults[Min(bad)]
  BY DEF FirstFault
<1>2. bad # {} => Min(bad) \in bad
  <2>1. bad \in SUBSET Nat
    OBVIOUS
  <2> HIDE DEF bad
  <2> QED BY <2>1, MinIsOne
<1> QED BY <1>1, <1>2

\* A check of the library file is whether it passed and what the fault is.
Names == {"UnknownField", "MissingField", "BadType", "BadValue", "BadId", "WrongSchema",
          "UnsupportedVersion"}

Check == BOOLEAN \X Names

Passed(checks) == \A n \in DOMAIN checks : checks[n][1]

(* No check is the first to fail when all have passed.                       *)
LEMMA FirstFailedNone ==
  ASSUME NEW checks \in Seq(Check)
  PROVE  FirstFailed(checks) = "None" <=> Passed(checks)
<1> DEFINE f == [n \in DOMAIN checks |-> IF checks[n][1] THEN "None" ELSE checks[n][2]]
<1>1. FirstFailed(checks) = FirstFault(f)
  BY DEF FirstFailed
<1>2. DOMAIN f \subseteq Nat /\ DOMAIN f = DOMAIN checks
  OBVIOUS
<1>3. ASSUME NEW n \in DOMAIN checks PROVE f[n] = "None" <=> checks[n][1]
  <2>1. checks[n] \in Check
    OBVIOUS
  <2>2. checks[n][2] # "None"
    BY <2>1 DEF Check, Names
  <2> QED BY <2>2
<1> HIDE DEF f
<1> QED BY <1>1, <1>2, <1>3, FirstFaultNone DEF Passed

(* Two lists of checks pass when each does.                                  *)
LEMMA PassedTogether ==
  ASSUME NEW s \in Seq(Check), NEW t \in Seq(Check)
  PROVE  /\ s \o t \in Seq(Check)
         /\ Passed(s \o t) <=> Passed(s) /\ Passed(t)
<1>1. s \o t \in Seq(Check) /\ Len(s \o t) = Len(s) + Len(t)
  OBVIOUS
<1>2. ASSUME Passed(s \o t) PROVE Passed(s)
  <2>1. ASSUME NEW n \in DOMAIN s PROVE s[n][1]
    <3>1. n \in DOMAIN (s \o t) /\ (s \o t)[n] = s[n]
      OBVIOUS
    <3> QED BY <3>1, <1>2 DEF Passed
  <2> QED BY <2>1 DEF Passed
<1>3. ASSUME Passed(s \o t) PROVE Passed(t)
  <2>1. ASSUME NEW n \in DOMAIN t PROVE t[n][1]
    <3>1. Len(s) + n \in DOMAIN (s \o t) /\ (s \o t)[Len(s) + n] = t[n]
      OBVIOUS
    <3> QED BY <3>1, <1>3 DEF Passed
  <2> QED BY <2>1 DEF Passed
<1>4. ASSUME Passed(s), Passed(t) PROVE Passed(s \o t)
  <2>1. ASSUME NEW n \in DOMAIN (s \o t) PROVE (s \o t)[n][1]
    <3>1. CASE n \in DOMAIN s
      BY <3>1, <1>4 DEF Passed
    <3>2. CASE n \notin DOMAIN s
      <4>1. n - Len(s) \in DOMAIN t /\ (s \o t)[n] = t[n - Len(s)]
        BY <3>2
      <4> QED BY <4>1, <1>4 DEF Passed
    <3> QED BY <3>1, <3>2
  <2> QED BY <2>1 DEF Passed
<1> QED BY <1>1, <1>2, <1>3, <1>4

\* What the checks of an object come to.
IsPoint(map, name) ==
  /\ Has(map, name)
  /\ Len(map[name]) = 2
  /\ \A n \in DOMAIN map[name] : map[name][n] # None

IsElement(map) ==
  /\ Has(map, "kind") /\ map.kind \in {"segment", "arc"}
  /\ Has(map, "role") /\ map.role \in Range(RoleNames)
  /\ DOMAIN map \subseteq {"kind", "role", "start", "end"}
                            \union IF map.kind = "arc" THEN {"center", "direction"} ELSE {}
  /\ IsPoint(map, "start") /\ IsPoint(map, "end")
  /\ map.kind = "arc" => /\ Has(map, "direction") /\ map.direction \in {"ccw", "cw"}
                         /\ IsPoint(map, "center")

(* The checks of a point pass when it is one.                                *)
LEMMA PointChecked ==
  ASSUME NEW map, NEW name
  PROVE  /\ PointCheck(map, name) \in Seq(Check)
         /\ Passed(PointCheck(map, name)) <=> IsPoint(map, name)
<1> DEFINE p == PointCheck(map, name)
           a == Has(map, name)
           b == Has(map, name) => Len(map[name]) = 2
           c == Has(map, name) => \A n \in DOMAIN map[name] : map[name][n] # None
<1>1. p = <<<<a, "MissingField">>, <<b, "BadValue">>, <<c, "BadType">>>>
  BY Zenon DEF PointCheck
<1>2. a \in BOOLEAN /\ b \in BOOLEAN /\ c \in BOOLEAN
  BY Zenon DEF Has
<1> HIDE DEF a, b, c, p
<1>3. p \in Seq(Check)
  <2>1. <<a, "MissingField">> \in Check /\ <<b, "BadValue">> \in Check /\ <<c, "BadType">> \in Check
    BY <1>2 DEF Check, Names
  <2> QED BY <1>1, <2>1
<1>4. Passed(p) <=> a /\ b /\ c
  BY <1>1, <1>2 DEF Passed
<1> QED BY <1>3, <1>4, Zenon DEF a, b, c, p, IsPoint

(* The checks of an element pass when it is one.                             *)
LEMMA ElementChecked ==
  ASSUME NEW map
  PROVE  /\ element_checks(map) \in Seq(Check)
         /\ Passed(element_checks(map)) <=> IsElement(map)
<1> DEFINE arc == Has(map, "kind") /\ map.kind = "arc"
           keys == {"kind", "role", "start", "end"}
                     \union IF arc THEN {"center", "direction"} ELSE {}
           a == Has(map, "kind")
           b == Has(map, "role")
           c == Has(map, "role") => map.role \in Range(RoleNames)
           d == Has(map, "kind") => map.kind \in {"segment", "arc"}
           e == known_keys(map, keys)
           f == Has(map, "direction")
           g == Has(map, "direction") => map.direction \in {"ccw", "cw"}
           A == <<<<a, "MissingField">>, <<b, "MissingField">>, <<c, "BadValue">>, <<d, "BadValue">>,
                  <<e, "UnknownField">>>>
           B == IF arc THEN <<<<f, "MissingField">>, <<g, "BadValue">>>> ELSE <<>>
           start == PointCheck(map, "start")
           end == PointCheck(map, "end")
           center == IF arc THEN PointCheck(map, "center") ELSE <<>>
<1>1. element_checks(map) = A \o B \o start \o end \o center
  BY Zenon DEF element_checks
<1>2. a \in BOOLEAN /\ b \in BOOLEAN /\ c \in BOOLEAN /\ d \in BOOLEAN /\ e \in BOOLEAN
      /\ f \in BOOLEAN /\ g \in BOOLEAN
  BY Zenon DEF Has, known_keys
<1>3. start \in Seq(Check) /\ end \in Seq(Check) /\ PointCheck(map, "center") \in Seq(Check)
  BY PointChecked
<1>4. /\ Passed(start) <=> IsPoint(map, "start")
      /\ Passed(end) <=> IsPoint(map, "end")
      /\ Passed(PointCheck(map, "center")) <=> IsPoint(map, "center")
  BY PointChecked
<1>5. /\ a <=> Has(map, "kind")
      /\ b <=> Has(map, "role")
      /\ c <=> (Has(map, "role") => map.role \in Range(RoleNames))
      /\ d <=> (Has(map, "kind") => map.kind \in {"segment", "arc"})
      /\ e <=> DOMAIN map \subseteq keys
      /\ f <=> Has(map, "direction")
      /\ g <=> (Has(map, "direction") => map.direction \in {"ccw", "cw"})
  BY Zenon DEF known_keys
<1> HIDE DEF a, b, c, d, e, f, g, start, end
<1>6. A \in Seq(Check) /\ (Passed(A) <=> a /\ b /\ c /\ d /\ e)
  <2>1. A \in Seq(Check)
    BY <1>2 DEF Check, Names
  <2>2. Passed(A) <=> a /\ b /\ c /\ d /\ e
    BY <1>2 DEF Passed
  <2> QED BY <2>1, <2>2
<1>7. B \in Seq(Check) /\ (Passed(B) <=> (arc => f /\ g))
  <2>1. CASE arc
    <3>1. B = <<<<f, "MissingField">>, <<g, "BadValue">>>>
      BY <2>1
    <3> HIDE DEF B
    <3>2. B \in Seq(Check)
      BY <1>2, <3>1 DEF Check, Names
    <3>3. Passed(B) <=> f /\ g
      BY <1>2, <3>1 DEF Passed
    <3> QED BY <2>1, <3>2, <3>3
  <2>2. CASE ~arc
    <3>1. B = <<>>
      BY <2>2
    <3> HIDE DEF B
    <3> QED BY <2>2, <3>1 DEF Passed
  <2> QED BY <2>1, <2>2
<1>8. center \in Seq(Check) /\ (Passed(center) <=> (arc => IsPoint(map, "center")))
  <2>1. CASE arc
    BY <2>1, <1>3, <1>4
  <2>2. CASE ~arc
    <3>1. center = <<>>
      BY <2>2
    <3> HIDE DEF center
    <3> QED BY <2>2, <3>1 DEF Passed
  <2> QED BY <2>1, <2>2
<1> HIDE DEF A, B, center
<1>9. A \o B \in Seq(Check) /\ (Passed(A \o B) <=> Passed(A) /\ Passed(B))
  BY <1>6, <1>7, PassedTogether
<1>10. /\ A \o B \o start \in Seq(Check)
       /\ Passed(A \o B \o start) <=> Passed(A \o B) /\ Passed(start)
  BY <1>9, <1>3, PassedTogether
<1>11. /\ A \o B \o start \o end \in Seq(Check)
       /\ Passed(A \o B \o start \o end) <=> Passed(A \o B \o start) /\ Passed(end)
  BY <1>10, <1>3, PassedTogether
<1>12. /\ A \o B \o start \o end \o center \in Seq(Check)
       /\ Passed(A \o B \o start \o end \o center)
            <=> Passed(A \o B \o start \o end) /\ Passed(center)
  BY <1>11, <1>8, PassedTogether
<1>13. Passed(element_checks(map)) <=>
         /\ a /\ b /\ c /\ d /\ e
         /\ arc => f /\ g
         /\ IsPoint(map, "start") /\ IsPoint(map, "end")
         /\ arc => IsPoint(map, "center")
  <2> HIDE DEF arc
  <2> QED BY <1>1, <1>4, <1>6, <1>7, <1>8, <1>9, <1>10, <1>11, <1>12
<1>14. (a /\ d) => (arc <=> map.kind = "arc")
  BY <1>5
<1>15. Passed(element_checks(map)) <=> IsElement(map)
  BY <1>13, <1>5, Zenon DEF IsElement
<1> QED BY <1>1, <1>12, <1>15

(* The names of the roles name them one to one.                              *)
LEMMA RolesApart ==
  /\ Range(RoleNames) = {"cutting", "non-cutting", "holder"}
  /\ \A r \in 0 .. 2 : RoleNames[r + 1] \in Range(RoleNames)
  /\ \A w \in Range(RoleNames) : \E r \in 0 .. 2 : RoleNames[r + 1] = w
  /\ \A q, r \in 0 .. 2 : RoleNames[q + 1] = RoleNames[r + 1] => q = r
<1>1. /\ DOMAIN RoleNames = 1 .. 3 /\ RoleNames[1] = "cutting" /\ RoleNames[2] = "non-cutting"
      /\ RoleNames[3] = "holder"
  BY DEF RoleNames
<1>2. \A r \in 0 .. 2 : r + 1 \in 1 .. 3
  OBVIOUS
<1>3. Range(RoleNames) = {RoleNames[i] : i \in 1 .. 3}
  BY <1>1 DEF Range
<1>4. \A i \in 1 .. 3 : i = 1 \/ i = 2 \/ i = 3
  OBVIOUS
<1>5. Range(RoleNames) = {"cutting", "non-cutting", "holder"}
  BY <1>1, <1>3, <1>4
<1>6. \A r \in 0 .. 2 : RoleNames[r + 1] \in Range(RoleNames)
  BY <1>2, <1>3
<1>7. \A w \in Range(RoleNames) : \E r \in 0 .. 2 : RoleNames[r + 1] = w
  <2>1. ASSUME NEW i \in 1 .. 3 PROVE \E r \in 0 .. 2 : RoleNames[r + 1] = RoleNames[i]
    <3>1. i - 1 \in 0 .. 2 /\ (i - 1) + 1 = i
      OBVIOUS
    <3> QED BY <3>1
  <2> QED BY <2>1, <1>3
<1>8. \A q, r \in 0 .. 2 : RoleNames[q + 1] = RoleNames[r + 1] => q = r
  <2>1. \A q \in 0 .. 2 : (q = 0 /\ q + 1 = 1) \/ (q = 1 /\ q + 1 = 2) \/ (q = 2 /\ q + 1 = 3)
    OBVIOUS
  <2> QED BY <2>1, <1>1
<1> QED BY <1>5, <1>6, <1>7, <1>8

(* An element that is accepted is written again as it was.                   *)
LEMMA ElementReadsBack ==
  ASSUME NEW map, IsObject(map), IsElement(map)
  PROVE  element_to_json(element_from_json(map)) = map
<1> DEFINE role == CHOOSE r \in 0 .. 2 : RoleNames[r + 1] = map.role
           e == element_from_json(map)
<1>1. map.kind \in {"segment", "arc"} /\ map.role \in Range(RoleNames)
  BY DEF IsElement
<1>2. role \in 0 .. 2 /\ RoleNames[role + 1] = map.role
  BY <1>1, RolesApart
<1>3. {"kind", "role", "start", "end"} \subseteq DOMAIN map
  BY DEF IsElement, IsPoint, Has
<1> HIDE DEF role
<1>4. CASE map.kind = "segment"
  <2>1. DOMAIN map = {"kind", "role", "start", "end"}
    BY <1>3, <1>4 DEF IsElement
  <2>2. map = [kind |-> map.kind, role |-> map.role, start |-> map.start, end |-> map.end]
    BY <2>1 DEF IsObject
  <2>3. e = [kind |-> map.kind, role |-> role, start |-> map.start, end |-> map.end]
    BY <1>4 DEF element_from_json, role
  <2> HIDE DEF e
  <2>4. e.kind # "arc" /\ RoleNames[e.role + 1] = map.role
    BY <2>3, <1>2, <1>4
  <2>5. e.kind = map.kind /\ e.start = map.start /\ e.end = map.end
    BY <2>3
  <2>6. element_to_json(e) = [kind |-> map.kind, role |-> map.role, start |-> map.start, end |-> map.end]
    BY <2>4, <2>5 DEF element_to_json
  <2> QED BY <2>2, <2>6 DEF e
<1>5. CASE map.kind = "arc"
  <2>1. DOMAIN map = {"kind", "role", "start", "end", "center", "direction"}
    <3>1. {"center", "direction"} \subseteq DOMAIN map
      BY <1>5 DEF IsElement, IsPoint, Has
    <3> QED BY <1>3, <1>5, <3>1 DEF IsElement
  <2>2. map = [kind |-> map.kind, role |-> map.role, start |-> map.start, end |-> map.end,
               center |-> map.center, direction |-> map.direction]
    BY <2>1 DEF IsObject
  <2>3. e = [kind |-> map.kind, role |-> role, start |-> map.start, end |-> map.end,
             center |-> map.center, turn |-> IF map.direction = "ccw" THEN 1 ELSE -1]
    BY <1>5 DEF element_from_json, role
  <2>4. map.direction \in {"ccw", "cw"}
    BY <1>5 DEF IsElement
  <2> HIDE DEF e
  <2>5. e.kind = "arc" /\ RoleNames[e.role + 1] = map.role
        /\ (IF e.turn = 1 THEN "ccw" ELSE "cw") = map.direction
    BY <2>3, <2>4, <1>2, <1>5
  <2>6. e.kind = map.kind /\ e.start = map.start /\ e.end = map.end /\ e.center = map.center
    BY <2>3
  <2>7. element_to_json(e) = [kind |-> map.kind, role |-> map.role, start |-> map.start,
                              end |-> map.end, center |-> map.center, direction |-> map.direction]
    BY <2>5, <2>6 DEF element_to_json
  <2> QED BY <2>2, <2>7 DEF e
<1> QED BY <1>1, <1>4, <1>5

(* A point is spelled as a point.                                            *)
LEMMA PointIsSpelled ==
  ASSUME NEW map, NEW name \in DOMAIN map, map[name] \in Point
  PROVE  IsPoint(map, name)
<1>1. map[name] # None /\ Len(map[name]) = 2 /\ DOMAIN map[name] = 1 .. 2
  BY NoneAssumption DEF Point
<1>2. \A n \in 1 .. 2 : map[name][n] \in Int
  BY DEF Point
<1> QED BY <1>1, <1>2, NoneAssumption DEF IsPoint, Has

(* An element is spelled as one, and read back as it was.                    *)
LEMMA ElementIsSpelled ==
  ASSUME NEW e \in Element
  PROVE  /\ IsObject(element_to_json(e))
         /\ IsElement(element_to_json(e))
         /\ element_from_json(element_to_json(e)) = e
<1> DEFINE map == element_to_json(e)
           role == CHOOSE r \in 0 .. 2 : RoleNames[r + 1] = RoleNames[e.role + 1]
<1>1. e.role \in 0 .. 2 /\ e.start \in Point /\ e.end \in Point
  BY DEF Element
<1>2. role = e.role
  BY <1>1, RolesApart
<1>3. RoleNames[e.role + 1] \in Range(RoleNames) /\ RoleNames[e.role + 1] # None
      /\ None \notin {"segment", "arc", "ccw", "cw"}
  BY <1>1, RolesApart, NoneAssumption DEF Words
<1> HIDE DEF role
<1>4. CASE e.kind = "segment"
  <2>1. e = [kind |-> e.kind, start |-> e.start, end |-> e.end, role |-> e.role]
    BY <1>4 DEF Element
  <2>2. map = [kind |-> e.kind, role |-> RoleNames[e.role + 1], start |-> e.start, end |-> e.end]
    BY <1>4 DEF element_to_json
  <2> HIDE DEF map
  <2>3. /\ map.kind = "segment" /\ map.role = RoleNames[e.role + 1]
        /\ map.start = e.start /\ map.end = e.end
        /\ DOMAIN map = {"kind", "role", "start", "end"}
    BY <2>2, <1>4
  <2>4. IsObject(map)
    BY <2>2 DEF IsObject
  <2>5. IsPoint(map, "start") /\ IsPoint(map, "end")
    BY <2>3, <1>1, PointIsSpelled
  <2>6. IsElement(map)
    BY <2>3, <2>5, <1>3 DEF IsElement, Has
  <2>7. element_from_json(map) = [kind |-> e.kind, role |-> role, start |-> e.start, end |-> e.end]
    BY <2>3, <1>4 DEF element_from_json, role
  <2>8. element_from_json(map) = e
    BY <2>1, <2>7, <1>2
  <2> QED BY <2>4, <2>6, <2>8 DEF map
<1>5. CASE e.kind = "arc"
  <2>1. e = [kind |-> e.kind, start |-> e.start, end |-> e.end, role |-> e.role,
             center |-> e.center, turn |-> e.turn]
        /\ e.center \in Point /\ e.turn \in {1, -1}
    BY <1>5 DEF Element
  <2>2. map = [kind |-> e.kind, role |-> RoleNames[e.role + 1], start |-> e.start, end |-> e.end,
               center |-> e.center, direction |-> IF e.turn = 1 THEN "ccw" ELSE "cw"]
    BY <1>5 DEF element_to_json
  <2> HIDE DEF map
  <2>3. /\ map.kind = "arc" /\ map.role = RoleNames[e.role + 1]
        /\ map.start = e.start /\ map.end = e.end /\ map.center = e.center
        /\ map.direction = IF e.turn = 1 THEN "ccw" ELSE "cw"
        /\ DOMAIN map = {"kind", "role", "start", "end", "center", "direction"}
    BY <2>2, <1>5
  <2>4. IsObject(map)
    BY <2>2 DEF IsObject
  <2>5. IsPoint(map, "start") /\ IsPoint(map, "end") /\ IsPoint(map, "center")
    BY <2>1, <2>3, <1>1, PointIsSpelled
  <2>6. IsElement(map)
    BY <2>3, <2>5, <1>3 DEF IsElement, Has
  <2>7. element_from_json(map) = [kind |-> e.kind, role |-> role, start |-> e.start, end |-> e.end,
                                  center |-> e.center, turn |-> IF map.direction = "ccw" THEN 1 ELSE -1]
    BY <2>3, <1>5 DEF element_from_json, role
  <2>8. (IF map.direction = "ccw" THEN 1 ELSE -1) = e.turn
    BY <2>1, <2>3
  <2>9. element_from_json(map) = e
    BY <2>1, <2>7, <2>8, <1>2
  <2> QED BY <2>4, <2>6, <2>9 DEF map
<1> QED BY <1>4, <1>5 DEF Element

(* A list of lists of checks passes when each of the lists does.             *)
LEMMA FlatPassed ==
  ASSUME NEW n \in Nat, NEW f \in [1 .. n -> Seq(Check)]
  PROVE  /\ FlattenSeq(f) \in Seq(Check)
         /\ Passed(FlattenSeq(f)) <=> \A i \in 1 .. n : Passed(f[i])
<1>0. KeepsAll(n, f)
  BY FlattenHas
<1>1. FlattenSeq(f) \in Seq(Check)
  BY FlattenTyped
<1>2. ASSUME Passed(FlattenSeq(f)), NEW i \in 1 .. n PROVE Passed(f[i])
  <2>1. ASSUME NEW j \in DOMAIN f[i] PROVE f[i][j][1]
    <3>1. j \in 1 .. Len(f[i])
      OBVIOUS
    <3>2. PICK k \in 1 .. Len(FlattenSeq(f)) : FlattenSeq(f)[k] = f[i][j]
      BY <1>0, <3>1 DEF KeepsAll
    <3>3. k \in DOMAIN FlattenSeq(f)
      BY <1>1
    <3>4. FlattenSeq(f)[k][1]
      BY <3>3, <1>2 DEF Passed
    <3> QED BY <3>2, <3>4
  <2> QED BY <2>1 DEF Passed
<1>3. ASSUME \A i \in 1 .. n : Passed(f[i]) PROVE Passed(FlattenSeq(f))
  <2> DEFINE E == {c \in Check : c[1]}
  <2>1. ASSUME NEW i \in 1 .. n PROVE f[i] \in Seq(E)
    <3>1. f[i] \in Seq(Check)
      OBVIOUS
    <3>2. ASSUME NEW j \in 1 .. Len(f[i]) PROVE f[i][j] \in E
      <4>1. j \in DOMAIN f[i] /\ f[i][j] \in Check
        BY <3>1
      <4>2. f[i][j][1]
        BY <4>1, <1>3 DEF Passed
      <4> QED BY <4>1, <4>2
    <3> HIDE DEF E
    <3> QED BY <3>1, <3>2
  <2>2. FlattenSeq(f) \in Seq(E)
    <3> HIDE DEF E
    <3>1. f \in [1 .. n -> Seq(E)]
      BY <2>1
    <3> QED BY <3>1, FlattenTyped
  <2>3. ASSUME NEW k \in DOMAIN FlattenSeq(f) PROVE FlattenSeq(f)[k][1]
    <3>1. FlattenSeq(f)[k] \in E
      <4> HIDE DEF E
      <4> QED BY <2>2
    <3> QED BY <3>1
  <2> QED BY <2>3 DEF Passed
<1> QED BY <1>1, <1>2, <1>3

(* There is no fault when there is neither of two.                           *)
LEMMA BothNone ==
  ASSUME NEW f, NEW g
  PROVE  OrElse(f, g) = "None" <=> f = "None" /\ g = "None"
BY DEF OrElse

\* What the checks of a tool come to.
HasFields(map) ==
  /\ DOMAIN map \subseteq tool_keys
  /\ Has(map, "id") /\ id_fault(map.id) = "None"
  /\ Has(map, "number") /\ map.number <= MaxNumber
  /\ Has(map, "gauge_length") /\ Has(map, "profile")

IsTool(map) ==
  /\ HasFields(map)
  /\ \A n \in DOMAIN map.profile : IsElement(map.profile[n])
  /\ profile_fault(tool_from_json(map).profile) = "None"
  /\ gauge_fault(tool_from_json(map).profile, tool_from_json(map).gauge) = "None"

(* The checks of the fields of a tool pass when it has them.                 *)
LEMMA FieldsChecked ==
  ASSUME NEW map
  PROVE  FirstFailed(<<<<known_keys(map, tool_keys), "UnknownField">>,
                       <<Has(map, "id"), "MissingField">>,
                       <<Has(map, "id") => id_fault(map.id) = "None", "BadId">>,
                       <<Has(map, "number"), "MissingField">>,
                       <<Has(map, "number") => map.number <= MaxNumber, "BadValue">>,
                       <<Has(map, "gauge_length"), "MissingField">>,
                       <<Has(map, "profile"), "BadType">>>>) = "None"
           <=> HasFields(map)
<1> DEFINE a == known_keys(map, tool_keys)
           b == Has(map, "id")
           c == Has(map, "id") => id_fault(map.id) = "None"
           d == Has(map, "number")
           e == Has(map, "number") => map.number <= MaxNumber
           f == Has(map, "gauge_length")
           g == Has(map, "profile")
           A == <<<<a, "UnknownField">>, <<b, "MissingField">>, <<c, "BadId">>, <<d, "MissingField">>,
                  <<e, "BadValue">>, <<f, "MissingField">>, <<g, "BadType">>>>
<1>1. /\ a \in BOOLEAN /\ b \in BOOLEAN /\ c \in BOOLEAN /\ d \in BOOLEAN /\ e \in BOOLEAN
      /\ f \in BOOLEAN /\ g \in BOOLEAN
  BY Zenon DEF Has, known_keys
<1>2. a /\ b /\ c /\ d /\ e /\ f /\ g <=> HasFields(map)
  BY Zenon DEF HasFields, known_keys
<1> HIDE DEF a, b, c, d, e, f, g
<1>3. A \in Seq(Check)
  BY <1>1 DEF Check, Names
<1>4. Passed(A) <=> a /\ b /\ c /\ d /\ e /\ f /\ g
  BY <1>1 DEF Passed
<1> HIDE DEF A
<1>5. FirstFailed(A) = "None" <=> HasFields(map)
  BY <1>2, <1>3, <1>4, FirstFailedNone
<1> QED BY <1>5, Zenon DEF A, a, b, c, d, e, f, g

(* A tool has no fault when it is one.                                       *)
LEMMA ToolChecked ==
  ASSUME NEW map, Has(map, "profile") => AreObjects(map.profile)
  PROVE  tool_fault(map) = "None" <=> IsTool(map)
<1> DEFINE fields == FirstFailed(<<<<known_keys(map, tool_keys), "UnknownField">>,
                       <<Has(map, "id"), "MissingField">>,
                       <<Has(map, "id") => id_fault(map.id) = "None", "BadId">>,
                       <<Has(map, "number"), "MissingField">>,
                       <<Has(map, "number") => map.number <= MaxNumber, "BadValue">>,
                       <<Has(map, "gauge_length"), "MissingField">>,
                       <<Has(map, "profile"), "BadType">>>>)
           each == [n \in DOMAIN map.profile |-> element_checks(map.profile[n])]
           tool == tool_from_json(map)
           profile == profile_fault(tool.profile)
           gauge == gauge_fault(tool.profile, tool.gauge)
<1>1. tool_fault(map) = OrElse(OrElse(fields, FirstFailed(FlattenSeq(each))), OrElse(profile, gauge))
  BY Zenon DEF tool_fault
<1>2. fields = "None" <=> HasFields(map)
  BY FieldsChecked
<1>3. ASSUME HasFields(map)
      PROVE  FirstFailed(FlattenSeq(each)) = "None"
               <=> \A n \in DOMAIN map.profile : IsElement(map.profile[n])
  <2>1. DOMAIN map.profile = 1 .. Len(map.profile) /\ Len(map.profile) \in Nat
    BY <1>3 DEF HasFields, AreObjects, IsArray
  <2>2. each \in [1 .. Len(map.profile) -> Seq(Check)]
    BY <2>1, ElementChecked
  <2>3. \A n \in DOMAIN map.profile : Passed(each[n]) <=> IsElement(map.profile[n])
    BY ElementChecked
  <2> HIDE DEF each
  <2>4. /\ FlattenSeq(each) \in Seq(Check)
        /\ Passed(FlattenSeq(each)) <=> \A i \in 1 .. Len(map.profile) : Passed(each[i])
    BY <2>1, <2>2, FlatPassed
  <2> QED BY <2>1, <2>3, <2>4, FirstFailedNone
<1> HIDE DEF fields, each, profile, gauge
<1>4. tool_fault(map) = "None" <=>
        /\ fields = "None" /\ FirstFailed(FlattenSeq(each)) = "None"
        /\ profile = "None" /\ gauge = "None"
  BY <1>1, BothNone
<1> QED BY <1>2, <1>3, <1>4 DEF IsTool, profile, gauge

\* What the checks of a library come to.
IsLibrary(doc) ==
  /\ DOMAIN doc = {"schema", "version", "tools"}
  /\ doc.schema = TOOL_FILE_SCHEMA /\ doc.version = TOOL_FILE_VERSION
  /\ \A field_name \in {"schema", "version", "tools"} : doc[field_name] # None
  /\ \A n \in DOMAIN doc.tools : IsTool(doc.tools[n])
  /\ ~duplicated(from_json(doc))

(* A library has no fault when it is one.                                    *)
LEMMA LibraryChecked ==
  ASSUME NEW doc, Has(doc, "tools") => AreTools(doc.tools)
  PROVE  library_fault(doc) = "None" <=> IsLibrary(doc)
<1> DEFINE a == known_keys(doc, {"schema", "version", "tools"})
           b == Has(doc, "schema")
           c == Has(doc, "schema") => doc.schema = TOOL_FILE_SCHEMA
           d == Has(doc, "version")
           e == Has(doc, "version") => doc.version = TOOL_FILE_VERSION
           f == Has(doc, "tools")
           A == <<<<a, "UnknownField">>, <<b, "MissingField">>, <<c, "WrongSchema">>,
                  <<d, "MissingField">>, <<e, "UnsupportedVersion">>, <<f, "BadType">>>>
           each == [n \in DOMAIN doc.tools |-> tool_fault(doc.tools[n])]
           last == IF duplicated(from_json(doc)) THEN "BadValue" ELSE "None"
<1>1. library_fault(doc) = OrElse(FirstFailed(A), OrElse(FirstFault(each), last))
  BY Zenon DEF library_fault
<1>2. /\ a \in BOOLEAN /\ b \in BOOLEAN /\ c \in BOOLEAN /\ d \in BOOLEAN /\ e \in BOOLEAN
      /\ f \in BOOLEAN
  BY Zenon DEF Has, known_keys
<1>3. a /\ b /\ c /\ d /\ e /\ f <=>
        /\ DOMAIN doc = {"schema", "version", "tools"}
        /\ doc.schema = TOOL_FILE_SCHEMA /\ doc.version = TOOL_FILE_VERSION
        /\ \A field_name \in {"schema", "version", "tools"} : doc[field_name] # None
  <2>1. ASSUME a, b, c, d, e, f
        PROVE  /\ DOMAIN doc = {"schema", "version", "tools"}
               /\ doc.schema = TOOL_FILE_SCHEMA /\ doc.version = TOOL_FILE_VERSION
               /\ \A field_name \in {"schema", "version", "tools"} : doc[field_name] # None
    BY <2>1 DEF Has, known_keys
  <2>2. ASSUME DOMAIN doc = {"schema", "version", "tools"},
               doc.schema = TOOL_FILE_SCHEMA, doc.version = TOOL_FILE_VERSION,
               \A field_name \in {"schema", "version", "tools"} : doc[field_name] # None
        PROVE  a /\ b /\ c /\ d /\ e /\ f
    BY <2>2 DEF Has, known_keys
  <2> QED BY <2>1, <2>2
<1>4. f => /\ DOMAIN doc.tools \subseteq Nat
           /\ \A n \in DOMAIN doc.tools : Has(doc.tools[n], "profile") => AreObjects(doc.tools[n].profile)
  <2> SUFFICES ASSUME f PROVE DOMAIN doc.tools \subseteq Nat /\ AreTools(doc.tools)
    BY DEF AreTools
  <2>1. AreTools(doc.tools)
    OBVIOUS
  <2>2. IsArray(doc.tools)
    BY <2>1 DEF AreTools, AreObjects
  <2>3. doc.tools \in Seq({doc.tools[n] : n \in DOMAIN doc.tools})
    BY <2>2 DEF IsArray
  <2>4. DOMAIN doc.tools = 1 .. Len(doc.tools)
    BY <2>3
  <2> QED BY <2>1, <2>4
<1>5. f => (FirstFault(each) = "None" <=> \A n \in DOMAIN doc.tools : IsTool(doc.tools[n]))
  <2> SUFFICES ASSUME f PROVE FirstFault(each) = "None" <=> \A n \in DOMAIN doc.tools : IsTool(doc.tools[n])
    OBVIOUS
  <2>1. DOMAIN each \subseteq Nat /\ DOMAIN each = DOMAIN doc.tools
    BY <1>4
  <2>2. ASSUME NEW n \in DOMAIN doc.tools PROVE each[n] = "None" <=> IsTool(doc.tools[n])
    <3>1. each[n] = tool_fault(doc.tools[n])
      OBVIOUS
    <3>2. Has(doc.tools[n], "profile") => AreObjects(doc.tools[n].profile)
      BY <1>4
    <3> QED BY <3>1, <3>2, ToolChecked
  <2> HIDE DEF each
  <2> QED BY <2>1, <2>2, FirstFaultNone
<1>6. last = "None" <=> ~duplicated(from_json(doc))
  OBVIOUS
<1> HIDE DEF a, b, c, d, e, f, each, last
<1>7. A \in Seq(Check)
  BY <1>2 DEF Check, Names
<1>8. Passed(A) <=> a /\ b /\ c /\ d /\ e /\ f
  BY <1>2 DEF Passed
<1> HIDE DEF A
<1>9. FirstFailed(A) = "None" <=> a /\ b /\ c /\ d /\ e /\ f
  BY <1>7, <1>8, FirstFailedNone
<1>10. library_fault(doc) = "None" <=>
         (a /\ b /\ c /\ d /\ e /\ f) /\ FirstFault(each) = "None" /\ last = "None"
  BY <1>1, <1>9, BothNone
<1> QED BY <1>3, <1>5, <1>6, <1>10 DEF IsLibrary

-----------------------------------------------------------------------------
(* A file that is accepted, written again.                                    *)
Stripped(map) == [f \in DOMAIN map \ {"description"} |-> map[f]]

(* An array is a sequence.                                                   *)
LEMMA ArrayIsWhole ==
  ASSUME NEW list, IsArray(list)
  PROVE  /\ list = [n \in DOMAIN list |-> list[n]]
         /\ DOMAIN list = 1 .. Len(list) /\ Len(list) \in Nat
BY DEF IsArray

(* A profile that is accepted is written again as it was.                    *)
LEMMA ProfileReadsBack ==
  ASSUME NEW list, AreObjects(list), \A n \in DOMAIN list : IsElement(list[n])
  PROVE  [n \in DOMAIN list |-> element_to_json(element_from_json(list[n]))] = list
<1>1. \A n \in DOMAIN list : element_to_json(element_from_json(list[n])) = list[n]
  BY ElementReadsBack DEF AreObjects
<1>2. list = [n \in DOMAIN list |-> list[n]]
  BY ArrayIsWhole DEF AreObjects
<1> QED BY <1>1, <1>2, Zenon

(* So is a tool, but for its description.                                    *)
LEMMA ToolReadsBack ==
  ASSUME NEW map, IsTool(map), Has(map, "profile") => AreObjects(map.profile)
  PROVE  Stripped(tool_to_json(tool_from_json(map))) = Stripped(map)
<1> DEFINE tool == tool_from_json(map)
           back == tool_to_json(tool)
<1>1. AreObjects(map.profile) /\ \A n \in DOMAIN map.profile : IsElement(map.profile[n])
  BY DEF IsTool, HasFields
<1>2. /\ tool.id = map.id /\ tool.number = map.number /\ tool.gauge = map.gauge_length
      /\ tool.profile = [n \in DOMAIN map.profile |-> element_from_json(map.profile[n])]
  BY DEF tool_from_json
<1> HIDE DEF tool
<1>3. /\ DOMAIN back = {"id", "number", "description", "gauge_length", "profile"}
      /\ back.id = map.id /\ back.number = map.number /\ back.gauge_length = map.gauge_length
      /\ back.profile = [n \in DOMAIN tool.profile |-> element_to_json(tool.profile[n])]
  BY <1>2 DEF tool_to_json
<1>4. back.profile = map.profile
  <2>1. back.profile = [n \in DOMAIN map.profile |-> element_to_json(element_from_json(map.profile[n]))]
    BY <1>2, <1>3
  <2> QED BY <2>1, <1>1, ProfileReadsBack
<1> HIDE DEF back
<1>5. DOMAIN back \ {"description"} = {"id", "number", "gauge_length", "profile"}
  BY <1>3
<1>6. DOMAIN map \ {"description"} = {"id", "number", "gauge_length", "profile"}
  BY DEF IsTool, HasFields, Has, tool_keys
<1>7. \A f \in {"id", "number", "gauge_length", "profile"} : back[f] = map[f]
  BY <1>3, <1>4
<1>8. Stripped(back) = Stripped(map)
  BY <1>5, <1>6, <1>7 DEF Stripped
<1> QED BY <1>8 DEF back, tool

(* So is a library.                                                          *)
LEMMA FileReadsBack ==
  ASSUME NEW doc, IsObject(doc), IsLibrary(doc), Has(doc, "tools") => AreTools(doc.tools)
  PROVE  Undescribed(library_to_json(from_json(doc))) = Undescribed(doc)
<1> DEFINE tools == from_json(doc)
           back == library_to_json(tools)
           bared == [n \in DOMAIN doc.tools |-> Stripped(doc.tools[n])]
<1>1. /\ DOMAIN doc = {"schema", "version", "tools"} /\ doc.schema = TOOL_FILE_SCHEMA
      /\ doc.version = TOOL_FILE_VERSION /\ AreTools(doc.tools)
      /\ \A n \in DOMAIN doc.tools : IsTool(doc.tools[n])
  BY DEF IsLibrary, Has
<1>2. Undescribed(doc) = [doc EXCEPT !.tools = bared]
  BY Zenon DEF Undescribed, Stripped
<1>3. DOMAIN tools = DOMAIN doc.tools
      /\ \A n \in DOMAIN doc.tools : tools[n] = tool_from_json(doc.tools[n])
  BY DEF from_json
<1> HIDE DEF tools
<1>4. back = [schema |-> TOOL_FILE_SCHEMA, version |-> TOOL_FILE_VERSION,
              tools |-> [n \in DOMAIN doc.tools |-> tool_to_json(tools[n])]]
  BY <1>3 DEF library_to_json
<1> HIDE DEF back
<1>5. DOMAIN back.tools = DOMAIN doc.tools
      /\ \A n \in DOMAIN doc.tools : back.tools[n] = tool_to_json(tools[n])
  BY <1>4
<1>6. Undescribed(back) = [back EXCEPT !.tools = [n \in DOMAIN back.tools |-> Stripped(back.tools[n])]]
  BY Zenon DEF Undescribed, Stripped
<1>7. ASSUME NEW n \in DOMAIN doc.tools PROVE Stripped(back.tools[n]) = Stripped(doc.tools[n])
  <2>1. IsTool(doc.tools[n]) /\ (Has(doc.tools[n], "profile") => AreObjects(doc.tools[n].profile))
    BY <1>1 DEF AreTools
  <2>2. Stripped(tool_to_json(tool_from_json(doc.tools[n]))) = Stripped(doc.tools[n])
    BY <2>1, ToolReadsBack
  <2> QED BY <2>2, <1>3, <1>5
<1>8. [n \in DOMAIN back.tools |-> Stripped(back.tools[n])] = bared
  BY <1>5, <1>7
<1> HIDE DEF bared
<1>9. Undescribed(back) = [schema |-> TOOL_FILE_SCHEMA, version |-> TOOL_FILE_VERSION, tools |-> bared]
  BY <1>4, <1>6, <1>8
<1>10. Undescribed(doc) = [schema |-> TOOL_FILE_SCHEMA, version |-> TOOL_FILE_VERSION, tools |-> bared]
  BY <1>1, <1>2 DEF IsObject
<1> QED BY <1>9, <1>10 DEF back, tools

-----------------------------------------------------------------------------
(* The file of a library that was drawn.                                      *)
\* A tool that may be in a library, and that the file can spell.
IsSound(tool) ==
  /\ tool.id # None /\ id_fault(tool.id) = "None"
  /\ tool.number \in Int /\ tool.number <= MaxNumber /\ tool.gauge \in Int
  /\ tool.profile \in Seq(Element)
  /\ profile_fault(tool.profile) = "None" /\ gauge_fault(tool.profile, tool.gauge) = "None"
  /\ tool_to_json(tool).profile # None

(* A function of the first numbers is an array.                              *)
LEMMA MappedIsArray ==
  ASSUME NEW n \in Nat, NEW list, list = [i \in 1 .. n |-> list[i]]
  PROVE  IsArray(list)
BY DEF IsArray

(* A sound tool is spelled as one, with its name and its number.             *)
LEMMA ToolIsSpelled ==
  ASSUME NEW tool, IsSound(tool)
  PROVE  /\ IsObject(tool_to_json(tool)) /\ IsTool(tool_to_json(tool))
         /\ AreObjects(tool_to_json(tool).profile)
         /\ tool_from_json(tool_to_json(tool)).id = tool.id
         /\ tool_from_json(tool_to_json(tool)).number = tool.number
<1> DEFINE map == tool_to_json(tool)
           list == map.profile
           again == tool_from_json(map)
<1>1. map = [id |-> tool.id, number |-> tool.number, description |-> tool.description,
             gauge_length |-> tool.gauge,
             profile |-> [n \in DOMAIN tool.profile |-> element_to_json(tool.profile[n])]]
  BY DEF tool_to_json
<1>2. list # None
  BY DEF IsSound
<1> HIDE DEF map
<1>3. /\ DOMAIN map = {"id", "number", "description", "gauge_length", "profile"}
      /\ map.id = tool.id /\ map.number = tool.number /\ map.gauge_length = tool.gauge
      /\ list = [n \in DOMAIN tool.profile |-> element_to_json(tool.profile[n])]
  BY <1>1
<1>4. IsObject(map)
  BY <1>1 DEF IsObject
<1> HIDE DEF list
<1>5. /\ tool.profile \in Seq(Element) /\ DOMAIN tool.profile = 1 .. Len(tool.profile)
      /\ Len(tool.profile) \in Nat
      /\ \A n \in DOMAIN tool.profile : tool.profile[n] \in Element
  <2>1. tool.profile \in Seq(Element)
    BY DEF IsSound
  <2> QED BY <2>1
<1>6. /\ DOMAIN list = DOMAIN tool.profile
      /\ \A n \in DOMAIN list : list[n] = element_to_json(tool.profile[n])
  BY <1>3
<1>7. \A n \in DOMAIN list : /\ IsObject(list[n]) /\ IsElement(list[n])
                             /\ element_from_json(list[n]) = tool.profile[n]
  BY <1>5, <1>6, ElementIsSpelled
<1>8. AreObjects(list)
  <2>1. list = [i \in 1 .. Len(tool.profile) |-> list[i]]
    BY <1>3, <1>5
  <2>2. IsArray(list)
    BY <2>1, <1>5, MappedIsArray
  <2> QED BY <2>2, <1>7 DEF AreObjects
<1>9. again.id = tool.id /\ again.number = tool.number /\ again.gauge = tool.gauge
      /\ again.profile = [n \in DOMAIN list |-> element_from_json(list[n])]
  BY <1>3 DEF tool_from_json, list
<1>10. again.profile = tool.profile
  <2>1. tool.profile = [n \in DOMAIN list |-> tool.profile[n]]
    BY <1>5, <1>6
  <2> QED BY <2>1, <1>7, <1>9, Zenon
<1>11. HasFields(map)
  <2>1. /\ tool.id # None /\ tool.number # None /\ tool.gauge # None
        /\ id_fault(tool.id) = "None" /\ tool.number <= MaxNumber
    BY NoneAssumption DEF IsSound
  <2> QED BY <1>2, <1>3, <2>1 DEF HasFields, Has, tool_keys, list
<1>12. IsTool(map)
  <2>1. profile_fault(again.profile) = "None" /\ gauge_fault(again.profile, again.gauge) = "None"
    BY <1>9, <1>10 DEF IsSound
  <2> QED BY <2>1, <1>7, <1>11 DEF IsTool, list
<1> QED BY <1>4, <1>8, <1>9, <1>12 DEF map, list

(* A library of sound tools is spelled as one.                               *)
LEMMA FileIsSpelled ==
  ASSUME NEW tools, IsArray(tools), \A n \in DOMAIN tools : IsSound(tools[n]), ~duplicated(tools),
         library_to_json(tools).tools # None
  PROVE  /\ IsObject(library_to_json(tools)) /\ AreTools(library_to_json(tools).tools)
         /\ IsLibrary(library_to_json(tools))
<1> DEFINE doc == library_to_json(tools)
           list == doc.tools
           again == from_json(doc)
<1>1. doc = [schema |-> TOOL_FILE_SCHEMA, version |-> TOOL_FILE_VERSION,
             tools |-> [n \in DOMAIN tools |-> tool_to_json(tools[n])]]
  BY DEF library_to_json
<1>2. list # None
  OBVIOUS
<1> HIDE DEF doc
<1>3. /\ DOMAIN doc = {"schema", "version", "tools"} /\ doc.schema = TOOL_FILE_SCHEMA
      /\ doc.version = TOOL_FILE_VERSION
      /\ list = [n \in DOMAIN tools |-> tool_to_json(tools[n])]
  BY <1>1
<1>4. IsObject(doc)
  BY <1>1 DEF IsObject
<1> HIDE DEF list
<1>5. DOMAIN list = DOMAIN tools /\ \A n \in DOMAIN list : list[n] = tool_to_json(tools[n])
  BY <1>3
<1>6. \A n \in DOMAIN list : /\ IsObject(list[n]) /\ IsTool(list[n]) /\ AreObjects(list[n].profile)
                             /\ tool_from_json(list[n]).id = tools[n].id
                             /\ tool_from_json(list[n]).number = tools[n].number
  BY <1>5, ToolIsSpelled
<1>7. AreTools(list)
  <2>1. DOMAIN tools = 1 .. Len(tools) /\ Len(tools) \in Nat
    BY ArrayIsWhole
  <2>2. list = [i \in 1 .. Len(tools) |-> list[i]]
    BY <1>3, <2>1
  <2>3. IsArray(list)
    BY <2>1, <2>2, MappedIsArray
  <2> QED BY <2>3, <1>6 DEF AreTools, AreObjects
<1>8. ~duplicated(again)
  <2>1. DOMAIN again = DOMAIN tools
        /\ \A n \in DOMAIN tools : again[n].id = tools[n].id /\ again[n].number = tools[n].number
    BY <1>5, <1>6 DEF from_json, list
  <2> HIDE DEF again
  <2> QED BY <2>1 DEF duplicated
<1>9. \A name \in {"schema", "version", "tools"} : doc[name] # None
  <2>1. TOOL_FILE_SCHEMA # None /\ TOOL_FILE_VERSION # None
    BY NoneAssumption DEF Words, TOOL_FILE_VERSION
  <2> QED BY <2>1, <1>2, <1>3 DEF list
<1> QED BY <1>3, <1>4, <1>6, <1>7, <1>8, <1>9 DEF IsLibrary, doc, list

-----------------------------------------------------------------------------
(* What a drawing draws is a profile of elements (catalog.rs).                *)
Chain == [elements : Seq(Element), cursor : Point]

(* The root of a natural number is one.                                      *)
LEMMA RootTyped ==
  ASSUME NEW n \in Nat
  PROVE  Root(n) \in Nat
<1> DEFINE T == {k \in 0 .. n : k * k >= n}
           IsRoot(k) == k * k >= n /\ \A j \in {k - 1} : j < 0 \/ j * j < n
<1>1. n \in T
  <2>1. n = 0 \/ n >= 1
    OBVIOUS
  <2>2. n >= 1 => n * n >= n
    BY SMT
  <2> QED BY <2>1, <2>2
<1>2. PICK k \in T : \A y \in T : k <= y
  <2>1. T \in SUBSET Nat /\ T # {}
    BY <1>1
  <2> HIDE DEF T
  <2> QED BY <2>1, NatMin
<1>3. k \in 0 .. n /\ IsRoot(k)
  <2>1. k \in 0 .. n /\ k * k >= n
    OBVIOUS
  <2>2. ASSUME k - 1 >= 0 PROVE (k - 1) * (k - 1) < n
    <3>1. k - 1 \in 0 .. n /\ ~(k <= k - 1)
      BY <2>1, <2>2
    <3>2. k - 1 \notin T
      BY <1>2, <3>1
    <3> DEFINE j == k - 1
    <3>3. j \in 0 .. n /\ ~(j * j >= n)
      BY <3>1, <3>2
    <3>4. j * j \in Int
      BY <3>3
    <3> QED BY <3>3, <3>4
  <2> QED BY <2>1, <2>2
<1>4. Root(n) = CHOOSE x \in 0 .. n : IsRoot(x)
  BY DEF Root
<1> HIDE DEF IsRoot
<1>5. Root(n) \in 0 .. n
  BY <1>3, <1>4
<1> QED BY <1>5

(* A chain with a line added is a chain.                                     *)
LEMMA LineTyped ==
  ASSUME NEW chain \in Chain, NEW r \in Int, NEW z \in Int, NEW role \in 0 .. 2
  PROVE  line_to(chain, r, z, role) \in Chain
<1> DEFINE e == [kind |-> "segment", start |-> chain.cursor, end |-> <<r, z>>, role |-> role]
<1>1. e \in Element /\ <<r, z>> \in Point
  BY DEF Chain, Element, Point
<1>2. e.end = <<r, z>>
  OBVIOUS
<1>3. line_to(chain, r, z, role) = Extend(chain, e)
  BY DEF line_to
<1> HIDE DEF e
<1>4. Extend(chain, e) \in Chain
  BY <1>1, <1>2 DEF Extend, Chain
<1> QED BY <1>3, <1>4

(* A chain with an arc added is a chain.                                     *)
LEMMA ArcTyped ==
  ASSUME NEW chain \in Chain, NEW r \in Int, NEW z \in Int, NEW center \in Point
  PROVE  arc_to(chain, r, z, center) \in Chain
<1> DEFINE e == [kind |-> "arc", start |-> chain.cursor, end |-> <<r, z>>, role |-> Cutting,
                 center |-> center, turn |-> 1]
<1>1. e \in Element /\ <<r, z>> \in Point
  BY DEF Chain, Element, Point, Cutting
<1>2. e.end = <<r, z>>
  OBVIOUS
<1>3. arc_to(chain, r, z, center) = Extend(chain, e)
  BY DEF arc_to
<1> HIDE DEF e
<1>4. Extend(chain, e) \in Chain
  BY <1>1, <1>2 DEF Extend, Chain
<1> QED BY <1>3, <1>4

(* A chain with stages upon it is a chain.                                   *)
LEMMA StackTyped ==
  ASSUME NEW chain \in Chain, NEW stages \in Seq(Stage), NEW from \in Int
  PROVE  Stack(chain, stages, from) \in Chain
<1> DEFINE n == Len(stages)
           S == [z : Int, chain : Chain]
           x == [z |-> from, chain |-> chain]
           Next1(s, y) == [z |-> y.z + s.length,
                           chain |-> line_to(line_to(y.chain, s.bottom \div 2, y.z, HolderRole),
                                             s.top \div 2, y.z + s.length, HolderRole)]
           T == [k \in 1 .. n |-> [y \in S |-> Next1(stages[k], y)]]
           Is(at) == at = [k \in 0 .. n |-> IF k = 0 THEN x ELSE Next1(stages[k], at[k - 1])]
           at == CHOOSE at : Is(at)
<1>0. n \in Nat /\ x \in S
  OBVIOUS
<1>1. ASSUME NEW s \in Stage, NEW y \in S PROVE Next1(s, y) \in S
  <2>1. /\ s.bottom \div 2 \in Int /\ s.top \div 2 \in Int /\ y.z \in Int /\ y.z + s.length \in Int
        /\ y.chain \in Chain /\ HolderRole \in 0 .. 2
    BY DEF Stage, HolderRole
  <2> DEFINE foot == line_to(y.chain, s.bottom \div 2, y.z, HolderRole)
  <2>2. foot \in Chain
    BY <2>1, LineTyped
  <2> HIDE DEF foot
  <2>3. line_to(foot, s.top \div 2, y.z + s.length, HolderRole) \in Chain
    BY <2>1, <2>2, LineTyped
  <2> QED BY <2>1, <2>3 DEF foot
<1> HIDE DEF Next1
<1>2. \A k \in 1 .. n : stages[k] \in Stage
  OBVIOUS
<1>3. \A k \in 1 .. n : \A y \in S : T[k][y] = Next1(stages[k], y) /\ T[k][y] \in S
  BY <1>1, <1>2
<1>4. PICK h : Iterates(h, n, x, T)
  <2> HIDE DEF T, n, x, S
  <2> QED BY <1>0, <1>3, IterationExists
<1> HIDE DEF T, S, x
<1>5. h = [k \in 0 .. n |-> IF k = 0 THEN x ELSE T[k][h[k - 1]]]
  BY <1>4 DEF Iterates
<1>6. \A k \in 0 .. n : h[k] \in S
  <2> DEFINE G == {k \in 0 .. n : h[k] \in S}
  <2>1. 0 \in G
    BY <1>0, <1>5
  <2>2. ASSUME NEW k \in 0 .. n - 1, k \in G PROVE k + 1 \in G
    <3>1. k + 1 \in 1 .. n /\ (k + 1) - 1 = k /\ k + 1 \in 0 .. n
      BY <1>0
    <3>2. h[k + 1] = T[k + 1][h[k]]
      BY <1>5, <3>1
    <3> QED BY <1>3, <2>2, <3>1, <3>2
  <2> HIDE DEF G, n
  <2>3. \A k \in 0 .. n : k \in G
    BY <1>0, <2>1, <2>2, Induction
  <2> QED BY <2>3 DEF G
<1>7. Is(h)
  <2>1. ASSUME NEW k \in 1 .. n PROVE T[k][h[k - 1]] = Next1(stages[k], h[k - 1])
    <3>1. k - 1 \in 0 .. n
      BY <1>0
    <3> QED BY <3>1, <1>3, <1>6
  <2>2. \A k \in 0 .. n : k # 0 => k \in 1 .. n
    BY <1>0
  <2> QED BY <1>5, <2>1, <2>2
<1>8. Is(at)
  <2> HIDE DEF Is
  <2> QED BY <1>7
<1>9. Stack(chain, stages, from) = at[n].chain
  BY Zenon DEF Stack, Next1, x
<1>10. \A k \in 0 .. n : at[k] \in S
  <2> DEFINE G == {k \in 0 .. n : at[k] \in S}
  <2> HIDE DEF at
  <2>1. 0 \in G
    BY <1>0, <1>8
  <2>2. ASSUME NEW k \in 0 .. n - 1, k \in G PROVE k + 1 \in G
    <3>1. k + 1 \in 1 .. n /\ (k + 1) - 1 = k /\ k + 1 \in 0 .. n /\ k + 1 # 0
      BY <1>0
    <3>2. at[k + 1] = Next1(stages[k + 1], at[k])
      BY <1>8, <3>1
    <3>3. at[k] \in S /\ stages[k + 1] \in Stage
      BY <2>2, <1>2, <3>1
    <3> QED BY <1>1, <3>1, <3>2, <3>3
  <2> HIDE DEF G, n
  <2>3. \A k \in 0 .. n : k \in G
    BY <1>0, <2>1, <2>2, Induction
  <2> QED BY <2>3 DEF G
<1>11. at[n] \in S
  <2> HIDE DEF at
  <2> QED BY <1>0, <1>10
<1> HIDE DEF at
<1> QED BY <1>9, <1>11 DEF S

(* The widest point of a barrel is at a whole height.                        *)
LEMMA WidestTyped ==
  ASSUME NEW barrel \in Int, NEW half \in Int
  PROVE  Widest(barrel, half) \in Int
<1> DEFINE away == half - barrel
           x == barrel * barrel - away * away
           m == Max({0, x})
<1>1. Widest(barrel, half) = Root(m)
  BY Zenon DEF Widest
<1>2. x \in Int
  OBVIOUS
<1> HIDE DEF x
<1>3. m \in Nat
  <2> DEFINE IsMax(k) == \A y \in {0, x} : k >= y
  <2>1. \E k \in {0, x} : IsMax(k)
    <3>1. x >= 0 \/ 0 >= x
      BY <1>2
    <3> QED BY <1>2, <3>1
  <2>2. m = CHOOSE k \in {0, x} : IsMax(k)
    BY Zenon DEF Max
  <2>3. m \in {0, x} /\ IsMax(m)
    <3> HIDE DEF IsMax, m
    <3> QED BY <2>1, <2>2
  <2>4. m \in Int /\ m >= 0
    <3> HIDE DEF m
    <3> QED BY <2>3, <1>2
  <2> QED BY <2>4
<1> HIDE DEF m
<1> QED BY <1>1, <1>3, RootTyped

(* A cone is of a whole height.                                              *)
LEMMA ConeTyped ==
  ASSUME NEW rise \in Int, NEW slope \in Nat
  PROVE  Cone(rise, slope) \in Int
BY DEF Cone

(* The dimensions of a drawing are numbers.                                  *)
LEMMA Dimensioned ==
  ASSUME NEW d, IsDrawing(d)
  PROVE  /\ "diameter" \in DOMAIN d => d.diameter \in Int
         /\ "flute" \in Dimensions[d.form] => d.flute \in Int
         /\ "corner" \in Dimensions[d.form] => d.corner \in Int
         /\ "tip" \in Dimensions[d.form] => d.tip \in Int
         /\ "slope" \in Dimensions[d.form] => d.slope \in Nat
         /\ "barrel" \in Dimensions[d.form] => d.barrel \in Int
BY DEF IsDrawing

(* The flutes of a form are a chain.                                         *)
LEMMA FlutesTyped ==
  ASSUME NEW d, IsDrawing(d), d.form # "holder"
  PROVE  Flutes(d) \in Chain
<1> DEFINE half == IF "diameter" \in DOMAIN d THEN d.diameter \div 2 ELSE 0
           Up(chain) == line_to(chain, half, d.flute, Cutting)
           Out(r) == line_to(NewChain, r, 0, Cutting)
<1>1. half \in Int
  <2>1. CASE "diameter" \in DOMAIN d
    <3>1. d.diameter \in Int
      BY <2>1, Dimensioned
    <3> QED BY <2>1, <3>1
  <2>2. CASE "diameter" \notin DOMAIN d
    BY <2>2
  <2> QED BY <2>1, <2>2
<1> HIDE DEF half
<1>2. NewChain \in Chain /\ 0 \in Int /\ Cutting \in 0 .. 2
  BY DEF NewChain, Chain, Point, Cutting
<1>3. \A r \in Int : Out(r) \in Chain
  BY <1>2, LineTyped
<1>4. "flute" \in Dimensions[d.form] => \A chain \in Chain : Up(chain) \in Chain
  BY <1>1, <1>2, Dimensioned, LineTyped
<1> HIDE DEF Up, Out
<1>5. CASE d.form = "flat"
  <2>1. Flutes(d) = Up(Out(half))
    BY <1>5 DEF Flutes, Up, Out, half
  <2>2. "flute" \in Dimensions[d.form]
    BY <1>5 DEF Dimensions
  <2> QED BY <2>1, <2>2, <1>1, <1>3, <1>4
<1>6. CASE d.form = "ball"
  <2>1. Flutes(d) = Up(arc_to(NewChain, half, half, <<0, half>>))
    BY <1>6 DEF Flutes, Up, half
  <2>2. "flute" \in Dimensions[d.form]
    BY <1>6 DEF Dimensions
  <2>3. arc_to(NewChain, half, half, <<0, half>>) \in Chain
    <3>1. <<0, half>> \in Point
      BY <1>1 DEF Point
    <3> QED BY <3>1, <1>1, <1>2, ArcTyped
  <2> QED BY <2>1, <2>2, <2>3, <1>4
<1>7. CASE d.form = "bull"
  <2> DEFINE arc == arc_to(Out(half - d.corner), half, d.corner, <<half - d.corner, d.corner>>)
  <2>1. Flutes(d) = Up(arc)
    BY <1>7 DEF Flutes, Up, Out, half
  <2>2. "flute" \in Dimensions[d.form] /\ "corner" \in Dimensions[d.form]
    BY <1>7 DEF Dimensions
  <2>3. arc \in Chain
    <3>1. d.corner \in Int
      BY <2>2, Dimensioned
    <3>2. half - d.corner \in Int /\ <<half - d.corner, d.corner>> \in Point
      BY <1>1, <3>1 DEF Point
    <3> QED BY <3>1, <3>2, <1>1, <1>3, ArcTyped
  <2> HIDE DEF arc
  <2> QED BY <2>1, <2>2, <2>3, <1>4
<1>8. CASE d.form = "chamfer"
  <2> DEFINE line == line_to(Out(d.tip \div 2), half, Cone(half - d.tip \div 2, d.slope), Cutting)
  <2>1. Flutes(d) = Up(line)
    BY <1>8 DEF Flutes, Up, Out, half
  <2>2. /\ "flute" \in Dimensions[d.form] /\ "tip" \in Dimensions[d.form]
        /\ "slope" \in Dimensions[d.form]
    BY <1>8 DEF Dimensions
  <2>3. line \in Chain
    <3>1. d.tip \in Int /\ d.slope \in Nat
      BY <2>2, Dimensioned
    <3>2. d.tip \div 2 \in Int /\ half - d.tip \div 2 \in Int
      BY <1>1, <3>1
    <3> DEFINE height == Cone(half - d.tip \div 2, d.slope)
    <3>3. height \in Int
      BY <3>1, <3>2, ConeTyped
    <3> HIDE DEF height
    <3>4. line_to(Out(d.tip \div 2), half, height, Cutting) \in Chain
      BY <3>2, <3>3, <1>1, <1>2, <1>3, LineTyped
    <3> QED BY <3>4 DEF height
  <2> HIDE DEF line
  <2> QED BY <2>1, <2>2, <2>3, <1>4
<1>9. CASE d.form = "tapered"
  <2>1. Flutes(d) = line_to(Out(d.tip \div 2), d.tip \div 2 + d.flute * d.slope, d.flute, Cutting)
    BY <1>9 DEF Flutes, Out
  <2>2. /\ "flute" \in Dimensions[d.form] /\ "tip" \in Dimensions[d.form]
        /\ "slope" \in Dimensions[d.form]
    BY <1>9 DEF Dimensions
  <2>3. d.tip \in Int /\ d.slope \in Nat /\ d.flute \in Int
    BY <2>2, Dimensioned
  <2>4. d.tip \div 2 \in Int /\ d.flute * d.slope \in Int
    BY <2>3
  <2>5. d.tip \div 2 + d.flute * d.slope \in Int /\ Out(d.tip \div 2) \in Chain
    BY <2>4, <1>3
  <2> QED BY <2>1, <2>3, <2>5, <1>2, LineTyped
<1>10. CASE d.form = "drill"
  <2> DEFINE line == line_to(NewChain, half, Cone(half, d.slope), Cutting)
  <2>1. Flutes(d) = Up(line)
    BY <1>10 DEF Flutes, Up, half
  <2>2. "flute" \in Dimensions[d.form] /\ "slope" \in Dimensions[d.form]
    BY <1>10 DEF Dimensions
  <2>3. Cone(half, d.slope) \in Int
    BY <1>1, <2>2, Dimensioned, ConeTyped
  <2>4. line \in Chain
    BY <1>1, <1>2, <2>3, LineTyped
  <2> HIDE DEF line
  <2> QED BY <2>1, <2>2, <2>4, <1>4
<1>11. CASE d.form = "barrel"
  <2> DEFINE height == Widest(d.barrel, half)
             arc == arc_to(NewChain, half, height, <<half - d.barrel, height>>)
  <2>1. Flutes(d) = Up(arc)
    BY <1>11 DEF Flutes, Up, half
  <2>2. "flute" \in Dimensions[d.form] /\ "barrel" \in Dimensions[d.form]
    BY <1>11 DEF Dimensions
  <2>3. d.barrel \in Int /\ height \in Int
    BY <1>1, <2>2, Dimensioned, WidestTyped
  <2> HIDE DEF height
  <2>4. <<half - d.barrel, height>> \in Point
    BY <1>1, <2>3 DEF Point
  <2>5. arc \in Chain
    BY <1>1, <1>2, <2>3, <2>4, ArcTyped
  <2> HIDE DEF arc
  <2> QED BY <2>1, <2>2, <2>5, <1>4
<1>12. CASE d.form = "form"
  <2>1. Flutes(d) = from_elements(d.cutting)
    BY <1>12 DEF Flutes
  <2>2. d.cutting \in Seq(Element)
    BY <1>12 DEF IsDrawing
  <2>3. CASE d.cutting = <<>>
    BY <2>1, <2>2, <2>3 DEF from_elements, Chain, Point
  <2>4. CASE d.cutting # <<>>
    <3>1. Last(d.cutting) \in Element
      BY <2>2, <2>4 DEF Last
    <3>2. Last(d.cutting).end \in Point
      BY <3>1 DEF Element
    <3> QED BY <2>1, <2>2, <2>4, <3>2 DEF from_elements, Chain
  <2> QED BY <2>3, <2>4
<1> QED BY <1>5, <1>6, <1>7, <1>8, <1>9, <1>10, <1>11, <1>12 DEF IsDrawing, Dimensions

(* What is drawn is a profile.                                               *)
LEMMA DrawnTyped ==
  ASSUME NEW d, IsDrawing(d)
  PROVE  DrawnElements(d) \in Seq(Element)
<1>1. d.shank.diameter \in Int /\ d.shank.overall \in Int /\ d.shank.holder \in Seq(Stage)
  BY DEF IsDrawing
<1>2. CASE d.form = "holder"
  <2>1. NewChain \in Chain
    BY DEF NewChain, Chain, Point
  <2>2. Stack(NewChain, d.shank.holder, 0) \in Chain
    BY <1>1, <2>1, StackTyped
  <2>3. DrawnElements(d) = Stack(NewChain, d.shank.holder, 0).elements
    BY <1>2 DEF DrawnElements
  <2> QED BY <2>2, <2>3 DEF Chain
<1>3. CASE d.form # "holder"
  <2> DEFINE flutes == Flutes(d)
             flute_top == flutes.cursor[2]
             r == d.shank.diameter \div 2
             a == line_to(flutes, r, flute_top, NonCutting)
             b == line_to(a, r, d.shank.overall, NonCutting)
  <2>1. flutes \in Chain
    BY <1>3, FlutesTyped
  <2>2. flute_top \in Int /\ r \in Int /\ NonCutting \in 0 .. 2
    BY <1>1, <2>1 DEF Chain, Point, NonCutting
  <2>3. DrawnElements(d) = Stack(b, d.shank.holder, d.shank.overall).elements
    BY <1>3, Zenon DEF DrawnElements, ShankAndHolder
  <2> HIDE DEF flutes, flute_top, r
  <2>4. a \in Chain
    BY <2>1, <2>2, LineTyped
  <2> HIDE DEF a
  <2>5. b \in Chain
    BY <1>1, <2>2, <2>4, LineTyped
  <2> HIDE DEF b
  <2>6. Stack(b, d.shank.holder, d.shank.overall) \in Chain
    BY <1>1, <2>5, StackTyped
  <2> QED BY <2>3, <2>6 DEF Chain
<1> QED BY <1>2, <1>3

-----------------------------------------------------------------------------
(* The library, from the drawing to the reading.                              *)
(* A document is an object whose tools, and their profiles, are arrays of   *)
(* objects.                                                                  *)
IsDocument(doc) == IsObject(doc) /\ (Has(doc, "tools") => AreTools(doc.tools))

(* A tool drawn without a fault is sound.                                    *)
LEMMA DrawnIsSound ==
  ASSUME NEW s \in Sources, NEW n \in DOMAIN s.tools, DrawFault(s.tools[n]) = "None"
  PROVE  IsSound(DrawnBy(s)[n])
<1> DEFINE drawing == s.tools[n].drawing
           tool == Drawn(s.tools[n])
<1>1. DrawnBy(s)[n] = tool /\ DOMAIN DrawnBy(s) = DOMAIN s.tools
  BY DEF DrawnBy
<1>2. /\ tool.id = s.tools[n].id /\ tool.number = s.tools[n].number /\ tool.gauge = s.tools[n].gauge
      /\ tool.profile = DrawnElements(drawing)
  BY DEF Drawn
<1> HIDE DEF tool
<1>3. /\ drawing_fault(drawing) = "None" /\ id_fault(s.tools[n].id) = "None"
      /\ gauge_fault(DrawnElements(drawing), s.tools[n].gauge) = "None"
  <2> DEFINE a == drawing_fault(drawing)
             b == IF id_fault(s.tools[n].id) # "None" THEN "BadId" ELSE "None"
             c == gauge_fault(DrawnElements(drawing), s.tools[n].gauge)
  <2>1. OrElse(a, OrElse(b, c)) = "None"
    BY Zenon DEF DrawFault
  <2> HIDE DEF a, b, c
  <2>2. a = "None" /\ b = "None" /\ c = "None"
    BY <2>1, BothNone
  <2> QED BY <2>2 DEF a, b, c
<1>4. profile_fault(DrawnElements(drawing)) = "None"
  <2> DEFINE a == FirstFailed(FormChecks(drawing))
             b == IF drawing.form = "holder" THEN "None"
                  ELSE FirstFailed(ShankChecks(drawing.shank, Flutes(drawing).cursor[2]))
             c == profile_fault(DrawnElements(drawing))
  <2>1. OrElse(a, OrElse(b, c)) = "None"
    BY <1>3, Zenon DEF drawing_fault
  <2> HIDE DEF a, b, c
  <2>2. c = "None"
    BY <2>1, BothNone
  <2> QED BY <2>2 DEF c
<1>5. /\ IsDrawing(drawing) /\ s.tools[n].number \in Int /\ s.tools[n].number <= MaxNumber
      /\ s.tools[n].gauge \in Int
  BY ToolsAssumption
<1>6. tool.profile \in Seq(Element)
  BY <1>2, <1>5, DrawnTyped
<1>7. tool.id # None /\ tool_to_json(tool).profile # None
  <2> DEFINE written == library_to_json(DrawnBy(s)).tools
  <2>1. written = [i \in DOMAIN DrawnBy(s) |-> tool_to_json(DrawnBy(s)[i])]
    BY DEF library_to_json
  <2>2. \A i \in DOMAIN written : written[i].id # None /\ written[i].profile # None
    BY NoneAssumption
  <2> HIDE DEF written
  <2>3. n \in DOMAIN written /\ written[n] = tool_to_json(tool)
    BY <1>1, <2>1
  <2>4. tool_to_json(tool).id = tool.id
    BY DEF tool_to_json
  <2> QED BY <2>2, <2>3, <2>4
<1>8. IsSound(tool)
  BY <1>2, <1>3, <1>4, <1>5, <1>6, <1>7 DEF IsSound
<1> QED BY <1>1, <1>8

(* The file of a library drawn without a fault is one that is accepted.      *)
LEMMA DrawnIsAccepted ==
  ASSUME NEW s \in Sources, s.tools # <<>>,
         FirstFault([n \in DOMAIN s.tools |-> DrawFault(s.tools[n])]) = "None",
         ~duplicated(DrawnBy(s))
  PROVE  LET doc == library_to_json(DrawnBy(s))
         IN IsDocument(doc) /\ IsLibrary(doc) /\ DOMAIN doc.tools # {}
<1> DEFINE faults == [n \in DOMAIN s.tools |-> DrawFault(s.tools[n])]
           tools == DrawnBy(s)
           doc == library_to_json(tools)
<1>1. /\ IsArray(s.tools) /\ DOMAIN s.tools = 1 .. Len(s.tools) /\ Len(s.tools) \in Nat
      /\ s.tools = [n \in DOMAIN s.tools |-> s.tools[n]]
  BY ToolsAssumption, ArrayIsWhole
<1>2. DOMAIN s.tools # {}
  <2>1. s.tools \in Seq({s.tools[n] : n \in DOMAIN s.tools})
    BY <1>1 DEF IsArray
  <2> QED BY <2>1
<1>3. \A n \in DOMAIN s.tools : DrawFault(s.tools[n]) = "None"
  <2>1. DOMAIN faults = DOMAIN s.tools /\ \A n \in DOMAIN s.tools : faults[n] = DrawFault(s.tools[n])
    OBVIOUS
  <2>2. FirstFault(faults) = "None"
    OBVIOUS
  <2>3. DOMAIN faults \subseteq Nat
    BY <1>1
  <2> HIDE DEF faults
  <2>4. \A i \in DOMAIN faults : faults[i] = "None"
    BY <2>2, <2>3, FirstFaultNone
  <2> QED BY <2>1, <2>4
<1>4. DOMAIN tools = DOMAIN s.tools /\ tools = [n \in DOMAIN s.tools |-> tools[n]]
  BY DEF DrawnBy
<1>5. IsArray(tools)
  <2> HIDE DEF tools
  <2> QED BY <1>1, <1>4, MappedIsArray
<1>6. \A n \in DOMAIN tools : IsSound(tools[n])
  BY <1>3, <1>4, DrawnIsSound
<1>7. doc.tools # None
  BY NoneAssumption
<1>8. DOMAIN doc.tools = DOMAIN tools
  BY DEF library_to_json
<1> HIDE DEF tools
<1>9. IsObject(doc) /\ AreTools(doc.tools) /\ IsLibrary(doc)
  BY <1>5, <1>6, <1>7, FileIsSpelled DEF tools
<1> QED BY <1>2, <1>4, <1>8, <1>9 DEF IsDocument, tools

\* An object in which a field has been put.
IsPut(new, map, name, value) ==
  /\ IsObject(new) /\ new[name] = value
  /\ \A f \in DOMAIN new : f # name => f \in DOMAIN map /\ new[f] = map[f]

(* An object with a field put in is an object.                               *)
LEMMA PutIsObject ==
  ASSUME NEW map, NEW name, NEW value
  PROVE  IsPut(Put(map, name, value), map, name, value)
BY DEF Put, IsObject, IsPut

(* An array with one of its objects replaced is an array of objects.         *)
LEMMA ReplacedInArray ==
  ASSUME NEW list, AreObjects(list), NEW i, NEW value, i \in DOMAIN list => IsObject(value)
  PROVE  AreObjects([list EXCEPT ![i] = value])
<1> DEFINE new == [list EXCEPT ![i] = value]
<1>1. /\ IsArray(list) /\ DOMAIN list = 1 .. Len(list) /\ Len(list) \in Nat
      /\ list = [n \in DOMAIN list |-> list[n]]
  BY ArrayIsWhole DEF AreObjects
<1>2. new = [n \in 1 .. Len(list) |-> new[n]] /\ DOMAIN new = DOMAIN list
  BY <1>1
<1>3. \A n \in DOMAIN list : new[n] = IF n = i THEN value ELSE list[n]
  BY <1>1
<1> HIDE DEF new
<1>4. IsArray(new)
  BY <1>1, <1>2, MappedIsArray
<1>5. \A n \in DOMAIN new : IsObject(new[n])
  BY <1>2, <1>3 DEF AreObjects
<1>6. AreObjects(new)
  BY <1>4, <1>5 DEF AreObjects
<1> QED BY <1>6 DEF new

(* A tool edited is an object whose profile is an array of objects.          *)
LEMMA EditedToolIsTyped ==
  ASSUME NEW map, IsObject(map), Has(map, "profile"), AreObjects(map.profile),
         NEW e, EditIsTyped(e), e[1] # 0
  PROVE  /\ IsObject(EditTool(map, e))
         /\ Has(EditTool(map, e), "profile") => AreObjects(EditTool(map, e).profile)
<1>1. CASE e[2] = 0
  <2> DEFINE m == Put(map, e[3], e[4])
  <2>1. EditTool(map, e) = m
    BY <1>1 DEF EditTool
  <2>2. IsPut(m, map, e[3], e[4])
    BY PutIsObject
  <2> HIDE DEF m
  <2>3. Has(m, "profile") => AreObjects(m.profile)
    <3>1. CASE e[3] = "profile"
      BY <1>1, <2>2, <3>1 DEF Has, EditIsTyped, IsPut
    <3>2. CASE e[3] # "profile"
      BY <2>2, <3>2 DEF Has, IsPut
    <3> QED BY <3>1, <3>2
  <2> QED BY <2>1, <2>2, <2>3 DEF IsPut
<1>2. CASE e[2] # 0
  <2> DEFINE put == Put(map.profile[e[2]], e[3], e[4])
             list == [map.profile EXCEPT ![e[2]] = put]
             m == [map EXCEPT !.profile = list]
  <2>1. EditTool(map, e) = m
    BY <1>2 DEF EditTool
  <2>2. IsObject(put)
    BY PutIsObject DEF IsPut
  <2> HIDE DEF put
  <2>3. AreObjects(list)
    BY <2>2, ReplacedInArray
  <2> HIDE DEF list
  <2>4. m.profile = list /\ IsObject(m)
    BY DEF Has, IsObject
  <2> HIDE DEF m
  <2> QED BY <2>1, <2>3, <2>4
<1> QED BY <1>1, <1>2

(* A document edited is a document.                                          *)
LEMMA EditedIsDocument ==
  ASSUME NEW doc, IsDocument(doc), IsLibrary(doc), NEW e, EditIsTyped(e)
  PROVE  IsDocument(Edit(doc, e))
<1>1. /\ IsObject(doc) /\ AreTools(doc.tools) /\ "tools" \in DOMAIN doc
      /\ \A n \in DOMAIN doc.tools : IsTool(doc.tools[n])
  BY DEF IsDocument, IsLibrary, Has
<1>2. CASE e[1] = 0
  <2> DEFINE new == Put(doc, e[3], e[4])
  <2>1. Edit(doc, e) = new
    BY <1>2 DEF Edit
  <2>2. IsPut(new, doc, e[3], e[4])
    BY PutIsObject
  <2> HIDE DEF new
  <2>3. Has(new, "tools") => AreTools(new.tools)
    <3>1. CASE e[3] = "tools"
      BY <1>2, <2>2, <3>1 DEF Has, EditIsTyped, IsPut
    <3>2. CASE e[3] # "tools"
      BY <1>1, <2>2, <3>2 DEF Has, IsPut
    <3> QED BY <3>1, <3>2
  <2> QED BY <2>1, <2>2, <2>3 DEF IsDocument, IsPut
<1>3. CASE e[1] # 0
  <2> DEFINE i == e[1]
             tool == EditTool(doc.tools[i], e)
             list == [doc.tools EXCEPT ![i] = tool]
             new == [doc EXCEPT !.tools = list]
  <2>1. Edit(doc, e) = new
    <3>1. Edit(doc, e) = [doc EXCEPT !.tools[i] = tool]
      BY <1>3 DEF Edit
    <3> HIDE DEF tool, i
    <3> QED BY <3>1
  <2>2. i \in DOMAIN doc.tools =>
          IsObject(tool) /\ (Has(tool, "profile") => AreObjects(tool.profile))
    <3>1. ASSUME i \in DOMAIN doc.tools
          PROVE  IsObject(doc.tools[i]) /\ Has(doc.tools[i], "profile") /\ AreObjects(doc.tools[i].profile)
      BY <1>1, <3>1 DEF AreTools, AreObjects, IsTool, HasFields
    <3> QED BY <3>1, <1>3, EditedToolIsTyped
  <2> HIDE DEF tool, i
  <2>3. AreObjects(list)
    BY <1>1, <2>2, ReplacedInArray DEF AreTools
  <2>4. \A n \in DOMAIN list : Has(list[n], "profile") => AreObjects(list[n].profile)
    <3>1. DOMAIN list = DOMAIN doc.tools
      OBVIOUS
    <3>2. \A n \in DOMAIN list : list[n] = IF n = i THEN tool ELSE doc.tools[n]
      OBVIOUS
    <3> HIDE DEF list
    <3> QED BY <1>1, <2>2, <3>1, <3>2 DEF AreTools
  <2> HIDE DEF list
  <2>5. new.tools = list /\ IsObject(new)
    BY <1>1 DEF IsObject
  <2> HIDE DEF new
  <2> QED BY <2>1, <2>3, <2>4, <2>5 DEF IsDocument, AreTools
<1> QED BY <1>2, <1>3

(* What is known of the library at each stage of it.                         *)
LibraryInv ==
  /\ source \in Sources
  /\ tooling \in {"Drawing", "Filed", "Edited", "Tooled", "Meshed", "Refused"}
  /\ tooling = "Drawing" => /\ document = None /\ library = <<>> /\ phase # "Refused"
                            /\ source.tools # <<>>
  /\ tooling = "Filed" => /\ IsDocument(document) /\ IsLibrary(document) /\ DOMAIN document.tools # {}
                          /\ library = <<>> /\ phase # "Refused"
  /\ tooling = "Edited" => IsDocument(document) /\ library = <<>> /\ source.edits # {}
  /\ tooling \in {"Tooled", "Meshed"} =>
       document = None \/ library # <<>> \/ source.edits # {}
  /\ LibraryReadsBack

(* It holds before anything is drawn.                                        *)
LEMMA LibraryInvInit == MillInit => LibraryInv
BY DEF MillInit, Init, LibraryInv, LibraryReadsBack

(* What is not the drawing, the editing or the reading of the library leaves it *)
(* alone.                                                                    *)
LEMMA StockKeepsLibrary ==
  ASSUME StockStep \/ CutMotion \/ Tessellate \/ UNCHANGED all_vars
  PROVE  /\ source' = source /\ document' = document /\ library' = library
         /\ \/ tooling' = tooling /\ (phase' = phase /\ why' = why)
            \/ tooling = "Tooled" /\ tooling' \in {"Tooled", "Meshed", "Refused"}
<1>1. CASE UNCHANGED all_vars
  BY <1>1 DEF all_vars, vars, tool_vars
<1>2. CASE Tessellate
  BY <1>2 DEF Tessellate, Refuse, StockSame
<1>3. CASE CutMotion
  BY <1>3 DEF CutMotion
<1>4. CASE StockStep
  <2>1. tooling = "Tooled" /\ UNCHANGED tool_vars
    BY <1>4 DEF StockStep
  <2>2. source' = source
    <3>1. CASE Weld
      BY <3>1 DEF Weld
    <3>2. CASE SkipAxis
      BY <3>2 DEF SkipAxis
    <3>3. CASE Begin
      BY <3>3 DEF Begin
    <3>4. CASE CastRay
      BY <3>4 DEF CastRay
    <3>5. CASE Register
      BY <3>5 DEF Register
    <3>6. CASE Write
      BY <3>6 DEF Write
    <3>7. CASE Damage
      BY <3>7 DEF Damage
    <3>8. CASE Read
      BY <3>8 DEF Read
    <3>9. CASE StartSweep
      BY <3>9 DEF StartSweep
    <3>10. CASE SweepSlab
      BY <3>10 DEF SweepSlab
    <3>11. CASE Extracted
      BY <3>11 DEF Extracted
    <3> QED BY <1>4, <3>1, <3>2, <3>3, <3>4, <3>5, <3>6, <3>7, <3>8, <3>9, <3>10, <3>11 DEF StockStep
  <2> QED BY <2>1, <2>2 DEF tool_vars
<1> QED BY <1>1, <1>2, <1>3, <1>4

(* Every step keeps it.                                                      *)
LEMMA LibraryInvNext == LibraryInv /\ [MillNext]_all_vars => LibraryInv'
<1> SUFFICES ASSUME LibraryInv, [MillNext]_all_vars PROVE LibraryInv'
  OBVIOUS
<1>1. CASE StockStep \/ CutMotion \/ Tessellate \/ UNCHANGED all_vars
  <2>1. /\ source' = source /\ document' = document /\ library' = library
        /\ \/ tooling' = tooling /\ (phase' = phase /\ why' = why)
           \/ tooling = "Tooled" /\ tooling' \in {"Tooled", "Meshed", "Refused"}
    BY <1>1, StockKeepsLibrary
  <2>2. CASE tooling' = tooling /\ (phase' = phase /\ why' = why)
    BY <2>1, <2>2 DEF LibraryInv, LibraryReadsBack
  <2>3. CASE tooling = "Tooled" /\ tooling' \in {"Tooled", "Meshed", "Refused"}
    <3>1. document = None \/ library # <<>> \/ source.edits # {}
      BY <2>3 DEF LibraryInv
    <3> QED BY <2>1, <2>3, <3>1 DEF LibraryInv, LibraryReadsBack
  <2> QED BY <2>1, <2>2, <2>3
<1>2. CASE Draw
  <2> DEFINE drawn == DrawnBy(source)
             first == FirstFault([n \in DOMAIN source.tools |-> DrawFault(source.tools[n])])
             fault == OrElse(first, IF duplicated(drawn) THEN "Duplicate" ELSE "None")
  <2>1. /\ tooling = "Drawing" /\ DrawnOr(fault, drawn) /\ StockSame
        /\ library' = library
    BY <1>2, Zenon DEF Draw
  <2>2. /\ source' = source /\ source \in Sources /\ library' = <<>> /\ document = None
        /\ phase # "Refused" /\ source.tools # <<>>
    BY <2>1 DEF LibraryInv, StockSame
  <2>3. CASE fault = "None"
    <3>1. first = "None" /\ ~duplicated(drawn)
      BY <2>3 DEF OrElse
    <3> HIDE DEF fault
    <3>2. document' = library_to_json(drawn) /\ tooling' = "Filed" /\ phase' = phase
      BY <2>1, <2>3, Zenon DEF DrawnOr
    <3>3. IsDocument(document') /\ IsLibrary(document') /\ DOMAIN (document').tools # {}
      BY <2>2, <3>1, <3>2, DrawnIsAccepted, Zenon
    <3> HIDE DEF drawn, first
    <3> QED BY <2>2, <3>2, <3>3 DEF LibraryInv, LibraryReadsBack
  <2>4. CASE fault # "None"
    <3> HIDE DEF fault
    <3>1. document' = document /\ tooling' = "Refused"
      BY <2>1, <2>4, Zenon DEF DrawnOr
    <3> QED BY <2>2, <3>1 DEF LibraryInv, LibraryReadsBack
  <2> QED BY <2>3, <2>4
<1>3. CASE EditLibrary
  <2>1. PICK e \in source.edits : document' = Edit(document, e)
    BY <1>3, Zenon DEF EditLibrary
  <2>2. /\ tooling = "Filed" /\ tooling' = "Edited" /\ source' = source /\ library' = library
    BY <1>3 DEF EditLibrary, StockSame
  <2>3. /\ source \in Sources /\ IsDocument(document) /\ IsLibrary(document) /\ library = <<>>
    BY <2>2 DEF LibraryInv
  <2>4. EditIsTyped(e) /\ source.edits # {}
    BY <2>1, <2>3, ToolsAssumption
  <2>5. IsDocument(document')
    BY <2>1, <2>3, <2>4, EditedIsDocument
  <2> QED BY <2>2, <2>3, <2>4, <2>5 DEF LibraryInv, LibraryReadsBack
<1>4. CASE ReadLibrary
  <2> DEFINE known == IF resolve_tools(from_json(document)) THEN "None" ELSE "UnknownTool"
             fault == OrElse(library_fault(document), known)
  <2>1. /\ tooling \in {"Filed", "Edited"} /\ ReadOr(fault) /\ source' = source /\ document' = document
    BY <1>4, Zenon DEF ReadLibrary, StockSame
  <2>2. source \in Sources /\ IsDocument(document) /\ library = <<>>
    BY <2>1 DEF LibraryInv
  <2>3. library_fault(document) = "None" <=> IsLibrary(document)
    BY <2>2, LibraryChecked DEF IsDocument
  <2>4. \/ IsLibrary(document) /\ DOMAIN document.tools # {}
        \/ source.edits # {}
    BY <2>1 DEF LibraryInv
  <2>5. DOMAIN from_json(document) = DOMAIN document.tools
    BY DEF from_json
  <2>6. CASE fault = "None"
    <3>1. library_fault(document) = "None"
      BY <2>6 DEF OrElse
    <3> HIDE DEF fault
    <3>2. library' = from_json(document) /\ tooling' = "Tooled"
      BY <2>1, <2>6, Zenon DEF ReadOr
    <3>3. Undescribed(library_to_json(from_json(document))) = Undescribed(document)
      BY <2>2, <2>3, <3>1, FileReadsBack DEF IsDocument
    <3>4. library' # <<>> \/ source.edits # {}
      BY <2>4, <2>5, <3>2
    <3> QED BY <2>1, <2>2, <3>2, <3>3, <3>4 DEF LibraryInv, LibraryReadsBack
  <2>7. CASE fault # "None"
    <3>1. source.edits # {} \/ fault = "UnknownTool"
      BY <2>3, <2>4, <2>7 DEF OrElse
    <3> HIDE DEF fault
    <3>2. why' = fault /\ tooling' = "Refused" /\ library' = library
      BY <2>1, <2>7, Zenon DEF ReadOr, Refuse
    <3> QED BY <2>1, <2>2, <3>1, <3>2 DEF LibraryInv, LibraryReadsBack
  <2> QED BY <2>6, <2>7
<1> QED BY <1>1, <1>2, <1>3, <1>4 DEF MillNext

(***************************************************************************)
(* The library file is read as it is spelled (io.rs): whatever was drawn    *)
(* and however it was edited, a library that is accepted is written again   *)
(* as the document it was read from, but for a description that is not      *)
(* there; and a file nobody edited is refused only for a tool it lacks.     *)
(***************************************************************************)
THEOREM LibraryReadsBackHolds == MillSpec => []LibraryReadsBack
<1>1. LibraryInv => LibraryReadsBack
  BY DEF LibraryInv
<1> QED BY <1>1, LibraryInvInit, LibraryInvNext, PTL DEF MillSpec

-----------------------------------------------------------------------------
(* The file. A file stands in itself; what reads a field reads it where it     *)
(* stands, as far as the file goes. So what is written is read, and what is    *)
(* spoilt is told.                                                            *)

(* What stands in a file. *)
\* As far as the file goes, s stands there from `at` on.
Stands(p, at, s) == \A i \in 1 .. Len(s) : at - 1 + i <= Len(p) => p[at - 1 + i] = s[i]

(* Where two lists stand one behind the other, each stands.                  *)
LEMMA StandsBoth ==
  ASSUME NEW E, NEW a \in Seq(E), NEW b \in Seq(E), NEW p, Len(p) \in Nat, NEW at \in Nat \ {0},
         Stands(p, at, a \o b)
  PROVE  Stands(p, at, a) /\ Stands(p, at + Len(a), b)
<1> DEFINE c == a \o b
<1>1. Len(c) = Len(a) + Len(b) /\ Len(a) \in Nat /\ Len(b) \in Nat
  OBVIOUS
<1>2. \A i \in 1 .. Len(a) : c[i] = a[i]
  OBVIOUS
<1>3. \A i \in 1 .. Len(b) : c[Len(a) + i] = b[i]
  OBVIOUS
<1> HIDE DEF c
<1>4. \A i \in 1 .. Len(c) : at - 1 + i <= Len(p) => p[at - 1 + i] = c[i]
  BY DEF Stands, c
<1>5. ASSUME NEW i \in 1 .. Len(a), at - 1 + i <= Len(p) PROVE p[at - 1 + i] = a[i]
  <2>1. i \in 1 .. Len(c)
    BY <1>1
  <2> QED BY <2>1, <1>2, <1>4, <1>5
<1>6. ASSUME NEW i \in 1 .. Len(b), at + Len(a) - 1 + i <= Len(p)
      PROVE  p[at + Len(a) - 1 + i] = b[i]
  <2>1. Len(a) + i \in 1 .. Len(c)
    BY <1>1
  <2>2. at - 1 + (Len(a) + i) = at + Len(a) - 1 + i
    BY <1>1
  <2> QED BY <2>1, <2>2, <1>3, <1>4, <1>6
<1> QED BY <1>5, <1>6 DEF Stands

\* Each list of f is in the flat one behind those before it.
Placed(n, f, h) ==
  \A k \in 1 .. n : \A i \in 1 .. Len(f[k]) :
    Len(h[k - 1]) + i \in 1 .. Len(h[n]) /\ h[n][Len(h[k - 1]) + i] = f[k][i]

\* A flat list is the one before it with one more behind.
Grows(n, f, h) ==
  /\ Len(h[0]) = 0
  /\ \A k \in 0 .. n : Len(h[k]) \in Nat /\ Len(h[k]) <= Len(h[n])
  /\ \A k \in 1 .. n : Len(h[k]) = Len(h[k - 1]) + Len(f[k])

(* What was appended stays where it is.                                       *)
LEMMA FlatPlaces ==
  ASSUME NEW E, NEW n \in Nat, NEW f \in [1 .. n -> Seq(E)], NEW h, Flattens(h, E, n, f)
  PROVE  Placed(n, f, h) /\ Grows(n, f, h)
<1>1. h \in [0 .. n -> Seq(E)] /\ h[0] = <<>> /\ \A k \in 1 .. n : h[k] = h[k - 1] \o f[k]
  BY DEF Flattens
<1> DEFINE Longer(k, j) == /\ Len(f[k]) \in Nat /\ Len(h[k]) = Len(h[j]) + Len(f[k])
                           /\ \A i \in 1 .. Len(h[j]) : h[k][i] = h[j][i]
                           /\ \A i \in 1 .. Len(f[k]) : h[k][Len(h[j]) + i] = f[k][i]
<1>2. \A k \in 1 .. n : Longer(k, k - 1)
  <2> TAKE k \in 1 .. n
  <2>1. k - 1 \in 0 .. n
    OBVIOUS
  <2>2. h[k - 1] \in Seq(E) /\ f[k] \in Seq(E)
    BY <2>1, <1>1
  <2>3. h[k] = h[k - 1] \o f[k]
    BY <1>1
  <2> QED BY <2>1, <2>2, <2>3
\* h[m] begins with h[k].
<1> DEFINE Keeps(k, m) == /\ Len(h[k]) <= Len(h[m])
                          /\ \A i \in 1 .. Len(h[k]) : h[m][i] = h[k][i]
<1>3. \A k \in 0 .. n : Len(h[k]) \in Nat
  BY <1>1
<1>4. ASSUME NEW k \in 0 .. n PROVE Keeps(k, n)
  <2> DEFINE G == {d \in 0 .. n - k : Keeps(k, k + d)}
  <2>1. 0 \in G
    <3>1. k + 0 = k /\ 0 \in 0 .. n - k
      OBVIOUS
    <3> QED BY <3>1, <1>3
  <2>2. ASSUME NEW d \in 0 .. (n - k) - 1, d \in G PROVE d + 1 \in G
    <3>1. k + (d + 1) \in 1 .. n /\ (k + (d + 1)) - 1 = k + d /\ d + 1 \in 0 .. n - k /\ k + d \in 0 .. n
      OBVIOUS
    <3>2. PICK q : q = k + (d + 1)
      OBVIOUS
    <3>3. q \in 1 .. n /\ q - 1 = k + d
      BY <3>1, <3>2
    <3>4. Longer(q, k + d)
      <4> HIDE DEF Longer
      <4>1. Longer(q, q - 1)
        BY <3>3, <1>2
      <4> QED BY <3>3, <4>1
    <3>5. Keeps(k, k + d)
      BY <2>2
    <3>6. Len(h[k]) \in Nat /\ Len(h[k + d]) \in Nat
      BY <3>1, <1>3
    <3>7. Keeps(k, q)
      <4>1. Len(h[k]) <= Len(h[q])
        <5>1. Len(h[k]) <= Len(h[k + d])
          BY <3>5
        <5>2. Len(h[q]) = Len(h[k + d]) + Len(f[q]) /\ Len(f[q]) \in Nat
          BY <3>4
        <5>3. \A x, y, z, w \in Nat : x <= y /\ z = y + w => x <= z
          OBVIOUS
        <5>4. Len(h[q]) \in Nat
          <6>1. q \in 0 .. n
            BY <3>3
          <6> QED BY <6>1, <1>3
        <5> HIDE DEF Keeps, Longer
        <5> QED BY <5>1, <5>2, <5>3, <5>4, <3>6
      <4>2. ASSUME NEW i \in 1 .. Len(h[k]) PROVE h[q][i] = h[k][i]
        <5>1. i \in 1 .. Len(h[k + d])
          BY <3>5, <3>6
        <5>2. h[q][i] = h[k + d][i] /\ h[k + d][i] = h[k][i]
          BY <5>1, <3>4, <3>5
        <5> QED BY <5>2
      <4> QED BY <4>1, <4>2
    <3> QED BY <3>1, <3>2, <3>7
  <2> HIDE DEF G
  <2>0. n - k \in Nat
    OBVIOUS
  <2>3. \A d \in 0 .. n - k : d \in G
    BY <2>0, <2>1, <2>2, Induction
  <2>4. n - k \in 0 .. n - k /\ k + (n - k) = n
    OBVIOUS
  <2>5. n - k \in G
    BY <2>3, <2>4
  <2> HIDE DEF Keeps
  <2> QED BY <2>4, <2>5 DEF G
<1>5. Grows(n, f, h)
  BY <1>1, <1>2, <1>3, <1>4 DEF Grows
<1>6. ASSUME NEW k \in 1 .. n, NEW i \in 1 .. Len(f[k])
      PROVE  Len(h[k - 1]) + i \in 1 .. Len(h[n]) /\ h[n][Len(h[k - 1]) + i] = f[k][i]
  <2>1. Len(h[k - 1]) + i \in 1 .. Len(h[k]) /\ h[k][Len(h[k - 1]) + i] = f[k][i]
    BY <1>2, <1>3
  <2>2. Keeps(k, n) /\ Len(h[k]) \in Nat /\ Len(h[n]) \in Nat
    BY <1>3, <1>4
  <2> QED BY <2>1, <2>2
<1> QED BY <1>5, <1>6 DEF Placed

(* Where a flat list stands, each of its lists stands.                        *)
LEMMA StandsEach ==
  ASSUME NEW E, NEW n \in Nat, NEW f \in [1 .. n -> Seq(E)], NEW h, Flattens(h, E, n, f),
         NEW p, Len(p) \in Nat, NEW at \in Nat \ {0}, Stands(p, at, h[n])
  PROVE  \A k \in 1 .. n : Stands(p, at + Len(h[k - 1]), f[k])
<1> TAKE k \in 1 .. n
<1>1. Placed(n, f, h) /\ Grows(n, f, h)
  BY FlatPlaces
<1>2. k - 1 \in 0 .. n /\ Len(h[k - 1]) \in Nat
  BY <1>1 DEF Grows
<1>3. f[k] \in Seq(E)
  OBVIOUS
<1>4. ASSUME NEW i \in 1 .. Len(f[k]), at + Len(h[k - 1]) - 1 + i <= Len(p)
      PROVE  p[at + Len(h[k - 1]) - 1 + i] = f[k][i]
  <2>1. Len(h[k - 1]) + i \in 1 .. Len(h[n]) /\ h[n][Len(h[k - 1]) + i] = f[k][i]
    BY <1>1 DEF Placed
  <2>2. at - 1 + (Len(h[k - 1]) + i) = at + Len(h[k - 1]) - 1 + i
    BY <1>2
  <2> QED BY <2>1, <2>2, <1>4 DEF Stands
<1> QED BY <1>4 DEF Stands

-----------------------------------------------------------------------------
(* Reading one thing behind another. *)
\* n values, or as many as there are, that stand at `at` and spell `got`.
Reading(p, at, n, got) ==
  IF at - 1 + n <= Len(p) THEN [next |-> at + n, got |-> got] ELSE Failed("Truncated")

\* The first k of the things that f spells and h flattens.
ReadUpTo(p, start, h, got, k) == Reading(p, start, Len(h[k]), [j \in 1 .. k |-> got[j]])

\* Each is read where it stands.
ReadEach(n, f, p, got, one) ==
  \A k \in 1 .. n : \A at \in 1 .. Len(p) + 1 :
    Stands(p, at, f[k]) => one[k][at] = Reading(p, at, Len(f[k]), got[k])

\* One more thing is read behind the k before it.
ReadOnce(p, start, h, got, one, k) ==
  LET before == ReadUpTo(p, start, h, got, k - 1)
  IN /\ before.next \in 0 .. Len(p) + 1
     /\ Then(before, one[k][before.next]) = ReadUpTo(p, start, h, got, k)

(* One more value of a function behind the first ones of it.                  *)
LEMMA AppendMap ==
  ASSUME NEW got, NEW k \in Nat \ {0}
  PROVE  Append([j \in 1 .. k - 1 |-> got[j]], got[k]) = [j \in 1 .. k |-> got[j]]
<1> DEFINE S == {got[j] : j \in 1 .. k}
           a == [j \in 1 .. k - 1 |-> got[j]]
           b == [j \in 1 .. k |-> got[j]]
<1>1. a \in [1 .. k - 1 -> S] /\ got[k] \in S /\ k - 1 \in Nat
  OBVIOUS
<1>2. a \in Seq(S) /\ Len(a) = k - 1
  <2> HIDE DEF a, S
  <2>1. a \in Seq(S)
    BY <1>1, SeqDef
  <2>2. Len(a) = k - 1
    BY <2>1, <1>1, LenProperties
  <2> QED BY <2>1, <2>2
<1>3. DOMAIN Append(a, got[k]) = 1 .. k
  <2> HIDE DEF a, S
  <2>1. DOMAIN Append(a, got[k]) = 1 .. Len(a) + 1
    BY <1>1, <1>2
  <2> QED BY <2>1, <1>2
<1>4. \A j \in 1 .. k : Append(a, got[k])[j] = got[j]
  <2> TAKE j \in 1 .. k
  <2>1. Append(a, got[k])[j] = IF j = k THEN got[k] ELSE a[j]
    <3> HIDE DEF a, S
    <3>1. j \in 1 .. Len(a) \/ j = Len(a) + 1
      BY <1>2
    <3> QED BY <3>1, <1>1, <1>2
  <2>2. j # k => a[j] = got[j]
    OBVIOUS
  <2> QED BY <2>1, <2>2
<1>5. Append(a, got[k]) = [j \in DOMAIN Append(a, got[k]) |-> Append(a, got[k])[j]]
  <2> HIDE DEF a, S
  <2> QED BY <1>1, <1>2
<1> HIDE DEF a, S
<1> QED BY <1>3, <1>4, <1>5

(* One more is read behind those before it, as long as the file goes.         *)
LEMMA ReadsOneMore ==
  ASSUME NEW E, NEW n \in Nat, NEW f \in [1 .. n -> Seq(E)], NEW h, Flattens(h, E, n, f),
         NEW p, Len(p) \in Nat, NEW start \in 1 .. Len(p) + 1, Stands(p, start, h[n]),
         NEW got, NEW one, ReadEach(n, f, p, got, one), NEW k \in 1 .. n
  PROVE  ReadOnce(p, start, h, got, one, k)
<1> DEFINE upto == [j \in 1 .. k - 1 |-> got[j]]
           before == ReadUpTo(p, start, h, got, k - 1)
<1>1. PICK m : m = Len(h[k - 1])
  OBVIOUS
<1>2. PICK l : l = Len(h[k])
  OBVIOUS
<1>3. PICK w : w = Len(f[k])
  OBVIOUS
<1>4. m \in Nat /\ w \in Nat /\ l = m + w
  <2>1. Grows(n, f, h)
    BY FlatPlaces
  <2>2. k - 1 \in 0 .. n /\ k \in 0 .. n /\ f[k] \in Seq(E)
    OBVIOUS
  <2>3. Len(h[k - 1]) \in Nat /\ Len(h[k]) = Len(h[k - 1]) + Len(f[k])
    BY <2>1, <2>2 DEF Grows
  <2> QED BY <1>1, <1>2, <1>3, <2>2, <2>3
<1>5. before = IF start - 1 + m <= Len(p) THEN [next |-> start + m, got |-> upto] ELSE Failed("Truncated")
  BY <1>1 DEF ReadUpTo, Reading
<1>6. ReadUpTo(p, start, h, got, k)
        = IF start - 1 + l <= Len(p) THEN [next |-> start + l, got |-> [j \in 1 .. k |-> got[j]]]
          ELSE Failed("Truncated")
  BY <1>2 DEF ReadUpTo, Reading
<1> HIDE DEF before, upto
<1>7. CASE start - 1 + m <= Len(p)
  <2>1. before = [next |-> start + m, got |-> upto]
    BY <1>5, <1>7
  <2>2. before.next = start + m /\ before.got = upto /\ start + m \in 1 .. Len(p) + 1
    BY <2>1, <1>4, <1>7
  <2>3. Stands(p, start + m, f[k])
    <3>1. start \in Nat \ {0}
      OBVIOUS
    <3>2. \A q \in 1 .. n : Stands(p, start + Len(h[q - 1]), f[q])
      BY <3>1, StandsEach
    <3> QED BY <3>2, <1>1
  <2>4. one[k][start + m] = IF (start + m) - 1 + w <= Len(p)
                            THEN [next |-> (start + m) + w, got |-> got[k]] ELSE Failed("Truncated")
    <3>1. one[k][start + m] = Reading(p, start + m, Len(f[k]), got[k])
      BY <2>2, <2>3 DEF ReadEach
    <3> QED BY <3>1, <1>3 DEF Reading
  <2>5. (start + m) - 1 + w = start - 1 + l /\ (start + m) + w = start + l /\ start + l # 0
    BY <1>4
  <2>6. CASE start - 1 + l <= Len(p)
    <3>1. one[k][start + m] = [next |-> start + l, got |-> got[k]]
      BY <2>4, <2>5, <2>6
    <3>2. Then(before, one[k][start + m]) = [next |-> start + l, got |-> Append(upto, got[k])]
      BY <3>1, <2>2, <2>5 DEF Then
    <3>3. Append(upto, got[k]) = [j \in 1 .. k |-> got[j]]
      BY AppendMap DEF upto
    <3> QED BY <3>2, <3>3, <2>2, <1>6, <2>6 DEF ReadOnce, before
  <2>7. CASE ~(start - 1 + l <= Len(p))
    <3>1. one[k][start + m] = Failed("Truncated")
      BY <2>4, <2>5, <2>7
    <3>2. Then(before, one[k][start + m]) = Failed("Truncated")
      BY <3>1, <2>2 DEF Then, Failed
    <3> QED BY <3>2, <2>2, <1>6, <2>7 DEF ReadOnce, before
  <2> QED BY <2>6, <2>7
<1>8. CASE ~(start - 1 + m <= Len(p))
  <2>1. before = Failed("Truncated") /\ before.next = 0
    BY <1>5, <1>8 DEF Failed
  <2>2. ~(start - 1 + l <= Len(p))
    BY <1>4, <1>8
  <2>3. Then(before, one[k][before.next]) = Failed("Truncated")
    BY <2>1 DEF Then
  <2>4. before.next \in 0 .. Len(p) + 1
    BY <2>1
  <2> QED BY <2>2, <2>3, <2>4, <1>6 DEF ReadOnce, before
<1> QED BY <1>7, <1>8

-----------------------------------------------------------------------------
(* How long a flat list is. *)
\* The first k lists have k times w values together.
EvenlySpaced(n, w, h) == \A k \in 0 .. n : Len(h[k]) = k * w

(* Lists of one length make a flat list of so many times that length.         *)
LEMMA FlatEven ==
  ASSUME NEW E, NEW n \in Nat, NEW f \in [1 .. n -> Seq(E)], NEW h, Flattens(h, E, n, f),
         NEW w \in Nat, \A k \in 1 .. n : Len(f[k]) = w
  PROVE  EvenlySpaced(n, w, h)
<1>1. Grows(n, f, h)
  BY FlatPlaces
<1> DEFINE G == {k \in 0 .. n : Len(h[k]) = k * w}
<1>2. 0 \in G
  BY <1>1 DEF Grows
<1>3. ASSUME NEW k \in 0 .. n - 1, k \in G PROVE k + 1 \in G
  <2>1. k + 1 \in 1 .. n /\ (k + 1) - 1 = k /\ k + 1 \in 0 .. n
    OBVIOUS
  <2>2. PICK q : q = k + 1
    OBVIOUS
  <2>3. Len(h[q]) = Len(h[q - 1]) + Len(f[q])
    BY <2>1, <2>2, <1>1 DEF Grows
  <2>4. Len(h[q]) = k * w + w
    BY <2>1, <2>2, <2>3, <1>3
  <2>5. (k + 1) * w = k * w + w
    OBVIOUS
  <2> QED BY <2>1, <2>2, <2>4, <2>5
<1> HIDE DEF G
<1>4. \A k \in 0 .. n : k \in G
  BY <1>2, <1>3, Induction
<1> QED BY <1>4 DEF G, EvenlySpaced

\* Each list of f is as long as that of g.
OfOneLength(n, f, g) == \A k \in 1 .. n : Len(f[k]) = Len(g[k])

(* Lists of the same lengths make flat lists of the same length.              *)
LEMMA FlatAlike ==
  ASSUME NEW E, NEW F, NEW n \in Nat, NEW f \in [1 .. n -> Seq(E)], NEW g \in [1 .. n -> Seq(F)],
         OfOneLength(n, f, g)
  PROVE  Len(FlattenSeq(f)) = Len(FlattenSeq(g)) /\ Len(FlattenSeq(f)) \in Nat
<1>1. PICK h : Flattens(h, E, n, f)
  BY FlattenSteps
<1>2. PICK i : Flattens(i, F, n, g)
  BY FlattenSteps
<1>3. Grows(n, f, h) /\ Grows(n, g, i)
  BY <1>1, <1>2, FlatPlaces
<1> DEFINE G == {k \in 0 .. n : Len(h[k]) = Len(i[k])}
<1>4. 0 \in G
  BY <1>3 DEF Grows
<1>5. ASSUME NEW k \in 0 .. n - 1, k \in G PROVE k + 1 \in G
  <2>1. k + 1 \in 1 .. n /\ (k + 1) - 1 = k /\ k + 1 \in 0 .. n
    OBVIOUS
  <2>2. PICK q : q = k + 1
    OBVIOUS
  <2>3. Len(h[q]) = Len(h[q - 1]) + Len(f[q]) /\ Len(i[q]) = Len(i[q - 1]) + Len(g[q])
    BY <2>1, <2>2, <1>3 DEF Grows
  <2>4. Len(f[q]) = Len(g[q])
    BY <2>1, <2>2 DEF OfOneLength
  <2> QED BY <2>1, <2>2, <2>3, <2>4, <1>5
<1> HIDE DEF G
<1>6. \A k \in 0 .. n : k \in G
  BY <1>4, <1>5, Induction
<1>7. n \in G /\ n \in 0 .. n
  BY <1>6
<1>8. [k \in 1 .. n |-> f[k]] = f /\ [k \in 1 .. n |-> g[k]] = g
  OBVIOUS
<1>9. FlattenSeq(f) = h[n] /\ FlattenSeq(g) = i[n]
  BY <1>1, <1>2, <1>7, <1>8 DEF Flattens
<1> QED BY <1>3, <1>7, <1>9 DEF G, Grows

-----------------------------------------------------------------------------
(* The spans of one ray. *)
\* What a span is read back as.
AsRead(v, spans) == IF v >= 3 THEN spans ELSE WithoutNormals(spans)

\* The spans of a ray as version v spells them, one by one and with their count.
RecordsOf(v, spans) == [n \in 1 .. Len(spans) |-> SpanRecord(v, spans[n])]

SpansWritten(v, spans) == <<Len(spans)>> \o FlattenSeq(RecordsOf(v, spans))

\* The values of a list of spans are in E.
SpansOver(E, spans) ==
  /\ Nat \subseteq E
  /\ \A n \in 1 .. Len(spans) : /\ spans[n].t0 \in E /\ spans[n].t1 \in E
                                /\ spans[n].n0 \in E /\ spans[n].n1 \in E

\* How many values a span takes.
SpanWidth(v) == IF v >= 3 THEN 4 ELSE 2

\* What is known of how the spans of a ray are spelled.
RecordsSpell(E, v, spans) ==
  /\ RecordsOf(v, spans) \in [1 .. Len(spans) -> Seq(E)]
  /\ \A k \in 1 .. Len(spans) : Len(RecordsOf(v, spans)[k]) = SpanWidth(v)
  /\ SpansWritten(v, spans) \in Seq(E)
  /\ FlattenSeq(RecordsOf(v, spans)) \in Seq(E)
  /\ Len(SpansWritten(v, spans)) = 1 + Len(spans) * SpanWidth(v)

(* The spans of a ray are spelled in values of E, each in as many.             *)
LEMMA RecordsTyped ==
  ASSUME NEW E, NEW v \in Int, NEW spans, Len(spans) \in Nat, SpansOver(E, spans)
  PROVE  RecordsSpell(E, v, spans)
<1> DEFINE n == Len(spans)
           f == RecordsOf(v, spans)
           w == SpanWidth(v)
<1>1. \A k \in 1 .. n : f[k] \in Seq(E) /\ Len(f[k]) = w
  <2> TAKE k \in 1 .. n
  <2>1. f[k] = SpanRecord(v, spans[k])
    BY DEF RecordsOf
  <2>2. spans[k].t0 \in E /\ spans[k].t1 \in E /\ spans[k].n0 \in E /\ spans[k].n1 \in E
    BY DEF SpansOver
  <2> HIDE DEF f, n
  <2> QED BY <2>1, <2>2 DEF SpanRecord, SpanWidth
<1>2. f \in [1 .. n -> Seq(E)]
  BY <1>1 DEF RecordsOf
<1>3. PICK h : Flattens(h, E, n, f)
  <2> HIDE DEF f
  <2> QED BY <1>2, FlattenSteps
<1>4. w \in Nat
  BY DEF SpanWidth
<1>5. EvenlySpaced(n, w, h)
  <2> HIDE DEF f, w
  <2> QED BY <1>1, <1>2, <1>3, <1>4, FlatEven
<1>6. FlattenSeq(f) = h[n] /\ h[n] \in Seq(E)
  <2>1. [k \in 1 .. n |-> f[k]] = f /\ n \in 0 .. n
    BY <1>2
  <2> HIDE DEF f
  <2> QED BY <2>1, <1>3 DEF Flattens
<1>7. Len(h[n]) = n * w
  BY <1>5 DEF EvenlySpaced
<1>8. n \in E
  BY DEF SpansOver
<1> HIDE DEF f, w
<1>9. <<n>> \o FlattenSeq(f) \in Seq(E) /\ Len(<<n>> \o FlattenSeq(f)) = 1 + n * w
  <2>1. <<n>> \in Seq(E) /\ Len(<<n>>) = 1
    BY <1>8
  <2>2. Len(<<n>> \o h[n]) = 1 + Len(h[n])
    BY <2>1, <1>6
  <2> QED BY <2>1, <2>2, <1>6, <1>7
<1> QED BY <1>1, <1>2, <1>6, <1>9 DEF RecordsSpell, SpansWritten, f, w

(* The spans of a ray are read where they stand.                              *)
LEMMA SpansRead ==
  ASSUME NEW E, NEW v \in Int, NEW spans, IsSpanList(spans), SpansOver(E, spans),
         NEW p, Len(p) \in Nat, NEW at \in 1 .. Len(p) + 1, Stands(p, at, SpansWritten(v, spans))
  PROVE  read_spans(p, at, v)
           = Reading(p, at, Len(SpansWritten(v, spans)), AsRead(v, spans))
<1> DEFINE n == Len(spans)
           f == RecordsOf(v, spans)
           w == SpanWidth(v)
<1>1. n \in Nat /\ spans = [k \in 1 .. n |-> spans[k]] /\ \A k \in 1 .. n : IsSpan(spans[k])
  BY DEF IsSpanList
<1>2. RecordsSpell(E, v, spans)
  BY <1>1, RecordsTyped
<1>3. PICK h : Flattens(h, E, n, f)
  <2>1. f \in [1 .. n -> Seq(E)]
    BY <1>2 DEF RecordsSpell
  <2> HIDE DEF f, n
  <2> QED BY <1>1, <2>1, FlattenSteps
<1>4. w \in Nat /\ (v >= 3 => w = 4) /\ (v < 3 => w = 2)
  BY DEF SpanWidth
<1>5. EvenlySpaced(n, w, h) /\ Placed(n, f, h)
  <2>1. f \in [1 .. n -> Seq(E)] /\ \A k \in 1 .. n : Len(f[k]) = w
    BY <1>2 DEF RecordsSpell
  <2> HIDE DEF f, w, n
  <2> QED BY <1>1, <1>3, <1>4, <2>1, FlatEven, FlatPlaces
<1>6. FlattenSeq(f) = h[n] /\ h[n] \in Seq(E) /\ Len(h[n]) = n * w
  <2>1. [k \in 1 .. n |-> f[k]] = f /\ n \in 0 .. n
    BY <1>1, <1>2 DEF RecordsSpell
  <2> HIDE DEF f, w
  <2> QED BY <2>1, <1>3, <1>5 DEF Flattens, EvenlySpaced
<1>7. Stands(p, at, <<n>>) /\ Stands(p, at + 1, h[n])
  <2>1. <<n>> \in Seq(E) /\ Len(<<n>>) = 1
    BY <1>1 DEF SpansOver
  <2>2. Stands(p, at, <<n>> \o h[n]) /\ at \in Nat \ {0}
    BY <1>6 DEF SpansWritten
  <2> HIDE DEF n
  <2>3. Stands(p, at, <<n>>) /\ Stands(p, at + Len(<<n>>), h[n])
    BY <1>6, <2>1, <2>2, StandsBoth
  <2> QED BY <2>1, <2>3
<1>8. at <= Len(p) => p[at] = n
  BY <1>7 DEF Stands
<1>9. Len(SpansWritten(v, spans)) = 1 + n * w
  BY <1>2 DEF RecordsSpell
<1>10. n * w \in Nat
  BY <1>1, <1>4
<1>11. CASE ~(at + n * w <= Len(p))
  <2>1. Reading(p, at, 1 + n * w, AsRead(v, spans)) = Failed("Truncated")
    BY <1>10, <1>11 DEF Reading
  <2>2. ~Holds(p, at, 1) \/ ~Holds(p, at + 1, p[at] * w)
    <3> HIDE DEF w
    <3>1. PICK t : t = n * w
      OBVIOUS
    <3>2. CASE at <= Len(p)
      <4>1. p[at] * w = t
        BY <1>8, <3>1, <3>2
      <4> QED BY <3>1, <4>1, <1>10, <1>11 DEF Holds
    <3>3. CASE ~(at <= Len(p))
      BY <3>3 DEF Holds
    <3> QED BY <3>2, <3>3
  <2>3. read_spans(p, at, v) = Failed("Truncated")
    BY <2>2 DEF read_spans, SpanWidth
  <2> QED BY <2>1, <2>3, <1>9
<1>12. CASE at + n * w <= Len(p)
  <2>1. p[at] = n /\ Holds(p, at, 1) /\ Holds(p, at + 1, n * w)
    <3>1. at <= Len(p)
      <4> HIDE DEF w, n
      <4> QED BY <1>10, <1>12
    <3>2. PICK t : t = n * w
      OBVIOUS
    <3>3. Holds(p, at + 1, t)
      BY <3>2, <1>10, <1>12 DEF Holds
    <3> QED BY <3>1, <3>2, <3>3, <1>8 DEF Holds
  <2> DEFINE s(k) == at + 1 + (k - 1) * w
             one(k) == [t0 |-> p[s(k)], t1 |-> p[s(k) + 1],
                        n0 |-> IF v >= 3 THEN p[s(k) + 2] ELSE PLACEHOLDER,
                        n1 |-> IF v >= 3 THEN p[s(k) + 3] ELSE PLACEHOLDER]
  <2>2. read_spans(p, at, v) = [next |-> at + 1 + n * w, got |-> [k \in 1 .. n |-> one(k)]]
    <3> HIDE DEF n
    <3> QED BY <2>1, Zenon DEF read_spans, SpanWidth
  <2>3. ASSUME NEW k \in 1 .. n, NEW i \in 1 .. w PROVE p[s(k) + (i - 1)] = f[k][i]
    <3>1. PICK m : m = (k - 1) * w
      OBVIOUS
    <3>2. m \in Nat /\ m + w <= n * w
      <4>0. k \in 1 .. n /\ n \in Nat
        BY <1>1
      <4> HIDE DEF n
      <4>1. k - 1 \in Nat /\ n - k \in Nat
        BY <4>0
      <4>2. PICK a \in Nat : a = k - 1
        BY <4>1
      <4>3. PICK b \in Nat : b = n - k
        BY <4>1
      <4>4. n = a + 1 + b
        BY <4>0, <4>2, <4>3
      <4>5. m = a * w /\ a * w \in Nat /\ b * w \in Nat
        BY <3>1, <4>2, <4>3, <1>4
      <4>6. n * w = a * w + w + b * w
        <5> HIDE DEF n, w
        <5> QED BY <4>2, <4>3, <4>4, <1>4
      <4> HIDE DEF n, w
      <4>7. PICK t : t = n * w
        OBVIOUS
      <4> QED BY <4>5, <4>6, <4>7, <1>4
    <3>3. Len(h[k - 1]) = m
      <4>1. k - 1 \in 0 .. n
        BY <1>1
      <4> QED BY <4>1, <3>1, <1>5 DEF EvenlySpaced
    <3>4. Len(f[k]) = w
      BY <1>2 DEF RecordsSpell
    <3>5. m + i \in 1 .. Len(h[n]) /\ h[n][m + i] = f[k][i]
      <4> HIDE DEF f, w
      <4> QED BY <3>3, <3>4, <1>5 DEF Placed
    <3>6. s(k) + (i - 1) = (at + 1) - 1 + (m + i) /\ (at + 1) - 1 + (m + i) <= Len(p)
      <4>1. s(k) = at + 1 + m
        BY <3>1
      <4>2. PICK t \in Nat : t = n * w
        BY <1>10
      <4>3. m + i <= t /\ at + t <= Len(p)
        <5>1. m + w <= t /\ t \in Nat
          BY <3>2, <4>2, <1>10
        <5> HIDE DEF w, n
        <5> QED BY <5>1, <4>2, <3>2, <1>4, <1>12
      <4>4. PICK q : q = s(k)
        OBVIOUS
      <4>5. PICK j \in Int : j = i
        BY <1>4
      <4> HIDE DEF s, w
      <4>6. q + (j - 1) = (at + 1) - 1 + (m + j) /\ (at + 1) - 1 + (m + j) <= Len(p)
        BY <4>1, <4>3, <4>4, <4>5, <3>2
      <4> QED BY <4>4, <4>5, <4>6
    <3> HIDE DEF s, f, w
    <3> QED BY <3>5, <3>6, <1>7 DEF Stands
  <2>4. ASSUME NEW k \in 1 .. n PROVE one(k) = AsRead(v, spans)[k]
    <3>1. f[k] = SpanRecord(v, spans[k])
      BY DEF RecordsOf
    <3>2. s(k) \in Int
      <4> HIDE DEF w, n
      <4> QED BY <1>4
    <3>3. p[s(k)] = f[k][1] /\ p[s(k) + 1] = f[k][2]
      <4>1. 1 \in 1 .. w /\ 2 \in 1 .. w
        BY <1>4
      <4> HIDE DEF s, f, w
      <4>2. p[s(k) + (1 - 1)] = f[k][1] /\ p[s(k) + (2 - 1)] = f[k][2]
        BY <4>1, <2>3
      <4>3. s(k) + (1 - 1) = s(k) /\ s(k) + (2 - 1) = s(k) + 1
        BY <3>2
      <4> QED BY <4>2, <4>3
    <3>4. CASE v >= 3
      <4>1. p[s(k) + 2] = f[k][3] /\ p[s(k) + 3] = f[k][4]
        <5>1. 3 \in 1 .. w /\ 4 \in 1 .. w
          BY <1>4, <3>4
        <5> HIDE DEF s, f, w
        <5>2. p[s(k) + (3 - 1)] = f[k][3] /\ p[s(k) + (4 - 1)] = f[k][4]
          BY <5>1, <2>3
        <5>3. s(k) + (3 - 1) = s(k) + 2 /\ s(k) + (4 - 1) = s(k) + 3
          BY <3>2
        <5> QED BY <5>2, <5>3
      <4>2. f[k] = <<spans[k].t0, spans[k].t1, spans[k].n0, spans[k].n1>>
        BY <3>1, <3>4 DEF SpanRecord
      <4> HIDE DEF s, f
      <4>3. one(k) = [t0 |-> spans[k].t0, t1 |-> spans[k].t1, n0 |-> spans[k].n0, n1 |-> spans[k].n1]
        BY <3>3, <3>4, <4>1, <4>2
      <4> QED BY <4>3, <3>4, <1>1 DEF AsRead, IsSpan
    <3>5. CASE ~(v >= 3)
      <4>1. f[k] = <<spans[k].t0, spans[k].t1>>
        BY <3>1, <3>5 DEF SpanRecord
      <4> HIDE DEF s, f
      <4>2. one(k) = [t0 |-> spans[k].t0, t1 |-> spans[k].t1, n0 |-> PLACEHOLDER, n1 |-> PLACEHOLDER]
        BY <3>3, <3>5, <4>1
      <4>3. k \in DOMAIN spans
        BY <1>1
      <4> QED BY <4>2, <4>3, <3>5 DEF AsRead, WithoutNormals
    <3> QED BY <3>4, <3>5
  <2>5. AsRead(v, spans) = [k \in 1 .. n |-> AsRead(v, spans)[k]]
    <3>1. DOMAIN spans = 1 .. n
      BY <1>1
    <3>2. CASE v >= 3
      BY <3>2, <1>1 DEF AsRead
    <3>3. CASE ~(v >= 3)
      BY <3>1, <3>3 DEF AsRead, WithoutNormals
    <3> QED BY <3>2, <3>3
  <2>6. [k \in 1 .. n |-> one(k)] = AsRead(v, spans)
    <3> HIDE DEF one, n
    <3> QED BY <2>4, <2>5
  <2>7. Reading(p, at, 1 + n * w, AsRead(v, spans)) = [next |-> at + (1 + n * w), got |-> AsRead(v, spans)]
    <3>1. PICK t : t = n * w
      OBVIOUS
    <3> HIDE DEF w
    <3> QED BY <3>1, <1>10, <1>12 DEF Reading
  <2>8. at + (1 + n * w) = at + 1 + n * w
    <3>1. PICK t : t = n * w
      OBVIOUS
    <3> HIDE DEF w
    <3> QED BY <3>1, <1>10
  <2> HIDE DEF one
  <2> QED BY <2>2, <2>6, <2>7, <2>8, <1>9
<1> QED BY <1>11, <1>12

-----------------------------------------------------------------------------
(* Reading in turn. *)
\* g reads n things, one behind another, from start on.
Turns(g, p, start, one, n) ==
  /\ g[0] = [next |-> start, got |-> <<>>]
  /\ \A r \in 1 .. n : g[r - 1].next \in 0 .. Len(p) + 1 => g[r] = Then(g[r - 1], one[r][g[r - 1].next])

(* Nothing is read of nothing.                                                *)
LEMMA ReadUpToNone ==
  ASSUME NEW p, Len(p) \in Nat, NEW start \in 1 .. Len(p) + 1, NEW h, Len(h[0]) = 0, NEW got
  PROVE  ReadUpTo(p, start, h, got, 0) = [next |-> start, got |-> <<>>]
<1>1. [j \in 1 .. 0 |-> got[j]] = <<>>
  OBVIOUS
<1>2. start - 1 + 0 <= Len(p) /\ start + 0 = start
  OBVIOUS
<1> QED BY <1>1, <1>2 DEF ReadUpTo, Reading

\* After k turns the first k are read.
AllRead(g, p, start, h, got, n) == \A k \in 0 .. n : g[k] = ReadUpTo(p, start, h, got, k)

(* What reads one thing after another reads them all.                         *)
LEMMA ReadInTurn ==
  ASSUME NEW E, NEW n \in Nat, NEW f \in [1 .. n -> Seq(E)], NEW h, Flattens(h, E, n, f),
         NEW p, Len(p) \in Nat, NEW start \in 1 .. Len(p) + 1, Stands(p, start, h[n]),
         NEW got, NEW one, ReadEach(n, f, p, got, one), NEW g, Turns(g, p, start, one, n)
  PROVE  AllRead(g, p, start, h, got, n)
<1>1. \A k \in 1 .. n : ReadOnce(p, start, h, got, one, k)
  BY ReadsOneMore
<1>2. Len(h[0]) = 0
  <2>1. Grows(n, f, h)
    BY FlatPlaces
  <2> QED BY <2>1 DEF Grows
<1> DEFINE G == {k \in 0 .. n : g[k] = ReadUpTo(p, start, h, got, k)}
<1>3. 0 \in G
  BY <1>2, ReadUpToNone DEF Turns
<1>4. ASSUME NEW k \in 0 .. n - 1, k \in G PROVE k + 1 \in G
  <2>1. k + 1 \in 1 .. n /\ (k + 1) - 1 = k /\ k + 1 \in 0 .. n
    OBVIOUS
  <2>2. PICK q : q = k + 1
    OBVIOUS
  <2>3. g[q - 1] = ReadUpTo(p, start, h, got, q - 1)
    BY <1>4, <2>1, <2>2
  <2>4. ReadOnce(p, start, h, got, one, q)
    BY <1>1, <2>1, <2>2
  <2>5. g[q] = ReadUpTo(p, start, h, got, q)
    BY <2>1, <2>2, <2>3, <2>4 DEF ReadOnce, Turns
  <2> QED BY <2>1, <2>2, <2>5
<1> HIDE DEF G
<1>5. \A k \in 0 .. n : k \in G
  BY <1>3, <1>4, Induction
<1> QED BY <1>5 DEF G, AllRead

-----------------------------------------------------------------------------
(* A field. *)
\* What a field is read back as, and how its rays are spelled.
ArenaRead(v, arena) == [r \in 1 .. Len(arena) |-> AsRead(v, arena[r])]

FieldRead(v, b) == [lattice |-> b.lattice, arena |-> ArenaRead(v, b.arena), placement |-> b.placement]

RaysOf(v, arena) == [r \in 1 .. Len(arena) |-> SpansWritten(v, arena[r])]

\* The values of the rays of a field are in E.
ArenaOver(E, arena) == \A r \in 1 .. Len(arena) : SpansOver(E, arena[r])

\* A list of span lists.
IsArena(arena) ==
  /\ Len(arena) \in Nat /\ arena = [r \in 1 .. Len(arena) |-> arena[r]]
  /\ \A r \in 1 .. Len(arena) : IsSpanList(arena[r])

\* g reads n rays one behind another.
InTurn(g, p, start, v, n) ==
  g = [r \in 0 .. n |-> IF r = 0 THEN [next |-> start, got |-> <<>>]
                        ELSE Then(g[r - 1], read_spans(p, g[r - 1].next, v))]

\* The rays of a field are spelled in values of E.
RaysTyped(E, v, arena) == RaysOf(v, arena) \in [1 .. Len(arena) -> Seq(E)]

(* They are when the values of its spans are in E.                            *)
LEMMA RaysAreTyped ==
  ASSUME NEW E, NEW v \in Int, NEW arena, IsArena(arena), ArenaOver(E, arena)
  PROVE  RaysTyped(E, v, arena)
<1>1. ASSUME NEW r \in 1 .. Len(arena) PROVE SpansWritten(v, arena[r]) \in Seq(E)
  <2>1. Len(arena[r]) \in Nat /\ SpansOver(E, arena[r])
    BY DEF IsArena, IsSpanList, ArenaOver
  <2>2. RecordsSpell(E, v, arena[r])
    BY <2>1, RecordsTyped
  <2> QED BY <2>2 DEF RecordsSpell
<1> QED BY <1>1 DEF RaysOf, RaysTyped

(* The rays of a field are read where they stand.                             *)
LEMMA RaysRead ==
  ASSUME NEW E, NEW v \in Int, NEW arena, IsArena(arena), ArenaOver(E, arena),
         NEW p, Len(p) \in Nat, NEW start \in 1 .. Len(p) + 1,
         Stands(p, start, FlattenSeq(RaysOf(v, arena))),
         NEW g, g = CHOOSE r : InTurn(r, p, start, v, Len(arena))
  PROVE  /\ g[Len(arena)] = Reading(p, start, Len(FlattenSeq(RaysOf(v, arena))), ArenaRead(v, arena))
         /\ Len(FlattenSeq(RaysOf(v, arena))) \in Nat
<1> DEFINE n == Len(arena)
           f == RaysOf(v, arena)
           got == ArenaRead(v, arena)
           one == [k \in 1 .. n |-> [at \in 0 .. Len(p) + 1 |-> read_spans(p, at, v)]]
<1>1. n \in Nat /\ f \in [1 .. n -> Seq(E)]
  BY RaysAreTyped DEF IsArena, RaysTyped
<1>2. PICK h : Flattens(h, E, n, f)
  <2> HIDE DEF f, n
  <2> QED BY <1>1, FlattenSteps
<1>3. FlattenSeq(f) = h[n] /\ h[n] \in Seq(E) /\ Len(h[0]) = 0
  <2>1. [k \in 1 .. n |-> f[k]] = f /\ n \in 0 .. n
    BY <1>1
  <2>2. Grows(n, f, h)
    <3> HIDE DEF f, n
    <3> QED BY <1>1, <1>2, FlatPlaces
  <2> HIDE DEF f
  <2> QED BY <2>1, <2>2, <1>2 DEF Flattens, Grows
<1>4. ReadEach(n, f, p, got, one)
  <2>1. ASSUME NEW k \in 1 .. n, NEW at \in 1 .. Len(p) + 1, Stands(p, at, f[k])
        PROVE  one[k][at] = Reading(p, at, Len(f[k]), got[k])
    <3>1. one[k][at] = read_spans(p, at, v)
      BY <1>1
    <3>2. f[k] = SpansWritten(v, arena[k]) /\ got[k] = AsRead(v, arena[k])
      BY DEF RaysOf, ArenaRead
    <3>3. IsSpanList(arena[k]) /\ SpansOver(E, arena[k])
      BY DEF IsArena, ArenaOver
    <3> HIDE DEF one, f, got, n
    <3> QED BY <2>1, <3>1, <3>2, <3>3, SpansRead
  <2> HIDE DEF one, f, got
  <2> QED BY <2>1 DEF ReadEach
<1> DEFINE own == [r \in 0 .. n |-> ReadUpTo(p, start, h, got, r)]
<1> HIDE DEF f, got
<1>5. \A k \in 1 .. n : ReadOnce(p, start, h, got, one, k)
  <2>1. Stands(p, start, h[n])
    BY <1>3 DEF f
  <2> HIDE DEF one, n
  <2> QED BY <1>1, <1>2, <1>4, <2>1, ReadsOneMore
<1>6. InTurn(own, p, start, v, n)
  <2>1. ASSUME NEW r \in 0 .. n
        PROVE  own[r] = IF r = 0 THEN [next |-> start, got |-> <<>>]
                        ELSE Then(own[r - 1], read_spans(p, own[r - 1].next, v))
    <3>1. CASE r = 0
      <4>1. own[r] = ReadUpTo(p, start, h, got, 0)
        BY <3>1
      <4> HIDE DEF own
      <4> QED BY <3>1, <4>1, <1>3, ReadUpToNone
    <3>2. CASE r # 0
      <4>1. r \in 1 .. n /\ r - 1 \in 0 .. n
        BY <3>2, <1>1
      <4>2. own[r] = ReadUpTo(p, start, h, got, r) /\ own[r - 1] = ReadUpTo(p, start, h, got, r - 1)
        BY <4>1
      <4> HIDE DEF own
      <4>3. own[r - 1].next \in 0 .. Len(p) + 1 /\ Then(own[r - 1], one[r][own[r - 1].next]) = own[r]
        <5> HIDE DEF one
        <5> QED BY <4>1, <4>2, <1>5 DEF ReadOnce
      <4>4. one[r][own[r - 1].next] = read_spans(p, own[r - 1].next, v)
        BY <4>1, <4>3
      <4> HIDE DEF one
      <4> QED BY <3>2, <4>3, <4>4
    <3> QED BY <3>1, <3>2
  <2>2. own = [r \in 0 .. n |-> own[r]]
    OBVIOUS
  <2> HIDE DEF own, one, n
  <2> QED BY <2>1, <2>2 DEF InTurn
<1>7. InTurn(g, p, start, v, n)
  <2> HIDE DEF own, n
  <2> QED BY <1>6 DEF n
<1>8. Turns(g, p, start, one, n)
  <2>0. \A r \in 0 .. n : g[r] = IF r = 0 THEN [next |-> start, got |-> <<>>]
                                ELSE Then(g[r - 1], read_spans(p, g[r - 1].next, v))
    <3> HIDE DEF n
    <3> QED BY <1>7 DEF InTurn
  <2>1. g[0] = [next |-> start, got |-> <<>>]
    BY <2>0, <1>1
  <2>2. ASSUME NEW r \in 1 .. n, g[r - 1].next \in 0 .. Len(p) + 1
        PROVE  g[r] = Then(g[r - 1], one[r][g[r - 1].next])
    <3>1. r \in 0 .. n /\ r # 0
      BY <1>1
    <3>2. one[r][g[r - 1].next] = read_spans(p, g[r - 1].next, v)
      BY <2>2
    <3> HIDE DEF one
    <3> QED BY <3>1, <3>2, <2>0
  <2> HIDE DEF one, n
  <2> QED BY <2>1, <2>2 DEF Turns
<1>9. g[n] = ReadUpTo(p, start, h, got, n)
  <2>1. Stands(p, start, h[n]) /\ n \in 0 .. n
    BY <1>1, <1>3 DEF f
  <2> HIDE DEF one, n
  <2>2. AllRead(g, p, start, h, got, n)
    BY <1>1, <1>2, <1>4, <1>8, <2>1, ReadInTurn
  <2> QED BY <2>1, <2>2 DEF AllRead
<1>10. [j \in 1 .. n |-> got[j]] = ArenaRead(v, arena)
  BY DEF got, ArenaRead
<1>11. Len(h[n]) \in Nat
  BY <1>3
<1>12. g[n] = Reading(p, start, Len(h[n]), ArenaRead(v, arena))
  BY <1>9, <1>10 DEF ReadUpTo
<1> QED BY <1>3, <1>11, <1>12 DEF f, n

-----------------------------------------------------------------------------
(* A function on 1 .. n is a sequence of n.                                   *)
LEMMA IsSequence ==
  ASSUME NEW E, NEW n \in Nat, NEW f \in [1 .. n -> E]
  PROVE  f \in Seq(E) /\ Len(f) = n
<1>1. f \in Seq(E)
  BY SeqDef
<1> QED BY <1>1, LenProperties

\* As many spans are read as were written, of the same ray.
ReadAlike(v, spans) ==
  /\ Len(AsRead(v, spans)) = Len(spans)
  /\ AsRead(v, spans) \in Seq({AsRead(v, spans)[k] : k \in 1 .. Len(spans)})
  /\ spans \in Seq({spans[k] : k \in 1 .. Len(spans)})

(* As many spans are read as were written.                                    *)
LEMMA SpansReadAlike ==
  ASSUME NEW v \in Int, NEW spans, IsSpanList(spans)
  PROVE  ReadAlike(v, spans)
<1> DEFINE n == Len(spans)
           r == AsRead(v, spans)
           S == {spans[k] : k \in 1 .. n}
           R == {r[k] : k \in 1 .. n}
<1>1. n \in Nat /\ spans = [k \in 1 .. n |-> spans[k]]
  BY DEF IsSpanList
<1>2. spans \in [1 .. n -> S]
  BY <1>1
<1>3. spans \in Seq(S)
  <2> HIDE DEF S, n
  <2> QED BY <1>1, <1>2, IsSequence
<1>4. r = [k \in 1 .. n |-> r[k]]
  <2>1. DOMAIN spans = 1 .. n
    BY <1>1
  <2>2. CASE v >= 3
    BY <2>2, <1>1 DEF AsRead
  <2>3. CASE ~(v >= 3)
    BY <2>1, <2>3 DEF AsRead, WithoutNormals
  <2> QED BY <2>2, <2>3
<1> HIDE DEF r
<1>5. r \in [1 .. n -> R]
  BY <1>4
<1>6. r \in Seq(R) /\ Len(r) = n
  <2> HIDE DEF R, n
  <2> QED BY <1>1, <1>5, IsSequence
<1> QED BY <1>3, <1>6 DEF ReadAlike, r

(* The totals agree.                                                          *)
LEMMA ArenaCounts ==
  ASSUME NEW v \in Int, NEW arena, IsArena(arena)
  PROVE  /\ Len(FlattenSeq(ArenaRead(v, arena))) = Len(FlattenSeq(arena))
         /\ Len(FlattenSeq(arena)) \in Nat
<1> DEFINE n == Len(arena)
           g == ArenaRead(v, arena)
           E == UNION {{arena[r][k] : k \in 1 .. Len(arena[r])} : r \in 1 .. n}
           F == UNION {{AsRead(v, arena[r])[k] : k \in 1 .. Len(arena[r])} : r \in 1 .. n}
<1>1. n \in Nat /\ arena = [r \in 1 .. n |-> arena[r]]
  BY DEF IsArena
<1>2. ASSUME NEW r \in 1 .. n
      PROVE  arena[r] \in Seq(E) /\ g[r] \in Seq(F) /\ Len(g[r]) = Len(arena[r])
  <2>1. ReadAlike(v, arena[r])
    BY SpansReadAlike DEF IsArena
  <2>2. g[r] = AsRead(v, arena[r])
    BY DEF ArenaRead
  <2>3. PICK A : A = {arena[r][k] : k \in 1 .. Len(arena[r])}
    OBVIOUS
  <2>4. PICK B : B = {AsRead(v, arena[r])[k] : k \in 1 .. Len(arena[r])}
    OBVIOUS
  <2>5. A \subseteq E /\ B \subseteq F
    BY <2>3, <2>4
  <2> HIDE DEF E, F, g, n
  <2>6. arena[r] \in Seq(A) /\ g[r] \in Seq(B) /\ Len(g[r]) = Len(arena[r])
    BY <2>1, <2>2, <2>3, <2>4 DEF ReadAlike
  <2> QED BY <2>5, <2>6
<1>3. arena \in [1 .. n -> Seq(E)] /\ g \in [1 .. n -> Seq(F)]
  <2> HIDE DEF E, F
  <2>1. g = [r \in 1 .. n |-> g[r]]
    BY DEF ArenaRead
  <2> HIDE DEF g, n
  <2> QED BY <2>1, <1>1, <1>2
<1> HIDE DEF E, F, g, n
<1>4. n \in Nat /\ OfOneLength(n, arena, g)
  BY <1>1, <1>2 DEF OfOneLength
<1>5. Len(FlattenSeq(arena)) = Len(FlattenSeq(g)) /\ Len(FlattenSeq(arena)) \in Nat
  BY <1>3, <1>4, FlatAlike
<1> QED BY <1>5 DEF g

-----------------------------------------------------------------------------
(* The header. *)
\* The parts of a field in its file: before the spacing, the spacing, and behind it.
Header(b, v) == <<MAGIC, v, axis_code(b.lattice.axis), b.lattice.counts[1], b.lattice.counts[2], b.lattice.origin>>
Cells(b, v) == IF v >= 4 THEN b.lattice.spacing ELSE <<b.lattice.spacing[1]>>
Totals(b) == <<b.lattice.length, b.lattice.extent, b.placement, Len(b.arena), Len(FlattenSeq(b.arena))>>

\* How many values the spacing takes.
CellsWide(v) == IF v >= 4 THEN 2 ELSE 1

\* The values of a field are in E.
FieldOver(E, b) ==
  /\ Nat \subseteq E /\ MAGIC \in E /\ ArenaOver(E, b.arena)
  /\ b.lattice.counts[1] \in E /\ b.lattice.counts[2] \in E /\ b.lattice.origin \in E
  /\ b.lattice.spacing[1] \in E /\ b.lattice.spacing[2] \in E
  /\ b.lattice.length \in E /\ b.lattice.extent \in E /\ b.placement \in E

\* A field is spelled as a header and its rays, all of it in E.
FieldSpells(E, v, b) ==
  /\ Header(b, v) \in Seq(E) /\ Len(Header(b, v)) = 6
  /\ Cells(b, v) \in Seq(E) /\ Len(Cells(b, v)) = CellsWide(v)
  /\ Totals(b) \in Seq(E) /\ Len(Totals(b)) = 5
  /\ FlattenSeq(RaysOf(v, b.arena)) \in Seq(E)
  /\ write(b, v) = ((Header(b, v) \o Cells(b, v)) \o Totals(b)) \o FlattenSeq(RaysOf(v, b.arena))
  /\ write(b, v) \in Seq(E)
  /\ Len(write(b, v)) = 11 + CellsWide(v) + Len(FlattenSeq(RaysOf(v, b.arena)))

(* It is when its values are in E.                                            *)
LEMMA FieldIsSpelled ==
  ASSUME NEW E, NEW v \in 1 .. 4, NEW b, IsField(b), FieldOver(E, b)
  PROVE  FieldSpells(E, v, b)
<1> DEFINE l == b.lattice
           n == Len(b.arena)
           flat == FlattenSeq(RaysOf(v, b.arena))
<1>1. IsArena(b.arena) /\ ArenaOver(E, b.arena) /\ v \in Int /\ n \in Nat
  BY DEF IsField, IsArena, FieldOver
<1>2. Len(FlattenSeq(b.arena)) \in Nat
  BY <1>1, ArenaCounts
<1>3. v \in E /\ n \in E /\ Len(FlattenSeq(b.arena)) \in E /\ l.axis - 1 \in E
  <2>1. l.axis - 1 \in Nat
    BY DEF IsField
  <2> QED BY <1>1, <1>2, <2>1 DEF FieldOver
<1>4. Header(b, v) \in Seq(E) /\ Len(Header(b, v)) = 6
  <2>1. axis_code(l.axis) \in E
    BY <1>3 DEF axis_code
  <2>2. \A x1, x2, x3, x4, x5, x6 \in E : <<x1, x2, x3, x4, x5, x6>> \in Seq(E)
    OBVIOUS
  <2>3. \A x1, x2, x3, x4, x5, x6 \in E : Len(<<x1, x2, x3, x4, x5, x6>>) = 6
    OBVIOUS
  <2> QED BY <2>1, <2>2, <2>3, <1>3 DEF Header, FieldOver
<1>5. Cells(b, v) \in Seq(E) /\ Len(Cells(b, v)) = CellsWide(v)
  <2>1. l.spacing = <<l.spacing[1], l.spacing[2]>>
    <3>1. l = [axis |-> l.axis, origin |-> l.origin, spacing |-> <<l.spacing[1], l.spacing[2]>>,
               counts |-> <<l.counts[1], l.counts[2]>>, extent |-> l.extent, length |-> l.length]
      BY DEF IsField
    <3>2. PICK r : r = [axis |-> l.axis, origin |-> l.origin, spacing |-> <<l.spacing[1], l.spacing[2]>>,
                        counts |-> <<l.counts[1], l.counts[2]>>, extent |-> l.extent, length |-> l.length]
      OBVIOUS
    <3>3. r.spacing = <<l.spacing[1], l.spacing[2]>>
      BY <3>2
    <3> QED BY <3>1, <3>2, <3>3
  <2>2. l.spacing[1] \in E /\ l.spacing[2] \in E
    BY DEF FieldOver
  <2>3. PICK x, y : x = l.spacing[1] /\ y = l.spacing[2]
    OBVIOUS
  <2>4. <<x, y>> \in Seq(E) /\ Len(<<x, y>>) = 2 /\ <<x>> \in Seq(E) /\ Len(<<x>>) = 1
    BY <2>2, <2>3
  <2> QED BY <2>1, <2>3, <2>4 DEF Cells, CellsWide
<1>6. Totals(b) \in Seq(E) /\ Len(Totals(b)) = 5
  <2>1. \A x1, x2, x3, x4, x5 \in E : <<x1, x2, x3, x4, x5>> \in Seq(E)
    OBVIOUS
  <2>2. \A x1, x2, x3, x4, x5 \in E : Len(<<x1, x2, x3, x4, x5>>) = 5
    OBVIOUS
  <2> QED BY <2>1, <2>2, <1>3 DEF Totals, FieldOver
<1>7. flat \in Seq(E)
  <2>1. RaysOf(v, b.arena) \in [1 .. n -> Seq(E)]
    BY <1>1, RaysAreTyped DEF RaysTyped
  <2> DEFINE f == RaysOf(v, b.arena)
  <2> HIDE DEF f
  <2>2. PICK h : Flattens(h, E, n, f)
    <3> HIDE DEF n
    <3> QED BY <1>1, <2>1, FlattenSteps DEF f
  <2>3. [k \in 1 .. n |-> f[k]] = f /\ n \in 0 .. n
    BY <1>1, <2>1 DEF f
  <2>4. FlattenSeq(f) = h[n] /\ h[n] \in Seq(E)
    BY <2>2, <2>3 DEF Flattens
  <2> QED BY <2>4 DEF f
<1>8. write(b, v) = ((Header(b, v) \o Cells(b, v)) \o Totals(b)) \o flat
  <2> DEFINE rays == [r \in DOMAIN b.arena |->
                        <<Len(b.arena[r])>> \o FlattenSeq([k \in DOMAIN b.arena[r] |-> SpanRecord(v, b.arena[r][k])])]
  <2>1. DOMAIN b.arena = 1 .. n
    BY <1>1 DEF IsArena
  <2>2. \A r \in 1 .. n : DOMAIN b.arena[r] = 1 .. Len(b.arena[r])
    <3>1. \A r \in 1 .. n : b.arena[r] = [k \in 1 .. Len(b.arena[r]) |-> b.arena[r][k]]
      BY <1>1 DEF IsArena, IsSpanList
    <3> TAKE r \in 1 .. n
    <3>2. PICK s : s = b.arena[r]
      OBVIOUS
    <3>3. s = [k \in 1 .. Len(s) |-> s[k]]
      BY <3>1, <3>2
    <3>4. DOMAIN s = 1 .. Len(s)
      BY <3>3
    <3> QED BY <3>2, <3>4
  <2>3. rays = RaysOf(v, b.arena)
    BY <2>1, <2>2, Zenon DEF RaysOf, SpansWritten, RecordsOf
  <2>4. write(b, v) = ((Header(b, v) \o Cells(b, v)) \o Totals(b)) \o FlattenSeq(rays)
    BY Zenon DEF write, Header, Cells, Totals
  <2> HIDE DEF rays
  <2> QED BY <2>3, <2>4
<1> HIDE DEF flat, n, l
<1>9. write(b, v) \in Seq(E) /\ Len(write(b, v)) = 11 + CellsWide(v) + Len(flat)
  <2>0. \A a, c \in Seq(E) : a \o c \in Seq(E) /\ Len(a \o c) = Len(a) + Len(c) /\ Len(c) \in Nat
    OBVIOUS
  <2>1. PICK x, y, z : x = Header(b, v) /\ y = Cells(b, v) /\ z = Totals(b)
    OBVIOUS
  <2>2. x \in Seq(E) /\ y \in Seq(E) /\ z \in Seq(E) /\ Len(x) = 6 /\ Len(z) = 5 /\ Len(y) = CellsWide(v)
    BY <2>1, <1>4, <1>5, <1>6
  <2>3. x \o y \in Seq(E) /\ Len(x \o y) = 6 + Len(y) /\ Len(y) \in Nat
    BY <2>0, <2>2
  <2>4. (x \o y) \o z \in Seq(E) /\ Len((x \o y) \o z) = 11 + Len(y)
    <3>1. PICK u : u = x \o y
      OBVIOUS
    <3>2. u \in Seq(E) /\ Len(u) = 6 + Len(y) /\ Len(y) \in Nat
      BY <2>3, <3>1
    <3>3. u \o z \in Seq(E) /\ Len(u \o z) = Len(u) + Len(z)
      BY <2>0, <2>2, <3>2
    <3> QED BY <2>2, <3>1, <3>2, <3>3
  <2>5. ((x \o y) \o z) \o flat \in Seq(E) /\ Len(((x \o y) \o z) \o flat) = 11 + Len(y) + Len(flat)
    <3>1. PICK t : t = (x \o y) \o z
      OBVIOUS
    <3>2. t \in Seq(E) /\ Len(t) = 11 + Len(y)
      BY <2>4, <3>1
    <3>3. t \o flat \in Seq(E) /\ Len(t \o flat) = Len(t) + Len(flat)
      BY <3>2, <1>7
    <3> QED BY <3>1, <3>2, <3>3
  <2> QED BY <2>1, <2>2, <2>5, <1>8
<1> QED BY <1>4, <1>5, <1>6, <1>7, <1>8, <1>9 DEF FieldSpells, flat

\* The parts of a field stand one behind another.
FieldStands(p, at, v, b) ==
  /\ Stands(p, at, Header(b, v)) /\ Stands(p, at + 6, Cells(b, v))
  /\ Stands(p, at + 6 + CellsWide(v), Totals(b))
  /\ Stands(p, at + 11 + CellsWide(v), FlattenSeq(RaysOf(v, b.arena)))

(* They do where the field stands.                                            *)
LEMMA FieldStandsInParts ==
  ASSUME NEW E, NEW v \in 1 .. 4, NEW b, IsField(b), FieldOver(E, b),
         NEW p, Len(p) \in Nat, NEW at \in 1 .. Len(p) + 1, Stands(p, at, write(b, v))
  PROVE  FieldStands(p, at, v, b)
<1>1. FieldSpells(E, v, b)
  BY FieldIsSpelled
<1>2. PICK x, y, z, u : /\ x = Header(b, v) /\ y = Cells(b, v) /\ z = Totals(b)
                        /\ u = FlattenSeq(RaysOf(v, b.arena))
  OBVIOUS
<1>3. PICK c \in 1 .. 2 : c = CellsWide(v)
  BY DEF CellsWide
<1>4. /\ x \in Seq(E) /\ y \in Seq(E) /\ z \in Seq(E) /\ u \in Seq(E)
      /\ Len(x) = 6 /\ Len(y) = c /\ Len(z) = 5
      /\ Stands(p, at, ((x \o y) \o z) \o u)
  BY <1>1, <1>2, <1>3 DEF FieldSpells
<1>5. PICK xy, xyz : xy = x \o y /\ xyz = xy \o z
  OBVIOUS
<1>6. xy \in Seq(E) /\ Len(xy) = 6 + c /\ xyz \in Seq(E) /\ Len(xyz) = 11 + c
  <2>0. \A s, t \in Seq(E) : s \o t \in Seq(E) /\ Len(s \o t) = Len(s) + Len(t)
    OBVIOUS
  <2>1. xy \in Seq(E) /\ Len(xy) = 6 + c
    BY <2>0, <1>4, <1>5
  <2>2. xyz \in Seq(E) /\ Len(xyz) = (6 + c) + 5
    BY <2>0, <1>4, <1>5, <2>1
  <2> QED BY <2>1, <2>2
<1>7. at \in Nat \ {0} /\ at + 6 \in Nat \ {0}
  OBVIOUS
<1>8. Stands(p, at, xyz) /\ Stands(p, at + Len(xyz), u)
  <2>1. Stands(p, at, xyz \o u)
    BY <1>4, <1>5
  <2> QED BY <2>1, <1>4, <1>6, <1>7, StandsBoth
<1>9. Stands(p, at, xy) /\ Stands(p, at + Len(xy), z)
  <2>1. Stands(p, at, xy \o z)
    BY <1>5, <1>8
  <2> QED BY <2>1, <1>4, <1>6, <1>7, StandsBoth
<1>10. Stands(p, at, x) /\ Stands(p, at + Len(x), y)
  <2>1. Stands(p, at, x \o y)
    BY <1>5, <1>9
  <2> QED BY <2>1, <1>4, <1>7, StandsBoth
<1>11. at + Len(xyz) = at + 11 + c /\ at + Len(xy) = at + 6 + c /\ at + Len(x) = at + 6
  BY <1>4, <1>6
<1> QED BY <1>2, <1>3, <1>8, <1>9, <1>10, <1>11 DEF FieldStands

(* What a reader finds at the places of a header that is all there.           *)
HeaderFound(p, at, v, b) ==
  LET l == b.lattice
      c == CellsWide(v)
  IN /\ p[at] = l.axis - 1 /\ p[at + 1] = l.counts[1] /\ p[at + 2] = l.counts[2] /\ p[at + 3] = l.origin
     /\ p[at + 4] = l.spacing[1] /\ p[at + 3 + c] = l.spacing[2]
     /\ p[at + 4 + c] = l.length /\ p[at + 5 + c] = l.extent /\ p[at + 6 + c] = b.placement
     /\ p[at + 7 + c] = Len(b.arena) /\ p[at + 8 + c] = Len(FlattenSeq(b.arena))

\* A format with one spacing holds fields with one spacing.
OneSpacing(v, b) == v < 4 => b.lattice.spacing[1] = b.lattice.spacing[2]

(* A header that stands somewhere, and is all there, is found there.            *)
LEMMA HeaderIsFound ==
  ASSUME NEW v \in 1 .. 4, NEW b, IsField(b), OneSpacing(v, b),
         NEW p, Len(p) \in Nat, NEW at \in 1 .. Len(p) + 1, FieldStands(p, at, v, b)
  PROVE  /\ at <= Len(p) => p[at] = MAGIC
         /\ at + 1 <= Len(p) => p[at + 1] = v
         /\ at + 10 + CellsWide(v) <= Len(p) => HeaderFound(p, at + 2, v, b)
<1>1. PICK c \in 1 .. 2 : c = CellsWide(v) /\ (v >= 4 => c = 2) /\ (v < 4 => c = 1)
  BY DEF CellsWide
<1>2. /\ at <= Len(p) => p[at] = MAGIC
      /\ at + 1 <= Len(p) => p[at + 1] = v
      /\ at + 5 <= Len(p) =>
           /\ p[at + 2] = b.lattice.axis - 1 /\ p[at + 3] = b.lattice.counts[1]
           /\ p[at + 4] = b.lattice.counts[2] /\ p[at + 5] = b.lattice.origin
  <2>1. PICK x : x = Header(b, v)
    OBVIOUS
  <2>2. Len(x) = 6 /\ \A i \in 1 .. Len(x) : at - 1 + i <= Len(p) => p[at - 1 + i] = x[i]
    BY <2>1 DEF FieldStands, Stands, Header
  <2>3. \A i \in 1 .. 6 : at + (i - 1) <= Len(p) => p[at + (i - 1)] = x[i]
    <3> TAKE i \in 1 .. 6
    <3>1. at - 1 + i = at + (i - 1)
      OBVIOUS
    <3> QED BY <2>2, <3>1
  <2>4. /\ x[1] = MAGIC /\ x[2] = v /\ x[3] = b.lattice.axis - 1 /\ x[4] = b.lattice.counts[1]
        /\ x[5] = b.lattice.counts[2] /\ x[6] = b.lattice.origin
    BY <2>1 DEF Header, axis_code
  <2>5. at + (1 - 1) = at /\ at + (2 - 1) = at + 1 /\ at + (3 - 1) = at + 2 /\ at + (4 - 1) = at + 3
        /\ at + (5 - 1) = at + 4 /\ at + (6 - 1) = at + 5
    OBVIOUS
  <2>6. 1 \in 1 .. 6 /\ 2 \in 1 .. 6 /\ 3 \in 1 .. 6 /\ 4 \in 1 .. 6 /\ 5 \in 1 .. 6 /\ 6 \in 1 .. 6
    OBVIOUS
  <2> QED BY <2>3, <2>4, <2>5, <2>6
<1>3. ASSUME at + 10 + c <= Len(p) PROVE HeaderFound(p, at + 2, v, b)
  <2>1. /\ p[at + 2] = b.lattice.axis - 1 /\ p[at + 2 + 1] = b.lattice.counts[1]
        /\ p[at + 2 + 2] = b.lattice.counts[2] /\ p[at + 2 + 3] = b.lattice.origin
    <3>1. at + 2 + 1 = at + 3 /\ at + 2 + 2 = at + 4 /\ at + 2 + 3 = at + 5 /\ at + 5 <= Len(p)
      BY <1>3
    <3> QED BY <3>1, <1>2
  <2>2. p[at + 2 + 4] = b.lattice.spacing[1] /\ p[at + 2 + 3 + c] = b.lattice.spacing[2]
    <3>1. PICK y : y = Cells(b, v)
      OBVIOUS
    <3>2. Stands(p, at + 6, y)
      BY <3>1 DEF FieldStands
    <3>3. at + 2 + 4 = (at + 6) - 1 + 1 /\ (at + 6) - 1 + 1 <= Len(p) /\ (at + 6) - 1 + 2 <= Len(p) + 1
      BY <1>3
    <3>4. CASE v >= 4
      <4>1. y = b.lattice.spacing
        BY <3>1, <3>4 DEF Cells
      <4>2. Len(y) = 2
        <5>1. PICK r : r = [axis |-> b.lattice.axis, origin |-> b.lattice.origin,
                            spacing |-> <<b.lattice.spacing[1], b.lattice.spacing[2]>>,
                            counts |-> <<b.lattice.counts[1], b.lattice.counts[2]>>,
                            extent |-> b.lattice.extent, length |-> b.lattice.length]
          OBVIOUS
        <5>2. b.lattice = r /\ r.spacing = <<b.lattice.spacing[1], b.lattice.spacing[2]>>
          BY <5>1 DEF IsField
        <5>3. PICK s1, s2 : s1 = b.lattice.spacing[1] /\ s2 = b.lattice.spacing[2]
          OBVIOUS
        <5>4. y = <<s1, s2>>
          BY <4>1, <5>2, <5>3
        <5> QED BY <5>4
      <4>3. p[(at + 6) - 1 + 1] = y[1]
        <5>1. 1 \in 1 .. Len(y)
          BY <4>2
        <5> QED BY <3>2, <3>3, <5>1 DEF Stands
      <4>4. p[(at + 6) - 1 + 2] = y[2]
        <5>1. 2 \in 1 .. Len(y) /\ (at + 6) - 1 + 2 <= Len(p)
          BY <4>2, <1>1, <1>3, <3>4
        <5> QED BY <3>2, <5>1 DEF Stands
      <4>5. at + 2 + 3 + c = (at + 6) - 1 + 2
        BY <1>1, <3>4
      <4> QED BY <3>3, <4>1, <4>3, <4>4, <4>5
    <3>5. CASE v < 4
      <4>1. y = <<b.lattice.spacing[1]>> /\ b.lattice.spacing[1] = b.lattice.spacing[2]
        BY <3>1, <3>5 DEF Cells, OneSpacing
      <4>2. Len(y) = 1 /\ y[1] = b.lattice.spacing[1]
        BY <4>1
      <4>3. p[(at + 6) - 1 + 1] = y[1]
        <5>1. 1 \in 1 .. Len(y)
          BY <4>2
        <5> QED BY <3>2, <3>3, <5>1 DEF Stands
      <4>4. at + 2 + 3 + c = (at + 6) - 1 + 1
        BY <1>1, <3>5
      <4> QED BY <3>3, <4>1, <4>2, <4>3, <4>4
    <3> QED BY <3>4, <3>5
  <2>3. /\ p[at + 2 + 4 + c] = b.lattice.length /\ p[at + 2 + 5 + c] = b.lattice.extent
        /\ p[at + 2 + 6 + c] = b.placement
        /\ p[at + 2 + 7 + c] = Len(b.arena) /\ p[at + 2 + 8 + c] = Len(FlattenSeq(b.arena))
    <3>1. PICK z : z = Totals(b)
      OBVIOUS
    <3>2. PICK s \in Nat : s = at + 6 + c
      OBVIOUS
    <3>3. Len(z) = 5 /\ \A i \in 1 .. Len(z) : s - 1 + i <= Len(p) => p[s - 1 + i] = z[i]
      BY <3>1, <3>2, <1>1 DEF FieldStands, Stands, Totals
    <3>4. s + 4 <= Len(p)
      BY <3>2, <1>3
    <3>5. p[s - 1 + 1] = z[1] /\ p[s - 1 + 2] = z[2] /\ p[s - 1 + 3] = z[3] /\ p[s - 1 + 4] = z[4]
          /\ p[s - 1 + 5] = z[5]
      BY <3>3, <3>4
    <3>6. /\ z[1] = b.lattice.length /\ z[2] = b.lattice.extent /\ z[3] = b.placement
          /\ z[4] = Len(b.arena) /\ z[5] = Len(FlattenSeq(b.arena))
      BY <3>1 DEF Totals
    <3>7. /\ at + 2 + 4 + c = s - 1 + 1 /\ at + 2 + 5 + c = s - 1 + 2 /\ at + 2 + 6 + c = s - 1 + 3
          /\ at + 2 + 7 + c = s - 1 + 4 /\ at + 2 + 8 + c = s - 1 + 5
      BY <3>2
    <3> QED BY <3>5, <3>6, <3>7
  <2> QED BY <2>1, <2>2, <2>3, <1>1 DEF HeaderFound
<1> QED BY <1>1, <1>2, <1>3

(* The body of a field is read behind its version.                            *)
LEMMA BodyIsRead ==
  ASSUME NEW E, NEW v \in 1 .. 4, NEW b, IsField(b), FieldOver(E, b),
         NEW p, Len(p) \in Nat, NEW at \in Nat \ {0}, HeaderFound(p, at, v, b),
         at + 9 + CellsWide(v) \in 1 .. Len(p) + 1,
         Stands(p, at + 9 + CellsWide(v), FlattenSeq(RaysOf(v, b.arena)))
  PROVE  read_body(p, at, v)
           = Reading(p, at + 9 + CellsWide(v), Len(FlattenSeq(RaysOf(v, b.arena))), FieldRead(v, b))
<1> DEFINE l == b.lattice
           c == CellsWide(v)
           n == Len(b.arena)
           start == at + 9 + c
           flat == FlattenSeq(RaysOf(v, b.arena))
           lattice == [axis |-> p[at] + 1, counts |-> <<p[at + 1], p[at + 2]>>,
                       origin |-> p[at + 3],
                       spacing |-> <<p[at + 4], p[at + 3 + c]>>,
                       length |-> p[at + 4 + c], extent |-> p[at + 5 + c]]
           rays == p[at + 7 + c]
           g == CHOOSE r : InTurn(r, p, start, v, n)
<1>1. IsArena(b.arena) /\ ArenaOver(E, b.arena) /\ v \in Int /\ n \in Nat
  BY DEF IsField, IsArena, FieldOver
<1>2. rays = n
  BY DEF HeaderFound
<1>3. lattice = l
  <2>1. l.axis - 1 + 1 = l.axis
    BY DEF IsField
  <2>2. l = [axis |-> l.axis, origin |-> l.origin, spacing |-> <<l.spacing[1], l.spacing[2]>>,
             counts |-> <<l.counts[1], l.counts[2]>>, extent |-> l.extent, length |-> l.length]
    BY DEF IsField
  <2>3. /\ p[at] = l.axis - 1 /\ p[at + 1] = l.counts[1] /\ p[at + 2] = l.counts[2] /\ p[at + 3] = l.origin
        /\ p[at + 4] = l.spacing[1] /\ p[at + 3 + c] = l.spacing[2]
        /\ p[at + 4 + c] = l.length /\ p[at + 5 + c] = l.extent
    BY DEF HeaderFound
  <2>4. lattice = [axis |-> l.axis, counts |-> <<l.counts[1], l.counts[2]>>, origin |-> l.origin,
                   spacing |-> <<l.spacing[1], l.spacing[2]>>, length |-> l.length, extent |-> l.extent]
    BY <2>1, <2>3, Zenon
  <2> HIDE DEF l, lattice
  <2> QED BY <2>2, <2>4
<1>4. p[at] \in 0 .. 2 /\ rays = ray_count(lattice)
  <2>1. l.axis \in 1 .. 3 /\ n = ray_count(l) /\ p[at] = l.axis - 1
    BY DEF IsField, HeaderFound
  <2> HIDE DEF lattice, rays, n
  <2> QED BY <2>1, <1>2, <1>3
<1>5. at + HeaderWidth(v) = start
  BY DEF HeaderWidth, CellsWide
<1>6. g[n] = Reading(p, start, Len(flat), ArenaRead(v, b.arena)) /\ Len(flat) \in Nat
  <2>1. start \in 1 .. Len(p) + 1 /\ Stands(p, start, flat)
    OBVIOUS
  <2>2. g = CHOOSE r : InTurn(r, p, start, v, Len(b.arena))
    OBVIOUS
  <2> HIDE DEF start, g
  <2> QED BY <1>1, <2>1, <2>2, RaysRead
<1>7. read_body(p, at, v)
        = IF p[at] \notin 0 .. 2 THEN Failed("BadHeader")
          ELSE IF rays # ray_count(lattice) THEN Failed("CountMismatch")
          ELSE IF g[n].next = 0 THEN Failed("Truncated")
          ELSE IF ~Recount(g[n].got, p[at + 8 + c]) THEN Failed("CountMismatch")
          ELSE [next |-> g[n].next,
                got |-> [lattice |-> lattice, arena |-> g[n].got, placement |-> p[at + 6 + c]]]
  <2> DEFINE g2 == CHOOSE r : InTurn(r, p, at + HeaderWidth(v), v, rays)
  <2>1. read_body(p, at, v)
        = IF p[at] \notin 0 .. 2 THEN Failed("BadHeader")
          ELSE IF rays # ray_count(lattice) THEN Failed("CountMismatch")
          ELSE IF g2[rays].next = 0 THEN Failed("Truncated")
          ELSE IF ~Recount(g2[rays].got, p[at + 8 + c]) THEN Failed("CountMismatch")
          ELSE [next |-> g2[rays].next,
                got |-> [lattice |-> lattice, arena |-> g2[rays].got, placement |-> p[at + 6 + c]]]
    BY Zenon DEF read_body, InTurn, CellsWide
  <2>2. g2 = g
    BY <1>2, <1>5
  <2> HIDE DEF g2, g, lattice, rays, n
  <2> QED BY <2>1, <2>2, <1>2
<1>8. Recount(ArenaRead(v, b.arena), p[at + 8 + c])
  <2>1. p[at + 8 + c] = Len(FlattenSeq(b.arena))
    BY DEF HeaderFound
  <2> QED BY <2>1, <1>1, ArenaCounts DEF Recount
<1>9. p[at + 6 + c] = b.placement
  BY DEF HeaderFound
<1> HIDE DEF g, lattice, rays, n, l, flat
<1>10. CASE start - 1 + Len(flat) <= Len(p)
  <2>1. g[n] = [next |-> start + Len(flat), got |-> ArenaRead(v, b.arena)] /\ start + Len(flat) # 0
    <3>1. start \in Nat \ {0}
      OBVIOUS
    <3> HIDE DEF start
    <3> QED BY <1>6, <1>10, <3>1 DEF Reading
  <2>2. g[n].next = start + Len(flat) /\ g[n].got = ArenaRead(v, b.arena)
    BY <2>1
  <2>3. read_body(p, at, v) = [next |-> start + Len(flat),
                               got |-> [lattice |-> lattice, arena |-> ArenaRead(v, b.arena),
                                        placement |-> p[at + 6 + c]]]
    <3> HIDE DEF start, c
    <3> QED BY <1>4, <1>7, <1>8, <2>1, <2>2
  <2>4. Reading(p, start, Len(flat), FieldRead(v, b)) = [next |-> start + Len(flat), got |-> FieldRead(v, b)]
    BY <1>10 DEF Reading
  <2> HIDE DEF start
  <2> QED BY <2>3, <2>4, <1>3, <1>9 DEF FieldRead, l, flat, start
<1>11. CASE ~(start - 1 + Len(flat) <= Len(p))
  <2>1. g[n] = Failed("Truncated")
    BY <1>6, <1>11 DEF Reading
  <2>2. read_body(p, at, v) = Failed("Truncated")
    BY <1>4, <1>7, <2>1 DEF Failed
  <2>3. Reading(p, start, Len(flat), FieldRead(v, b)) = Failed("Truncated")
    BY <1>11 DEF Reading
  <2> QED BY <2>2, <2>3 DEF flat
<1> QED BY <1>10, <1>11

(* A field is read where it stands.                                           *)
LEMMA FieldIsRead ==
  ASSUME NEW E, NEW v \in 1 .. 4, NEW b, IsField(b), FieldOver(E, b), OneSpacing(v, b),
         NEW p, Len(p) \in Nat, NEW at \in 1 .. Len(p) + 1, Stands(p, at, write(b, v))
  PROVE  read(p, at) = Reading(p, at, Len(write(b, v)), FieldRead(v, b))
<1> DEFINE flat == FlattenSeq(RaysOf(v, b.arena))
<1>1. PICK c \in 1 .. 2 : c = CellsWide(v) /\ HeaderWidth(v) = 9 + c
  BY DEF CellsWide, HeaderWidth
<1>2. FieldStands(p, at, v, b)
  BY FieldStandsInParts
<1>3. /\ at <= Len(p) => p[at] = MAGIC
      /\ at + 1 <= Len(p) => p[at + 1] = v
      /\ at + 10 + c <= Len(p) => HeaderFound(p, at + 2, v, b)
  BY <1>1, <1>2, HeaderIsFound
<1>4. Len(write(b, v)) = 11 + c + Len(flat) /\ Len(flat) \in Nat
  <2>1. FieldSpells(E, v, b)
    BY FieldIsSpelled
  <2>2. flat \in Seq(E)
    BY <2>1 DEF FieldSpells
  <2> QED BY <2>1, <2>2, <1>1 DEF FieldSpells
<1> HIDE DEF flat
<1>5. CASE ~(at + 10 + c <= Len(p))
  <2>1. Reading(p, at, Len(write(b, v)), FieldRead(v, b)) = Failed("Truncated")
    BY <1>4, <1>5 DEF Reading
  <2>2. CASE ~(at <= Len(p))
    <3>1. ~Holds(p, at, 1)
      BY <2>2 DEF Holds
    <3> QED BY <2>1, <3>1 DEF read
  <2>3. CASE at <= Len(p) /\ ~(at + 1 <= Len(p))
    <3>1. Holds(p, at, 1) /\ ~Holds(p, at, 2)
      BY <2>3 DEF Holds
    <3> QED BY <2>1, <2>3, <3>1, <1>3 DEF read
  <2>4. CASE at + 1 <= Len(p)
    <3>1. Holds(p, at, 1) /\ Holds(p, at, 2) /\ p[at] = MAGIC /\ p[at + 1] = v
      BY <2>4, <1>3 DEF Holds
    <3>2. ~Holds(p, at + 2, HeaderWidth(v))
      BY <1>1, <1>5 DEF Holds
    <3>3. ~(v = 0 \/ v > FORMAT_VERSION)
      BY DEF FORMAT_VERSION
    <3> QED BY <2>1, <3>1, <3>2, <3>3 DEF read
  <2> QED BY <2>2, <2>3, <2>4
<1>6. CASE at + 10 + c <= Len(p)
  <2>1. Holds(p, at, 1) /\ Holds(p, at, 2) /\ p[at] = MAGIC /\ p[at + 1] = v
    BY <1>3, <1>6 DEF Holds
  <2>2. Holds(p, at + 2, HeaderWidth(v))
    BY <1>1, <1>6 DEF Holds
  <2>3. ~(v = 0 \/ v > FORMAT_VERSION)
    BY DEF FORMAT_VERSION
  <2>4. read(p, at) = read_body(p, at + 2, v)
    BY <2>1, <2>2, <2>3 DEF read
  <2>5. PICK a \in Nat \ {0} : a = at + 2
    OBVIOUS
  <2>6. a + 9 + c = at + 11 + c /\ a + 9 + c \in 1 .. Len(p) + 1
    BY <2>5, <1>6
  <2>7. Stands(p, a + 9 + c, flat) /\ HeaderFound(p, a, v, b)
    BY <2>5, <2>6, <1>1, <1>2, <1>3, <1>6 DEF FieldStands, flat
  <2>8. read_body(p, a, v) = Reading(p, a + 9 + c, Len(flat), FieldRead(v, b))
    BY <2>6, <2>7, <1>1, BodyIsRead DEF flat
  <2>9. Reading(p, a + 9 + c, Len(flat), FieldRead(v, b)) = Reading(p, at, Len(write(b, v)), FieldRead(v, b))
    <3>1. (a + 9 + c) - 1 + Len(flat) = at - 1 + Len(write(b, v))
      BY <1>4, <2>6
    <3>2. (a + 9 + c) + Len(flat) = at + Len(write(b, v))
      BY <1>4, <2>6
    <3> QED BY <3>1, <3>2 DEF Reading
  <2> QED BY <2>4, <2>5, <2>8, <2>9
<1> QED BY <1>5, <1>6

-----------------------------------------------------------------------------
(* Three bundles. *)
\* A bundle in a file of three: whether there is one, and it.
BundleSpelled(v, b) == IF b = None THEN <<0>> ELSE <<1>> \o write(b, v)

BundleRead(v, b) == IF b = None THEN None ELSE FieldRead(v, b)

\* What may be written in a file of a version, with its values in E.
Writable(E, v, b) == IsField(b) /\ OneSpacing(v, b) /\ FieldOver(E, b)

\* A bundle, if there is one, may be written.
BundleOver(E, v, b) == Nat \subseteq E /\ (b = None \/ Writable(E, v, b))

(* A bundle is read where it stands, the missing one too.                     *)
LEMMA BundleIsRead ==
  ASSUME NEW E, NEW v \in 1 .. 4, NEW b, BundleOver(E, v, b),
         NEW p, Len(p) \in Nat, NEW at \in 1 .. Len(p) + 1, Stands(p, at, BundleSpelled(v, b))
  PROVE  read_bundle(p, at) = Reading(p, at, Len(BundleSpelled(v, b)), BundleRead(v, b))
<1>1. CASE b = None
  <2>1. BundleSpelled(v, b) = <<0>> /\ Len(<<0>>) = 1 /\ BundleRead(v, b) = None
    BY <1>1 DEF BundleSpelled, BundleRead
  <2>2. at <= Len(p) => p[at] = 0
    <3>1. at - 1 + 1 <= Len(p) => p[at - 1 + 1] = 0
      BY <2>1 DEF Stands
    <3> QED BY <3>1
  <2>3. CASE at <= Len(p)
    <3>1. Holds(p, at, 1) /\ p[at] = 0
      BY <2>2, <2>3 DEF Holds
    <3>2. read_bundle(p, at) = [next |-> at + 1, got |-> None]
      BY <3>1 DEF read_bundle
    <3>3. Reading(p, at, 1, None) = [next |-> at + 1, got |-> None]
      BY <2>3 DEF Reading
    <3> QED BY <2>1, <3>2, <3>3
  <2>4. CASE ~(at <= Len(p))
    <3>1. ~Holds(p, at, 1)
      BY <2>4 DEF Holds
    <3>2. read_bundle(p, at) = Failed("Truncated")
      BY <3>1 DEF read_bundle
    <3>3. Reading(p, at, 1, None) = Failed("Truncated")
      BY <2>4 DEF Reading
    <3> QED BY <2>1, <3>2, <3>3
  <2> QED BY <2>3, <2>4
<1>2. CASE b # None
  <2>1. IsField(b) /\ OneSpacing(v, b) /\ FieldOver(E, b)
    BY <1>2 DEF BundleOver, Writable
  <2>2. PICK s : s = write(b, v)
    OBVIOUS
  <2>3. s \in Seq(E) /\ Len(s) \in Nat
    <3>1. FieldSpells(E, v, b)
      BY <2>1, FieldIsSpelled
    <3>2. s \in Seq(E)
      BY <2>2, <3>1 DEF FieldSpells
    <3> QED BY <3>2
  <2>4. BundleSpelled(v, b) = <<1>> \o s /\ BundleRead(v, b) = FieldRead(v, b)
    BY <1>2, <2>2 DEF BundleSpelled, BundleRead
  <2>5. <<1>> \in Seq(E) /\ Len(<<1>>) = 1 /\ <<1>> \o s \in Seq(E) /\ Len(<<1>> \o s) = 1 + Len(s)
    <3>1. 1 \in E
      BY DEF BundleOver
    <3>2. \A x, y \in Seq(E) : x \o y \in Seq(E) /\ Len(x \o y) = Len(x) + Len(y)
      OBVIOUS
    <3>3. <<1>> \in Seq(E) /\ Len(<<1>>) = 1
      BY <3>1
    <3> QED BY <2>3, <3>2, <3>3
  <2>6. Stands(p, at, <<1>>) /\ Stands(p, at + 1, s)
    <3>1. at \in Nat \ {0} /\ Stands(p, at, <<1>> \o s)
      BY <2>4
    <3> QED BY <2>3, <2>5, <3>1, StandsBoth
  <2>7. at <= Len(p) => p[at] = 1
    <3>1. at - 1 + 1 <= Len(p) => p[at - 1 + 1] = 1
      BY <2>5, <2>6 DEF Stands
    <3> QED BY <3>1
  <2>8. CASE at <= Len(p)
    <3>1. Holds(p, at, 1) /\ p[at] = 1
      BY <2>7, <2>8 DEF Holds
    <3>2. read_bundle(p, at) = read(p, at + 1)
      BY <3>1 DEF read_bundle
    <3>3. PICK q \in 1 .. Len(p) + 1 : q = at + 1
      BY <2>8
    <3>4. read(p, q) = Reading(p, q, Len(s), FieldRead(v, b))
      BY <2>1, <2>2, <2>6, <3>3, FieldIsRead
    <3>5. Reading(p, q, Len(s), FieldRead(v, b)) = Reading(p, at, 1 + Len(s), FieldRead(v, b))
      <4>1. q - 1 + Len(s) = at - 1 + (1 + Len(s)) /\ q + Len(s) = at + (1 + Len(s))
        BY <2>3, <3>3
      <4> QED BY <4>1 DEF Reading
    <3> QED BY <2>4, <2>5, <3>2, <3>3, <3>4, <3>5
  <2>9. CASE ~(at <= Len(p))
    <3>1. ~Holds(p, at, 1)
      BY <2>9 DEF Holds
    <3>2. read_bundle(p, at) = Failed("Truncated")
      BY <3>1 DEF read_bundle
    <3>3. Reading(p, at, 1 + Len(s), FieldRead(v, b)) = Failed("Truncated")
      BY <2>3, <2>9 DEF Reading
    <3> QED BY <2>4, <2>5, <3>2, <3>3
  <2> QED BY <2>4, <2>5, <2>8, <2>9
<1> QED BY <1>1, <1>2

\* What three bundles are read back as, and how they are spelled.
TriRead(v, tri) == [provenance |-> tri.provenance, bundles |-> [a \in 1 .. 3 |-> BundleRead(v, tri.bundles[a])]]

BundlesSpelled(v, tri) == [a \in 1 .. 3 |-> BundleSpelled(v, tri.bundles[a])]

\* Three bundles that may be written.
TriOver(E, v, tri) ==
  /\ Nat \subseteq E /\ TDX_MAGIC \in E /\ tri.provenance \in E
  /\ \A a \in 1 .. 3 : tri.bundles[a] = None \/ Writable(E, v, tri.bundles[a])

\* g reads the three bundles one behind another.
InThree(g, p) ==
  g = [a \in 0 .. 3 |-> IF a = 0 THEN [next |-> 4, got |-> <<>>]
                        ELSE Then(g[a - 1], read_bundle(p, g[a - 1].next))]

(* Spelling a missing bundle or one that is there takes values of E.          *)
LEMMA BundlesTyped ==
  ASSUME NEW E, NEW v \in 1 .. 4, NEW tri, TriOver(E, v, tri)
  PROVE  BundlesSpelled(v, tri) \in [1 .. 3 -> Seq(E)]
<1>1. ASSUME NEW a \in 1 .. 3 PROVE BundleSpelled(v, tri.bundles[a]) \in Seq(E)
  <2>1. PICK b : b = tri.bundles[a]
    OBVIOUS
  <2>2. b = None \/ Writable(E, v, b)
    BY <2>1 DEF TriOver
  <2>3. 0 \in E /\ 1 \in E
    BY DEF TriOver
  <2>4. CASE b = None
    <3>1. <<0>> \in Seq(E)
      BY <2>3
    <3> QED BY <2>1, <2>4, <3>1 DEF BundleSpelled
  <2>5. CASE b # None
    <3>1. FieldSpells(E, v, b)
      BY <2>2, <2>5, FieldIsSpelled DEF Writable
    <3>2. PICK s : s = write(b, v)
      OBVIOUS
    <3>3. s \in Seq(E) /\ <<1>> \in Seq(E)
      BY <2>3, <3>1, <3>2 DEF FieldSpells
    <3>4. <<1>> \o s \in Seq(E)
      BY <3>3
    <3> QED BY <2>1, <2>5, <3>2, <3>4 DEF BundleSpelled
  <2> QED BY <2>4, <2>5
<1> QED BY <1>1 DEF BundlesSpelled

(* The three bundles are read one behind another.                             *)
LEMMA BundlesRead ==
  ASSUME NEW E, NEW v \in 1 .. 4, NEW tri, TriOver(E, v, tri),
         NEW p, Len(p) \in Nat, 4 <= Len(p) + 1,
         Stands(p, 4, FlattenSeq(BundlesSpelled(v, tri))),
         NEW g, g = CHOOSE r : InThree(r, p)
  PROVE  g[3] = Reading(p, 4, Len(FlattenSeq(BundlesSpelled(v, tri))), TriRead(v, tri).bundles)
<1> DEFINE f == BundlesSpelled(v, tri)
           got == TriRead(v, tri).bundles
           one == [k \in 1 .. 3 |-> [at \in 0 .. Len(p) + 1 |-> read_bundle(p, at)]]
<1>1. f \in [1 .. 3 -> Seq(E)] /\ 3 \in Nat
  BY BundlesTyped
<1>2. got = [a \in 1 .. 3 |-> BundleRead(v, tri.bundles[a])]
  BY DEF TriRead
<1>3. PICK h : Flattens(h, E, 3, f)
  <2> HIDE DEF f
  <2> QED BY <1>1, FlattenSteps
<1>4. FlattenSeq(f) = h[3] /\ h[3] \in Seq(E) /\ Len(h[0]) = 0
  <2>1. [k \in 1 .. 3 |-> f[k]] = f /\ 3 \in 0 .. 3
    BY <1>1
  <2>2. Grows(3, f, h)
    <3> HIDE DEF f
    <3> QED BY <1>1, <1>3, FlatPlaces
  <2> HIDE DEF f
  <2> QED BY <2>1, <2>2, <1>3 DEF Flattens, Grows
<1>5. ReadEach(3, f, p, got, one)
  <2>1. ASSUME NEW k \in 1 .. 3, NEW at \in 1 .. Len(p) + 1, Stands(p, at, f[k])
        PROVE  one[k][at] = Reading(p, at, Len(f[k]), got[k])
    <3>1. one[k][at] = read_bundle(p, at)
      OBVIOUS
    <3>2. PICK b : b = tri.bundles[k]
      OBVIOUS
    <3>3. f[k] = BundleSpelled(v, b) /\ got[k] = BundleRead(v, b)
      BY <3>2, <1>2 DEF BundlesSpelled
    <3>4. BundleOver(E, v, b)
      BY <3>2 DEF TriOver, BundleOver
    <3> HIDE DEF one, f, got
    <3>5. Stands(p, at, BundleSpelled(v, b))
      BY <2>1, <3>3
    <3>6. read_bundle(p, at) = Reading(p, at, Len(BundleSpelled(v, b)), BundleRead(v, b))
      BY <3>4, <3>5, BundleIsRead
    <3> QED BY <3>1, <3>3, <3>6
  <2> HIDE DEF one, f, got
  <2> QED BY <2>1 DEF ReadEach
<1> DEFINE own == [r \in 0 .. 3 |-> ReadUpTo(p, 4, h, got, r)]
<1> HIDE DEF f, got
<1>6. 4 \in 1 .. Len(p) + 1 /\ Stands(p, 4, h[3])
  BY <1>4 DEF f
<1>7. \A k \in 1 .. 3 : ReadOnce(p, 4, h, got, one, k)
  <2> HIDE DEF one
  <2> QED BY <1>1, <1>3, <1>5, <1>6, ReadsOneMore
<1>8. InThree(own, p)
  <2>1. ASSUME NEW r \in 0 .. 3
        PROVE  own[r] = IF r = 0 THEN [next |-> 4, got |-> <<>>]
                        ELSE Then(own[r - 1], read_bundle(p, own[r - 1].next))
    <3>1. CASE r = 0
      <4>1. own[r] = ReadUpTo(p, 4, h, got, 0)
        BY <3>1
      <4> HIDE DEF own
      <4> QED BY <3>1, <4>1, <1>4, <1>6, ReadUpToNone
    <3>2. CASE r # 0
      <4>1. r \in 1 .. 3 /\ r - 1 \in 0 .. 3
        BY <3>2
      <4>2. own[r] = ReadUpTo(p, 4, h, got, r) /\ own[r - 1] = ReadUpTo(p, 4, h, got, r - 1)
        BY <4>1
      <4> HIDE DEF own
      <4>3. own[r - 1].next \in 0 .. Len(p) + 1 /\ Then(own[r - 1], one[r][own[r - 1].next]) = own[r]
        <5> HIDE DEF one
        <5> QED BY <4>1, <4>2, <1>7 DEF ReadOnce
      <4>4. one[r][own[r - 1].next] = read_bundle(p, own[r - 1].next)
        BY <4>1, <4>3
      <4> HIDE DEF one
      <4> QED BY <3>2, <4>3, <4>4
    <3> QED BY <3>1, <3>2
  <2>2. own = [r \in 0 .. 3 |-> own[r]]
    OBVIOUS
  <2> HIDE DEF own, one
  <2> QED BY <2>1, <2>2 DEF InThree
<1>9. InThree(g, p)
  <2> HIDE DEF own
  <2> QED BY <1>8
<1>10. Turns(g, p, 4, one, 3)
  <2>0. \A r \in 0 .. 3 : g[r] = IF r = 0 THEN [next |-> 4, got |-> <<>>]
                                ELSE Then(g[r - 1], read_bundle(p, g[r - 1].next))
    BY <1>9 DEF InThree
  <2>1. g[0] = [next |-> 4, got |-> <<>>]
    BY <2>0
  <2>2. ASSUME NEW r \in 1 .. 3, g[r - 1].next \in 0 .. Len(p) + 1
        PROVE  g[r] = Then(g[r - 1], one[r][g[r - 1].next])
    <3>1. r \in 0 .. 3 /\ r # 0
      OBVIOUS
    <3>2. one[r][g[r - 1].next] = read_bundle(p, g[r - 1].next)
      BY <2>2
    <3> HIDE DEF one
    <3> QED BY <3>1, <3>2, <2>0
  <2> HIDE DEF one
  <2> QED BY <2>1, <2>2 DEF Turns
<1>11. g[3] = ReadUpTo(p, 4, h, got, 3)
  <2> HIDE DEF one
  <2>1. AllRead(g, p, 4, h, got, 3)
    BY <1>1, <1>3, <1>5, <1>6, <1>10, ReadInTurn
  <2> QED BY <2>1 DEF AllRead
<1>12. [j \in 1 .. 3 |-> got[j]] = got
  BY <1>2
<1>13. g[3] = Reading(p, 4, Len(h[3]), got)
  BY <1>11, <1>12 DEF ReadUpTo
<1> QED BY <1>4, <1>13 DEF f, got

\* Three bundles are spelled as a header and the bundles, all of it in E.
TriSpells(E, v, tri) ==
  /\ BundlesSpelled(v, tri) \in [1 .. 3 -> Seq(E)]
  /\ FlattenSeq(BundlesSpelled(v, tri)) \in Seq(E)
  /\ write_tri(tri, v)
       = <<TDX_MAGIC, TDX_FORMAT_VERSION, tri.provenance>> \o FlattenSeq(BundlesSpelled(v, tri))
  /\ write_tri(tri, v) \in Seq(E)
  /\ Len(write_tri(tri, v)) = 3 + Len(FlattenSeq(BundlesSpelled(v, tri)))

(* They are when their values are in E.                                       *)
LEMMA TriIsSpelled ==
  ASSUME NEW E, NEW v \in 1 .. 4, NEW tri, TriOver(E, v, tri)
  PROVE  TriSpells(E, v, tri)
<1> DEFINE f == BundlesSpelled(v, tri)
<1>1. f \in [1 .. 3 -> Seq(E)] /\ 3 \in Nat
  BY BundlesTyped
<1>2. FlattenSeq(f) \in Seq(E)
  <2> HIDE DEF f
  <2>1. PICK h : Flattens(h, E, 3, f)
    BY <1>1, FlattenSteps
  <2>2. [k \in 1 .. 3 |-> f[k]] = f /\ 3 \in 0 .. 3
    BY <1>1
  <2> QED BY <2>1, <2>2 DEF Flattens
<1>3. write_tri(tri, v) = <<TDX_MAGIC, TDX_FORMAT_VERSION, tri.provenance>> \o FlattenSeq(f)
  BY Zenon DEF write_tri, BundlesSpelled, BundleSpelled
<1>4. PICK flat : flat = FlattenSeq(f)
  OBVIOUS
<1>5. PICK head : head = <<TDX_MAGIC, TDX_FORMAT_VERSION, tri.provenance>>
  OBVIOUS
<1>6. head \in Seq(E) /\ Len(head) = 3
  <2>1. \A x, y, z \in E : <<x, y, z>> \in Seq(E)
    OBVIOUS
  <2>2. Len(head) = 3
    BY <1>5
  <2>3. TDX_FORMAT_VERSION \in E
    BY DEF TDX_FORMAT_VERSION, TriOver
  <2> QED BY <2>1, <2>2, <2>3, <1>5 DEF TriOver
<1>7. \A x, y \in Seq(E) : x \o y \in Seq(E) /\ Len(x \o y) = Len(x) + Len(y)
  OBVIOUS
<1>8. head \o flat \in Seq(E) /\ Len(head \o flat) = 3 + Len(flat)
  BY <1>2, <1>4, <1>6, <1>7
<1> QED BY <1>1, <1>2, <1>3, <1>4, <1>5, <1>8 DEF TriSpells

(* A file of three bundles is read as far as it goes.                         *)
LEMMA TriIsRead ==
  ASSUME NEW E, NEW v \in 1 .. 4, NEW tri, TriOver(E, v, tri),
         NEW p, Len(p) \in Nat, Stands(p, 1, write_tri(tri, v))
  PROVE  read_tri(p) = Reading(p, 1, Len(write_tri(tri, v)), TriRead(v, tri))
<1> DEFINE g == CHOOSE r : InThree(r, p)
<1>1. TriSpells(E, v, tri)
  BY TriIsSpelled
<1>2. PICK flat : flat = FlattenSeq(BundlesSpelled(v, tri))
  OBVIOUS
<1>3. PICK head : head = <<TDX_MAGIC, TDX_FORMAT_VERSION, tri.provenance>>
  OBVIOUS
<1>4. /\ flat \in Seq(E) /\ Len(flat) \in Nat
      /\ head \in Seq(E) /\ Len(head) = 3
      /\ write_tri(tri, v) = head \o flat /\ Len(write_tri(tri, v)) = 3 + Len(flat)
  <2>1. flat \in Seq(E) /\ write_tri(tri, v) = head \o flat /\ Len(write_tri(tri, v)) = 3 + Len(flat)
    BY <1>1, <1>2, <1>3 DEF TriSpells
  <2>2. head \in Seq(E) /\ Len(head) = 3
    <3>1. \A x, y, z \in E : <<x, y, z>> \in Seq(E)
      OBVIOUS
    <3>2. Len(head) = 3
      BY <1>3
    <3>3. TDX_FORMAT_VERSION \in E
      BY DEF TDX_FORMAT_VERSION, TriOver
    <3> QED BY <3>1, <3>2, <3>3, <1>3 DEF TriOver
  <2> QED BY <2>1, <2>2
<1>5. Stands(p, 1, head) /\ Stands(p, 4, flat)
  <2>1. Stands(p, 1, head) /\ Stands(p, 1 + Len(head), flat)
    <3>1. Stands(p, 1, head \o flat) /\ 1 \in Nat \ {0}
      BY <1>4
    <3> QED BY <3>1, <1>4, StandsBoth
  <2> QED BY <2>1, <1>4
<1>6. /\ 1 <= Len(p) => p[1] = TDX_MAGIC
      /\ 2 <= Len(p) => p[2] = TDX_FORMAT_VERSION
      /\ 3 <= Len(p) => p[3] = tri.provenance
  <2>1. /\ 1 - 1 + 1 <= Len(p) => p[1 - 1 + 1] = head[1]
        /\ 1 - 1 + 2 <= Len(p) => p[1 - 1 + 2] = head[2]
        /\ 1 - 1 + 3 <= Len(p) => p[1 - 1 + 3] = head[3]
    BY <1>4, <1>5 DEF Stands
  <2>2. head[1] = TDX_MAGIC /\ head[2] = TDX_FORMAT_VERSION /\ head[3] = tri.provenance
    BY <1>3
  <2> QED BY <2>1, <2>2
<1>7. read_tri(p)
        = IF ~Holds(p, 1, 1) THEN Failed("Truncated")
          ELSE IF p[1] # TDX_MAGIC THEN Failed("NotADexelFile")
          ELSE IF ~Holds(p, 1, 2) THEN Failed("Truncated")
          ELSE IF p[2] # TDX_FORMAT_VERSION THEN Failed("UnknownVersion")
          ELSE IF ~Holds(p, 1, 3) THEN Failed("Truncated")
          ELSE IF g[3].next = 0 THEN g[3]
          ELSE [next |-> g[3].next, got |-> [provenance |-> p[3], bundles |-> g[3].got]]
  BY Zenon DEF read_tri, InThree
<1> HIDE DEF g
<1>8. CASE ~(3 <= Len(p))
  <2>1. Reading(p, 1, Len(write_tri(tri, v)), TriRead(v, tri)) = Failed("Truncated")
    BY <1>4, <1>8 DEF Reading
  <2>2. ~Holds(p, 1, 3) /\ (Holds(p, 1, 1) => 1 <= Len(p)) /\ (Holds(p, 1, 2) => 2 <= Len(p))
    BY <1>8 DEF Holds
  <2> QED BY <2>1, <2>2, <1>6, <1>7
<1>9. CASE 3 <= Len(p)
  <2>1. Holds(p, 1, 1) /\ Holds(p, 1, 2) /\ Holds(p, 1, 3)
    BY <1>9 DEF Holds
  <2>2. p[1] = TDX_MAGIC /\ p[2] = TDX_FORMAT_VERSION /\ p[3] = tri.provenance
    BY <1>6, <1>9
  <2>3. g[3] = Reading(p, 4, Len(flat), TriRead(v, tri).bundles)
    <3>1. g = CHOOSE r : InThree(r, p)
      BY DEF g
    <3>2. 4 <= Len(p) + 1 /\ Stands(p, 4, FlattenSeq(BundlesSpelled(v, tri)))
      BY <1>2, <1>5, <1>9
    <3>3. g[3] = Reading(p, 4, Len(FlattenSeq(BundlesSpelled(v, tri))), TriRead(v, tri).bundles)
      BY <3>1, <3>2, BundlesRead
    <3> QED BY <3>3, <1>2
  <2>4. CASE 3 + Len(flat) <= Len(p)
    <3>1. g[3] = [next |-> 4 + Len(flat), got |-> TriRead(v, tri).bundles]
      BY <2>3, <2>4, <1>4 DEF Reading
    <3>2. g[3].next = 4 + Len(flat) /\ g[3].got = TriRead(v, tri).bundles /\ g[3].next # 0
      BY <3>1, <1>4
    <3>3. read_tri(p) = [next |-> 4 + Len(flat),
                         got |-> [provenance |-> tri.provenance, bundles |-> TriRead(v, tri).bundles]]
      BY <1>7, <2>1, <2>2, <3>2
    <3>4. TriRead(v, tri) = [provenance |-> tri.provenance, bundles |-> TriRead(v, tri).bundles]
      BY DEF TriRead
    <3>5. Reading(p, 1, 3 + Len(flat), TriRead(v, tri)) = [next |-> 4 + Len(flat), got |-> TriRead(v, tri)]
      BY <2>4, <1>4 DEF Reading
    <3> QED BY <3>3, <3>4, <3>5, <1>4
  <2>5. CASE ~(3 + Len(flat) <= Len(p))
    <3>1. g[3] = Failed("Truncated")
      BY <2>3, <2>5, <1>4 DEF Reading
    <3>2. g[3].next = 0
      BY <3>1 DEF Failed
    <3>3. read_tri(p) = Failed("Truncated")
      BY <1>7, <2>1, <2>2, <3>1, <3>2
    <3>4. Reading(p, 1, 3 + Len(flat), TriRead(v, tri)) = Failed("Truncated")
      BY <2>5, <1>4 DEF Reading
    <3> QED BY <3>3, <3>4, <1>4
  <2> QED BY <2>4, <2>5
<1> QED BY <1>8, <1>9

-----------------------------------------------------------------------------
(* What a file is read as. *)
\* Whether the file is of one bundle or of three.
ReadOf(p) ==
  IF detect(p) = "Tri" THEN read_tri(p) ELSE IF detect(p) = "Single" THEN read(p, 1) ELSE Failed("NotAField")

\* p is s with the end cut off, or with its magic or its version replaced by what
\* is no magic and no version.
Spoils(p, s) ==
  \/ \E k \in Nat : k < Len(s) /\ p = SubSeq(s, 1, k)
  \/ \E x : x \notin {MAGIC, TDX_MAGIC} /\ p = [s EXCEPT ![1] = x]
  \/ \E x \in Nat : x \notin 1 .. 4 /\ p = [s EXCEPT ![2] = x]

\* Every way of spoiling it is told.
Told(s) == \A p : Spoils(p, s) => ReadOf(p).next = 0

\* A file that is read as `what`, and spoilt as no field.
ReadsAs(s, what) == s # <<>> /\ ReadOf(s).next # 0 /\ ReadOf(s).got = what /\ Told(s)

\* The first values of a file.
IsHead(p, s, k) ==
  /\ Len(p) = k
  /\ Stands(p, 1, s)
  /\ k = 0 <=> p = <<>>

(* The head of a file stands in it; and what replaces a value.                *)
LEMMA SpoiltIsPrefix ==
  ASSUME NEW E, NEW s \in Seq(E), NEW k \in Nat, k < Len(s), NEW p, p = SubSeq(s, 1, k)
  PROVE  IsHead(p, s, k)
<1>1. p \in Seq(E) /\ Len(p) = k /\ \A i \in 1 .. k : p[i] = s[i]
  OBVIOUS
<1>2. ASSUME NEW i \in 1 .. Len(s), 1 - 1 + i <= Len(p) PROVE p[1 - 1 + i] = s[i]
  <2>1. 1 - 1 + i = i /\ i \in 1 .. k
    BY <1>1, <1>2
  <2> QED BY <2>1, <1>1
<1>3. k = 0 <=> p = <<>>
  BY <1>1
<1> QED BY <1>1, <1>2, <1>3 DEF Stands, IsHead

(* A value that is replaced is found, and the rest of the file stays.           *)
LEMMA SpoiltInPlace ==
  ASSUME NEW E, NEW s \in Seq(E), Len(s) >= 2, NEW x, NEW i \in 1 .. 2, NEW p, p = [s EXCEPT ![i] = x]
  PROVE  p # <<>> /\ Len(p) = Len(s) /\ p[i] = x /\ \A j \in 1 .. 2 : j # i => p[j] = s[j]
<1> DEFINE F == E \union {x}
           n == Len(s)
<1>1. s \in [1 .. n -> F] /\ n \in Nat /\ 1 \in 1 .. n /\ 2 \in 1 .. n
  OBVIOUS
<1>2. p \in [1 .. n -> F] /\ x \in F
  BY <1>1
<1>3. p \in Seq(F) /\ Len(p) = n
  <2> HIDE DEF F, n
  <2> QED BY <1>1, <1>2, IsSequence
<1>4. p[i] = x /\ \A j \in 1 .. 2 : j # i => p[j] = s[j]
  BY <1>1
<1>5. p # <<>>
  BY <1>1, <1>3
<1> QED BY <1>3, <1>4, <1>5

(* A file stands in itself.                                                   *)
LEMMA StandsInItself ==
  ASSUME NEW E, NEW s \in Seq(E)
  PROVE  Stands(s, 1, s) /\ Len(s) \in Nat
BY DEF Stands

(* A file of one bundle is read as it, and spoilt as none.                    *)
LEMMA FieldReadsAs ==
  ASSUME NEW E, NEW v \in 1 .. 4, NEW b, Writable(E, v, b)
  PROVE  ReadsAs(write(b, v), FieldRead(v, b))
<1>1. IsField(b) /\ OneSpacing(v, b) /\ FieldOver(E, b)
  BY DEF Writable
<1>2. PICK s : s = write(b, v)
  OBVIOUS
<1>3. s \in Seq(E) /\ Len(s) >= 11 /\ Len(s) \in Nat
  <2>1. FieldSpells(E, v, b)
    BY <1>1, FieldIsSpelled
  <2>2. PICK flat : flat = FlattenSeq(RaysOf(v, b.arena))
    OBVIOUS
  <2>3. s \in Seq(E) /\ Len(s) = 11 + CellsWide(v) + Len(flat) /\ flat \in Seq(E)
    BY <1>2, <2>1, <2>2 DEF FieldSpells
  <2>4. CellsWide(v) \in Nat
    BY DEF CellsWide
  <2> QED BY <2>3, <2>4
<1>4. s[1] = MAGIC /\ s[2] = v
  <2>1. Stands(s, 1, write(b, v)) /\ 1 \in 1 .. Len(s) + 1
    BY <1>2, <1>3, StandsInItself
  <2>2. FieldStands(s, 1, v, b)
    BY <1>1, <1>3, <2>1, FieldStandsInParts
  <2>3. 1 <= Len(s) => s[1] = MAGIC
    BY <1>1, <1>3, <2>1, <2>2, HeaderIsFound
  <2>4. 1 + 1 <= Len(s) => s[1 + 1] = v
    BY <1>1, <1>3, <2>1, <2>2, HeaderIsFound
  <2> QED BY <2>3, <2>4, <1>3
<1>5. ASSUME NEW p, Len(p) \in Nat, Stands(p, 1, s)
      PROVE  read(p, 1) = Reading(p, 1, Len(s), FieldRead(v, b))
  <2>1. Stands(p, 1, write(b, v)) /\ 1 \in 1 .. Len(p) + 1
    BY <1>2, <1>5
  <2> QED BY <1>1, <1>2, <1>5, <2>1, FieldIsRead
<1>6. s # <<>> /\ detect(s) = "Single"
  BY <1>3, <1>4 DEF detect
<1>7. ReadOf(s).next # 0 /\ ReadOf(s).got = FieldRead(v, b)
  <2>1. read(s, 1) = Reading(s, 1, Len(s), FieldRead(v, b))
    BY <1>3, <1>5, StandsInItself
  <2>2. read(s, 1) = [next |-> 1 + Len(s), got |-> FieldRead(v, b)]
    BY <2>1, <1>3 DEF Reading
  <2>3. ReadOf(s) = [next |-> 1 + Len(s), got |-> FieldRead(v, b)]
    BY <1>6, <2>2 DEF ReadOf
  <2> QED BY <2>3, <1>3
<1>8. ASSUME NEW p, Spoils(p, s) PROVE ReadOf(p).next = 0
  <2>1. ASSUME NEW k \in Nat, k < Len(s), p = SubSeq(s, 1, k) PROVE ReadOf(p).next = 0
    <3>1. Len(p) = k /\ Stands(p, 1, s) /\ (p = <<>> <=> k = 0)
      <4>1. IsHead(p, s, k)
        BY <1>3, <2>1, SpoiltIsPrefix
      <4> QED BY <4>1 DEF IsHead
    <3>2. read(p, 1) = Failed("Truncated")
      <4>1. read(p, 1) = Reading(p, 1, Len(s), FieldRead(v, b))
        BY <3>1, <1>5
      <4> QED BY <4>1, <3>1, <2>1, <1>3 DEF Reading
    <3>3. detect(p) # "Tri"
      <4>1. CASE k = 0
        BY <4>1, <3>1 DEF detect
      <4>2. CASE k # 0
        <5>1. 1 - 1 + 1 <= Len(p) => p[1 - 1 + 1] = s[1]
          BY <3>1, <1>3 DEF Stands
        <5>2. p[1] = MAGIC
          BY <5>1, <3>1, <4>2, <1>4
        <5> QED BY <5>2 DEF detect
      <4> QED BY <4>1, <4>2
    <3> QED BY <3>2, <3>3 DEF ReadOf, Failed
  <2>2. ASSUME NEW x, x \notin {MAGIC, TDX_MAGIC}, p = [s EXCEPT ![1] = x] PROVE ReadOf(p).next = 0
    <3>1. p # <<>> /\ p[1] = x
      <4>1. 1 \in 1 .. 2 /\ Len(s) >= 2
        BY <1>3
      <4> QED BY <4>1, <1>3, <2>2, SpoiltInPlace
    <3>2. detect(p) = "None"
      BY <3>1, <2>2 DEF detect
    <3> QED BY <3>2 DEF ReadOf, Failed
  <2>3. ASSUME NEW x \in Nat, x \notin 1 .. 4, p = [s EXCEPT ![2] = x] PROVE ReadOf(p).next = 0
    <3>1. p # <<>> /\ Len(p) = Len(s) /\ p[2] = x /\ p[1] = s[1]
      <4>1. 2 \in 1 .. 2 /\ 1 \in 1 .. 2 /\ 1 # 2 /\ Len(s) >= 2
        BY <1>3
      <4> QED BY <4>1, <1>3, <2>3, SpoiltInPlace
    <3>2. detect(p) = "Single"
      BY <3>1, <1>4 DEF detect
    <3>3. Holds(p, 1, 1) /\ Holds(p, 1, 2) /\ p[1 + 1] = x /\ p[1] = MAGIC
      BY <3>1, <1>3, <1>4 DEF Holds
    <3>4. x = 0 \/ x > FORMAT_VERSION
      BY <2>3 DEF FORMAT_VERSION
    <3>5. read(p, 1) = Failed("UnknownVersion")
      BY <3>3, <3>4 DEF read
    <3> QED BY <3>2, <3>5 DEF ReadOf, Failed
  <2> QED BY <1>8, <2>1, <2>2, <2>3 DEF Spoils
<1> QED BY <1>2, <1>6, <1>7, <1>8 DEF ReadsAs, Told

(* So is a file of three.                                                     *)
LEMMA TriReadsAs ==
  ASSUME NEW E, NEW v \in 1 .. 4, NEW tri, TriOver(E, v, tri)
  PROVE  ReadsAs(write_tri(tri, v), TriRead(v, tri))
<1>2. PICK s : s = write_tri(tri, v)
  OBVIOUS
<1>3. s \in Seq(E) /\ Len(s) >= 3 /\ Len(s) \in Nat /\ s[1] = TDX_MAGIC
  <2>1. TriSpells(E, v, tri)
    BY TriIsSpelled
  <2>2. PICK flat, head : /\ flat = FlattenSeq(BundlesSpelled(v, tri))
                          /\ head = <<TDX_MAGIC, TDX_FORMAT_VERSION, tri.provenance>>
    OBVIOUS
  <2>3. s \in Seq(E) /\ s = head \o flat /\ Len(s) = 3 + Len(flat) /\ flat \in Seq(E)
    BY <1>2, <2>1, <2>2 DEF TriSpells
  <2>4. head \in Seq(E) /\ Len(head) = 3 /\ head[1] = TDX_MAGIC
    <3>1. \A x, y, z \in E : <<x, y, z>> \in Seq(E)
      OBVIOUS
    <3>2. Len(head) = 3 /\ head[1] = TDX_MAGIC
      BY <2>2
    <3>3. TDX_FORMAT_VERSION \in E
      BY DEF TDX_FORMAT_VERSION, TriOver
    <3> QED BY <3>1, <3>2, <3>3, <2>2 DEF TriOver
  <2>5. (head \o flat)[1] = head[1]
    BY <2>3, <2>4
  <2> QED BY <2>3, <2>4, <2>5
<1>5. ASSUME NEW p, Len(p) \in Nat, Stands(p, 1, s)
      PROVE  read_tri(p) = Reading(p, 1, Len(s), TriRead(v, tri))
  <2>1. Stands(p, 1, write_tri(tri, v))
    BY <1>2, <1>5
  <2> QED BY <1>2, <1>5, <2>1, TriIsRead
<1>0. TDX_MAGIC # MAGIC
  BY DEF TDX_MAGIC, MAGIC
<1>6. s # <<>> /\ detect(s) = "Tri"
  BY <1>0, <1>3 DEF detect
<1>7. ReadOf(s).next # 0 /\ ReadOf(s).got = TriRead(v, tri)
  <2>1. read_tri(s) = Reading(s, 1, Len(s), TriRead(v, tri))
    BY <1>3, <1>5, StandsInItself
  <2>2. read_tri(s) = [next |-> 1 + Len(s), got |-> TriRead(v, tri)]
    BY <2>1, <1>3 DEF Reading
  <2>3. ReadOf(s) = [next |-> 1 + Len(s), got |-> TriRead(v, tri)]
    BY <1>6, <2>2 DEF ReadOf
  <2> QED BY <2>3, <1>3
<1>8. ASSUME NEW p, Spoils(p, s) PROVE ReadOf(p).next = 0
  <2>1. ASSUME NEW k \in Nat, k < Len(s), p = SubSeq(s, 1, k) PROVE ReadOf(p).next = 0
    <3>1. Len(p) = k /\ Stands(p, 1, s) /\ (p = <<>> <=> k = 0)
      <4>1. IsHead(p, s, k)
        BY <1>3, <2>1, SpoiltIsPrefix
      <4> QED BY <4>1 DEF IsHead
    <3>2. read_tri(p) = Failed("Truncated")
      <4>1. read_tri(p) = Reading(p, 1, Len(s), TriRead(v, tri))
        BY <3>1, <1>5
      <4> QED BY <4>1, <3>1, <2>1, <1>3 DEF Reading
    <3>3. detect(p) # "Single"
      <4>1. CASE k = 0
        BY <4>1, <3>1 DEF detect
      <4>2. CASE k # 0
        <5>1. 1 - 1 + 1 <= Len(p) => p[1 - 1 + 1] = s[1]
          BY <3>1, <1>3 DEF Stands
        <5>2. p[1] = TDX_MAGIC
          BY <5>1, <3>1, <4>2, <1>3
        <5> QED BY <5>2, <1>0 DEF detect
      <4> QED BY <4>1, <4>2
    <3> QED BY <3>2, <3>3 DEF ReadOf, Failed
  <2>2. ASSUME NEW x, x \notin {MAGIC, TDX_MAGIC}, p = [s EXCEPT ![1] = x] PROVE ReadOf(p).next = 0
    <3>1. p # <<>> /\ p[1] = x
      <4>1. 1 \in 1 .. 2 /\ Len(s) >= 2
        BY <1>3
      <4> QED BY <4>1, <1>3, <2>2, SpoiltInPlace
    <3>2. detect(p) = "None"
      BY <3>1, <2>2 DEF detect
    <3> QED BY <3>2 DEF ReadOf, Failed
  <2>3. ASSUME NEW x \in Nat, x \notin 1 .. 4, p = [s EXCEPT ![2] = x] PROVE ReadOf(p).next = 0
    <3>1. p # <<>> /\ Len(p) = Len(s) /\ p[2] = x /\ p[1] = s[1]
      <4>1. 2 \in 1 .. 2 /\ 1 \in 1 .. 2 /\ 1 # 2 /\ Len(s) >= 2
        BY <1>3
      <4> QED BY <4>1, <1>3, <2>3, SpoiltInPlace
    <3>2. detect(p) = "Tri"
      BY <3>1, <1>0, <1>3 DEF detect
    <3>3. Holds(p, 1, 1) /\ Holds(p, 1, 2) /\ p[1] = TDX_MAGIC
      BY <3>1, <1>3 DEF Holds
    <3>4. p[2] # TDX_FORMAT_VERSION
      BY <2>3, <3>1 DEF TDX_FORMAT_VERSION
    <3>5. read_tri(p) = Failed("UnknownVersion")
      BY <3>3, <3>4 DEF read_tri
    <3> QED BY <3>2, <3>5 DEF ReadOf, Failed
  <2> QED BY <1>8, <2>1, <2>2, <2>3 DEF Spoils
<1> QED BY <1>2, <1>6, <1>7, <1>8 DEF ReadsAs, Told

-----------------------------------------------------------------------------
(* The values of any field are in some set. *)
\* The values that a span list and a field have.
ValuesOfSpans(spans) == UNION {{spans[n].t0, spans[n].t1, spans[n].n0, spans[n].n1} : n \in 1 .. Len(spans)}

ValuesOf(b) ==
  {b.lattice.counts[1], b.lattice.counts[2], b.lattice.origin, b.lattice.spacing[1], b.lattice.spacing[2],
   b.lattice.length, b.lattice.extent, b.placement}
    \union UNION {ValuesOfSpans(b.arena[r]) : r \in 1 .. Len(b.arena)}

(* They hold the values of the field.                                          *)
LEMMA ValuesHold ==
  ASSUME NEW b, NEW E, Nat \subseteq E, MAGIC \in E, ValuesOf(b) \subseteq E
  PROVE  FieldOver(E, b)
<1>1. ASSUME NEW r \in 1 .. Len(b.arena) PROVE SpansOver(E, b.arena[r])
  <2>1. ValuesOfSpans(b.arena[r]) \subseteq E
    BY DEF ValuesOf
  <2>2. ASSUME NEW n \in 1 .. Len(b.arena[r])
        PROVE  /\ b.arena[r][n].t0 \in E /\ b.arena[r][n].t1 \in E
               /\ b.arena[r][n].n0 \in E /\ b.arena[r][n].n1 \in E
    BY <2>1 DEF ValuesOfSpans
  <2> QED BY <2>2 DEF SpansOver
<1>2. /\ b.lattice.counts[1] \in E /\ b.lattice.counts[2] \in E /\ b.lattice.origin \in E
      /\ b.lattice.spacing[1] \in E /\ b.lattice.spacing[2] \in E
      /\ b.lattice.length \in E /\ b.lattice.extent \in E /\ b.placement \in E
  BY DEF ValuesOf
<1> QED BY <1>1, <1>2 DEF FieldOver, ArenaOver

(* A field that a version holds is written and read back in it.               *)
LEMMA FieldFile ==
  ASSUME NEW v \in 1 .. 4, NEW b, IsField(b), OneSpacing(v, b)
  PROVE  ReadsAs(write(b, v), FieldRead(v, b))
<1> DEFINE E == Nat \union {MAGIC} \union ValuesOf(b)
<1>1. Nat \subseteq E /\ MAGIC \in E /\ ValuesOf(b) \subseteq E
  OBVIOUS
<1> HIDE DEF E
<1>2. FieldOver(E, b)
  BY <1>1, ValuesHold
<1>3. Writable(E, v, b)
  BY <1>2 DEF Writable
<1> QED BY <1>3, FieldReadsAs

\* What a version holds of the three.
Holdable(v, tri) == \A a \in 1 .. 3 : tri.bundles[a] = None \/ (IsField(tri.bundles[a]) /\ OneSpacing(v, tri.bundles[a]))

(* Three bundles that a version holds are written and read back in it.         *)
LEMMA TriFile ==
  ASSUME NEW v \in 1 .. 4, NEW tri, Holdable(v, tri)
  PROVE  ReadsAs(write_tri(tri, v), TriRead(v, tri))
<1> DEFINE E == Nat \union {MAGIC, TDX_MAGIC, tri.provenance} \union UNION {ValuesOf(tri.bundles[a]) : a \in 1 .. 3}
<1>1. Nat \subseteq E /\ MAGIC \in E /\ TDX_MAGIC \in E /\ tri.provenance \in E
  OBVIOUS
<1>2. \A a \in 1 .. 3 : ValuesOf(tri.bundles[a]) \subseteq E
  OBVIOUS
<1> HIDE DEF E
<1>3. ASSUME NEW a \in 1 .. 3 PROVE tri.bundles[a] = None \/ Writable(E, v, tri.bundles[a])
  <2>1. FieldOver(E, tri.bundles[a])
    BY <1>1, <1>2, ValuesHold
  <2> QED BY <2>1 DEF Holdable, Writable
<1>4. TriOver(E, v, tri)
  BY <1>1, <1>3 DEF TriOver
<1> QED BY <1>4, TriReadsAs

(* What a version keeps of a field: all of it, or all but the normals.        *)
LEMMA KeepsField ==
  ASSUME NEW v \in 1 .. 4, NEW b, IsField(b)
  PROVE  /\ v >= 3 => FieldRead(v, b) = b
         /\ v < 3 /\ b # None => FieldRead(v, b) = Blank(b)
<1>1. /\ b = [lattice |-> b.lattice, arena |-> b.arena, placement |-> b.placement]
      /\ b.arena = [r \in 1 .. Len(b.arena) |-> b.arena[r]]
  BY DEF IsField
<1>2. ASSUME v >= 3 PROVE FieldRead(v, b) = b
  <2>1. ArenaRead(v, b.arena) = [r \in 1 .. Len(b.arena) |-> b.arena[r]]
    BY <1>2 DEF ArenaRead, AsRead
  <2>2. ArenaRead(v, b.arena) = b.arena
    BY <2>1, <1>1
  <2> QED BY <2>2, <1>1 DEF FieldRead
<1>3. ASSUME v < 3, b # None PROVE FieldRead(v, b) = Blank(b)
  <2>1. DOMAIN b.arena = 1 .. Len(b.arena)
    BY <1>1
  <2>2. ArenaRead(v, b.arena) = [r \in DOMAIN b.arena |-> WithoutNormals(b.arena[r])]
    <3>1. ~(v >= 3)
      BY <1>3
    <3> QED BY <2>1, <3>1 DEF ArenaRead, AsRead
  <2>3. PICK blank : blank = [r \in DOMAIN b.arena |-> WithoutNormals(b.arena[r])]
    OBVIOUS
  <2>4. Blank(b) = [b EXCEPT !.arena = blank]
    BY <1>3, <2>3 DEF Blank
  <2>5. [b EXCEPT !.arena = blank] = [lattice |-> b.lattice, arena |-> blank, placement |-> b.placement]
    BY <1>1
  <2> QED BY <2>2, <2>3, <2>4, <2>5 DEF FieldRead
<1> QED BY <1>2, <1>3

\* A field with each of its bundles blank.
Blanked(tri) == [tri EXCEPT !.bundles = [a \in 1 .. 3 |-> Blank(@[a])]]

(* And of three bundles.                                                      *)
LEMMA KeepsTri ==
  ASSUME NEW v \in 1 .. 4, NEW tri, IsTri(tri)
  PROVE  /\ v >= 3 => TriRead(v, tri) = tri
         /\ v < 3 => TriRead(v, tri) = Blanked(tri)
<1>1. /\ tri = [provenance |-> tri.provenance, bundles |-> [a \in 1 .. 3 |-> tri.bundles[a]]]
      /\ \A a \in 1 .. 3 : tri.bundles[a] = None \/ IsField(tri.bundles[a])
  BY DEF IsTri
<1>2. ASSUME v >= 3 PROVE TriRead(v, tri) = tri
  <2>1. ASSUME NEW a \in 1 .. 3 PROVE BundleRead(v, tri.bundles[a]) = tri.bundles[a]
    BY <1>1, <1>2, KeepsField DEF BundleRead
  <2>2. [a \in 1 .. 3 |-> BundleRead(v, tri.bundles[a])] = [a \in 1 .. 3 |-> tri.bundles[a]]
    BY <2>1
  <2> QED BY <2>2, <1>1 DEF TriRead
<1>3. ASSUME v < 3 PROVE TriRead(v, tri) = Blanked(tri)
  <2>1. ASSUME NEW a \in 1 .. 3 PROVE BundleRead(v, tri.bundles[a]) = Blank(tri.bundles[a])
    <3>1. CASE tri.bundles[a] = None
      BY <3>1 DEF BundleRead, Blank
    <3>2. CASE tri.bundles[a] # None
      BY <1>1, <1>3, <3>2, KeepsField DEF BundleRead
    <3> QED BY <3>1, <3>2
  <2>2. PICK blank : blank = [a \in 1 .. 3 |-> Blank(tri.bundles[a])]
    OBVIOUS
  <2>3. Blanked(tri) = [tri EXCEPT !.bundles = blank]
    BY <2>2 DEF Blanked
  <2>4. [tri EXCEPT !.bundles = blank] = [provenance |-> tri.provenance, bundles |-> blank]
    BY <1>1
  <2>5. [a \in 1 .. 3 |-> BundleRead(v, tri.bundles[a])] = blank
    BY <2>1, <2>2
  <2> QED BY <2>3, <2>4, <2>5 DEF TriRead
<1> QED BY <1>2, <1>3

(* The three bundles a version can hold are read as they were written.        *)
LEMMA TriReadsBack ==
  ASSUME NEW v \in 1 .. 4, NEW tri, IsTri(tri),
         v < 4 => \A a \in 1 .. 3 : tri.bundles[a] # None =>
                    tri.bundles[a].lattice.spacing[1] = tri.bundles[a].lattice.spacing[2]
  PROVE  ReadsAs(write_tri(tri, v), IF v >= 3 THEN tri ELSE Blanked(tri))
<1>1. Holdable(v, tri)
  BY DEF Holdable, OneSpacing, IsTri
<1>2. ReadsAs(write_tri(tri, v), TriRead(v, tri))
  BY <1>1, TriFile
<1>3. TriRead(v, tri) = IF v >= 3 THEN tri ELSE Blanked(tri)
  <2>1. v >= 3 \/ v < 3
    OBVIOUS
  <2> QED BY <2>1, KeepsTri
<1> QED BY <1>2, <1>3

(* This release holds any field.                                              *)
LEMMA FieldReadsBack ==
  ASSUME NEW b, IsField(b)
  PROVE  ReadsAs(write(b, FORMAT_VERSION), b)
<1>1. FORMAT_VERSION \in 1 .. 4 /\ FORMAT_VERSION >= 3 /\ ~(FORMAT_VERSION < 4)
  BY DEF FORMAT_VERSION
<1>2. OneSpacing(FORMAT_VERSION, b)
  BY <1>1 DEF OneSpacing
<1>3. ReadsAs(write(b, FORMAT_VERSION), FieldRead(FORMAT_VERSION, b))
  BY <1>1, <1>2, FieldFile
<1>4. FieldRead(FORMAT_VERSION, b) = b
  BY <1>1, KeepsField
<1> QED BY <1>3, <1>4

\* Spans with the values in E.
SpansIn(E) == [t0 : E, t1 : E, n0 : E, n1 : E]

(* A list of them is a list of spans.                                         *)
LEMMA SpansAreList ==
  ASSUME NEW E, NEW spans \in Seq(SpansIn(E))
  PROVE  IsSpanList(spans)
<1>1. Len(spans) \in Nat /\ spans = [n \in 1 .. Len(spans) |-> spans[n]]
  OBVIOUS
<1>2. ASSUME NEW n \in 1 .. Len(spans) PROVE IsSpan(spans[n])
  <2>1. spans[n] \in SpansIn(E)
    OBVIOUS
  <2> QED BY <2>1 DEF SpansIn, IsSpan
<1> QED BY <1>1, <1>2 DEF IsSpanList

(* A span joined to a list, or put behind it.                                 *)
LEMMA MergeTyped ==
  ASSUME NEW E, NEW spans \in Seq(SpansIn(E)), NEW span \in SpansIn(E)
  PROVE  Merge(spans, span) \in Seq(SpansIn(E))
<1> DEFINE R == SpansIn(E)
           n == Len(spans)
           m == [spans EXCEPT ![n].t1 = span.t1, ![n].n1 = span.n1]
<1>1. Append(spans, span) \in Seq(R)
  <2> HIDE DEF R
  <2> QED BY DEF R
<1>2. ASSUME spans # <<>> PROVE m \in Seq(R)
  <2>1. n \in Nat /\ n >= 1 /\ n \in 1 .. n /\ spans \in [1 .. n -> R]
    <3> HIDE DEF R
    <3> QED BY <1>2 DEF R
  <2>2. PICK old : old = spans[n]
    OBVIOUS
  <2>3. old \in R
    BY <2>1, <2>2
  <2>4. PICK new : new = [old EXCEPT !.t1 = span.t1, !.n1 = span.n1]
    OBVIOUS
  <2>7. new \in R
    BY <2>3, <2>4 DEF SpansIn
  <2> HIDE DEF R
  <2>9. m = [spans EXCEPT ![n] = new]
    BY <2>1, <2>2, <2>4
  <2>10. [spans EXCEPT ![n] = new] \in [1 .. n -> R]
    BY <2>1, <2>7
  <2> QED BY <2>1, <2>9, <2>10, IsSequence
<1> HIDE DEF R
<1>3. CASE spans # <<>> /\ AtOrBefore(span.t0, Last(spans).t1)
  <2>1. m \in Seq(R) /\ spans \in Seq(R)
    BY <1>2, <1>3 DEF R
  <2>2. Merge(spans, span) = IF Precedes(Last(spans).t1, span.t1) THEN m ELSE spans
    BY <1>3, Zenon DEF Merge
  <2> HIDE DEF m
  <2> QED BY <2>1, <2>2 DEF R
<1>4. CASE ~(spans # <<>> /\ AtOrBefore(span.t0, Last(spans).t1))
  <2>1. Merge(spans, span) = Append(spans, span)
    BY <1>4, Zenon DEF Merge
  <2> QED BY <2>1, <1>1 DEF R
<1> QED BY <1>3, <1>4

\* The spans merged so far.
InMerging(g, pairs) ==
  g = [n \in 0 .. Len(pairs) |-> IF n = 0 THEN <<>> ELSE Merge(g[n - 1], pairs[n])]

(* What a ray's crossings become is a list of spans.                          *)
LEMMA SpansOfTyped ==
  ASSUME NEW m, NEW hits, Len(hits) \in Nat
  PROVE  IsSpanList(SpansOf(m, hits))
<1> DEFINE pairs == Pairs(m, hits)
           k == Len(hits) \div 2
           E == UNION {{pairs[n].t0, pairs[n].t1, pairs[n].n0, pairs[n].n1} : n \in 1 .. k}
           R == SpansIn(E)
           S == Seq(R)
           g == CHOOSE r : InMerging(r, pairs)
           T == [n \in 1 .. k |-> [y \in S |-> Merge(y, pairs[n])]]
<1>1. k \in Nat
  OBVIOUS
<1>2. \A n \in 1 .. k : pairs[n] \in R
  <2>1. ASSUME NEW n \in 1 .. k PROVE pairs[n] \in R
    <3>1. pairs[n] = with_normals(m, hits[2 * n - 1], hits[2 * n])
      BY DEF Pairs
    <3>2. pairs[n] = [t0 |-> pairs[n].t0, t1 |-> pairs[n].t1, n0 |-> pairs[n].n0, n1 |-> pairs[n].n1]
      <4> HIDE DEF pairs
      <4> QED BY <3>1 DEF with_normals
    <3>3. {pairs[n].t0, pairs[n].t1, pairs[n].n0, pairs[n].n1} \subseteq E
      <4> HIDE DEF pairs
      <4> QED OBVIOUS
    <3> HIDE DEF E, pairs
    <3> QED BY <3>2, <3>3 DEF SpansIn
  <2> QED BY <2>1
<1>3. pairs \in Seq(R) /\ Len(pairs) = k
  <2>1. pairs = [n \in 1 .. k |-> pairs[n]]
    BY DEF Pairs
  <2> HIDE DEF pairs, k, R
  <2>2. pairs \in [1 .. k -> R]
    BY <1>2, <2>1
  <2> QED BY <1>1, <2>2, IsSequence
<1>4. SpansOf(m, hits) = g[Len(pairs)]
  BY Zenon DEF SpansOf, InMerging
<1> HIDE DEF E, pairs, k
<1>5. \A y \in S : \A n \in 1 .. k : Merge(y, pairs[n]) \in S
  BY <1>2, MergeTyped
<1>6. <<>> \in S
  <2> HIDE DEF R
  <2> QED OBVIOUS
<1> HIDE DEF R, S
<1>7. \A n \in 1 .. k : \A y \in S : T[n][y] = Merge(y, pairs[n]) /\ T[n][y] \in S
  BY <1>5
<1>8. PICK h : Iterates(h, k, <<>>, T)
  <2> HIDE DEF T
  <2> QED BY <1>1, <1>6, <1>7, IterationExists
<1> HIDE DEF T
<1>9. h = [n \in 0 .. k |-> IF n = 0 THEN <<>> ELSE T[n][h[n - 1]]]
  BY <1>8 DEF Iterates
<1>10. \A n \in 0 .. k : h[n] \in S
  <2> DEFINE G == {n \in 0 .. k : h[n] \in S}
  <2>1. 0 \in G
    BY <1>1, <1>6, <1>9
  <2>2. ASSUME NEW n \in 0 .. k - 1, n \in G PROVE n + 1 \in G
    <3>1. n + 1 \in 1 .. k /\ (n + 1) - 1 = n /\ n + 1 \in 0 .. k /\ n + 1 # 0
      BY <1>1
    <3>2. h[n + 1] = T[n + 1][h[n]]
      BY <1>9, <3>1
    <3> QED BY <1>7, <2>2, <3>1, <3>2
  <2> HIDE DEF G
  <2>3. \A n \in 0 .. k : n \in G
    BY <1>1, <2>1, <2>2, Induction
  <2> QED BY <2>3 DEF G
<1>11. InMerging(h, pairs)
  <2>1. ASSUME NEW n \in 1 .. k PROVE T[n][h[n - 1]] = Merge(h[n - 1], pairs[n])
    <3>1. n - 1 \in 0 .. k
      BY <1>1
    <3> QED BY <3>1, <1>7, <1>10
  <2>2. \A n \in 0 .. k : n # 0 => n \in 1 .. k
    BY <1>1
  <2> QED BY <1>3, <1>9, <2>1, <2>2 DEF InMerging
<1>12. InMerging(g, pairs)
  BY <1>11
<1> HIDE DEF g
<1>13. \A n \in 0 .. k : g[n] \in S
  <2> DEFINE G == {n \in 0 .. k : g[n] \in S}
  <2>0. g = [n \in 0 .. k |-> IF n = 0 THEN <<>> ELSE Merge(g[n - 1], pairs[n])]
    BY <1>3, <1>12 DEF InMerging
  <2>1. 0 \in G
    BY <1>1, <1>6, <2>0
  <2>2. ASSUME NEW n \in 0 .. k - 1, n \in G PROVE n + 1 \in G
    <3>1. n + 1 \in 1 .. k /\ (n + 1) - 1 = n /\ n + 1 \in 0 .. k /\ n + 1 # 0
      BY <1>1
    <3>2. g[n + 1] = Merge(g[n], pairs[n + 1])
      BY <2>0, <3>1
    <3> QED BY <1>5, <2>2, <3>1, <3>2
  <2> HIDE DEF G
  <2>3. \A n \in 0 .. k : n \in G
    BY <1>1, <2>1, <2>2, Induction
  <2> QED BY <2>3 DEF G
<1>14. g[k] \in S
  BY <1>1, <1>13
<1> QED BY <1>3, <1>4, <1>14, SpansAreList DEF S, R

(* So are the crossings of a mesh of finitely many triangles.                 *)
LEMMA CastTyped ==
  ASSUME NEW m, Len(m.triangles) \in Nat, NEW ray
  PROVE  Len(intersect_ray_all(m, ray).hits) \in Nat
<1> DEFINE test == [t \in Reached(m, ray) |-> classify(ray, corners(m, t), m.triangles[t])]
           hit == {t \in Triangles(m) : t \in DOMAIN test /\ test[t] \in {"Entering", "Leaving"}}
           at == [t \in hit |-> plane_parameter(ray, corners(m, t))]
           order == Listed(hit, LAMBDA a, b : \/ Precedes(at[a], at[b])
                                              \/ ~Precedes(at[b], at[a]) /\ a < b)
           hits == [n \in DOMAIN order |-> [t |-> at[order[n]], triangle |-> order[n],
                                            entering |-> test[order[n]] = "Entering"]]
<1>1. intersect_ray_all(m, ray).hits = hits
  BY DEF intersect_ray_all
<1>2. Cardinality(hit) \in Nat
  <2>1. IsFiniteSet(1 .. Len(m.triangles))
    BY FS_Interval
  <2>2. hit \subseteq 1 .. Len(m.triangles)
    BY DEF Triangles
  <2> HIDE DEF hit
  <2> QED BY <2>1, <2>2, FS_Subset, FS_CardinalityType
<1>3. DOMAIN order = 1 .. Cardinality(hit)
  <2> HIDE DEF hit, at
  <2> QED BY DEF Listed
<1>4. PICK c \in Nat : c = Cardinality(hit)
  BY <1>2
<1> HIDE DEF order
<1>5. hits = [n \in 1 .. c |-> hits[n]]
  BY <1>3, <1>4
<1> HIDE DEF hits
<1>6. Len(hits) = c
  <2> DEFINE F == {hits[n] : n \in 1 .. c}
  <2>1. hits \in [1 .. c -> F]
    BY <1>5
  <2> HIDE DEF F
  <2> QED BY <2>1, IsSequence
<1> QED BY <1>1, <1>6

-----------------------------------------------------------------------------
(* The build that comes to the file. *)
(* A list with something put behind it.                                       *)
LEMMA PutBehind ==
  ASSUME NEW n \in Nat, NEW list, list = [a \in 1 .. n |-> list[a]], NEW x
  PROVE  /\ Len(list) = n
         /\ Append(list, x) = [a \in 1 .. n + 1 |-> IF a = n + 1 THEN x ELSE list[a]]
<1> DEFINE E == {list[a] : a \in 1 .. n} \union {x}
<1>1. list \in [1 .. n -> E] /\ x \in E
  OBVIOUS
<1> HIDE DEF E
<1>2. list \in Seq(E) /\ Len(list) = n
  BY <1>1, IsSequence
<1> QED BY <1>1, <1>2

\* A bundle, and the lattice its rays are on.
IsBundle(b) == b = [lattice |-> b.lattice, arena |-> b.arena, placement |-> b.placement]

\* A lattice as anisotropic makes it.
IsLattice(l) ==
  /\ l = [axis |-> l.axis, origin |-> l.origin, spacing |-> <<l.spacing[1], l.spacing[2]>>,
          counts |-> <<l.counts[1], l.counts[2]>>, extent |-> l.extent, length |-> l.length]
  /\ l.axis \in 1 .. 3

(* The lattice of a build is one.                                             *)
LEMMA AnisotropicTyped ==
  ASSUME NEW bounds, NEW steps, NEW a \in 1 .. 3
  PROVE  IsLattice(anisotropic(bounds, steps, a))
<1> DEFINE l == anisotropic(bounds, steps, a)
           c == cyclic(a)
           extent == [k \in 1 .. 3 |-> bounds.max[k] - bounds.min[k]]
           count == [n \in 1 .. 2 |-> Larger(1, (extent[c[n]] + steps[c[n]] - 1) \div steps[c[n]])]
<1>2. l = [axis |-> a, origin |-> bounds.min, spacing |-> <<steps[c[1]], steps[c[2]]>>,
           counts |-> count, extent |-> <<extent[c[1]], extent[c[2]]>>, length |-> extent[c[3]]]
  BY Zenon DEF anisotropic
<1>3. count = [n \in 1 .. 2 |-> count[n]]
  OBVIOUS
<1> HIDE DEF l, c, extent, count
<1>4. count = <<count[1], count[2]>>
  BY <1>3
<1>5. l.axis = a /\ l.origin = bounds.min /\ l.spacing = <<steps[c[1]], steps[c[2]]>> /\ l.counts = <<count[1], count[2]>>
  BY <1>2, <1>4
<1>6. l.spacing = <<l.spacing[1], l.spacing[2]>> /\ l.counts = <<l.counts[1], l.counts[2]>>
  BY <1>5
<1>7. l = [axis |-> l.axis, origin |-> l.origin, spacing |-> l.spacing,
           counts |-> l.counts, extent |-> l.extent, length |-> l.length]
  BY <1>2
<1> QED BY <1>5, <1>6, <1>7 DEF IsLattice, l

(* What a build drops and moves leaves finitely many triangles.               *)
LEMMA PlacedTyped ==
  ASSUME NEW soup, NEW w, NEW at, soup.triangles \in Seq([1 .. 3 -> DOMAIN soup.vertices])
  PROVE  Len(place(drop_degenerate(weld(soup, w)), at).triangles) \in Nat
<1> DEFINE m == weld(soup, w)
           good == {t \in Triangles(m) : ~Degenerate(m, t)}
           kept == Listed(good, LAMBDA a, b : a < b)
           left == drop_degenerate(m)
           placed == place(left, at)
<1>1. PICK n, V, T : n \in Nat /\ m = [vertices |-> V, triangles |-> [t \in 1 .. n |-> T[t]]]
  <2>1. m = Welds(soup, w) /\ Len(soup.triangles) \in Nat
    BY WeldUnfolds
  <2> HIDE DEF m
  <2> DEFINE V == (Welds(soup, w)).vertices
             T == (Welds(soup, w)).triangles
  <2>2. Welds(soup, w) = [vertices |-> V, triangles |-> [t \in 1 .. Len(soup.triangles) |-> T[t]]]
    BY DEF Welds
  <2> HIDE DEF V, T
  <2> QED BY <2>1, <2>2
<1> HIDE DEF m
<1>2. Triangles(m) = 1 .. n
  <2> DEFINE E == {T[t] : t \in 1 .. n}
  <2>1. m.triangles \in [1 .. n -> E]
    BY <1>1
  <2> HIDE DEF E
  <2> QED BY <2>1, IsSequence DEF Triangles
<1>3. PICK k \in Nat : k = Cardinality(good)
  <2>1. good \subseteq Triangles(m)
    OBVIOUS
  <2> HIDE DEF good
  <2>2. IsFiniteSet(Triangles(m))
    <3>1. IsFiniteSet(1 .. n)
      BY <1>1, FS_Interval
    <3> QED BY <3>1, <1>2
  <2> QED BY <2>1, <2>2, FS_Subset, FS_CardinalityType
<1>4. DOMAIN kept = 1 .. k
  <2> HIDE DEF good
  <2> QED BY <1>3 DEF Listed
<1>5. left = [vertices |-> V, triangles |-> [i \in 1 .. k |-> m.triangles[kept[i]]]]
  <2>1. left = [m EXCEPT !.triangles = [i \in DOMAIN kept |-> m.triangles[kept[i]]]]
    BY Zenon DEF drop_degenerate
  <2> HIDE DEF kept, left
  <2> QED BY <1>1, <1>4, <2>1
<1> HIDE DEF kept, left
<1>6. Triangles(left) = 1 .. k /\ left.triangles = [i \in 1 .. k |-> left.triangles[i]]
  <2>1. left.triangles = [i \in 1 .. k |-> left.triangles[i]]
    BY <1>5
  <2> DEFINE E == {left.triangles[i] : i \in 1 .. k}
  <2>2. left.triangles \in [1 .. k -> E]
    BY <2>1
  <2> HIDE DEF E
  <2> QED BY <2>1, <2>2, IsSequence DEF Triangles
<1>7. placed.triangles = [i \in 1 .. k |-> placed.triangles[i]]
  BY <1>6 DEF place
<1> DEFINE F == {placed.triangles[i] : i \in 1 .. k}
<1> HIDE DEF placed
<1>8. placed.triangles \in [1 .. k -> F]
  BY <1>7
<1> HIDE DEF F
<1>9. Len(placed.triangles) = k
  BY <1>8, IsSequence
<1> QED BY <1>9 DEF placed, left, m

-----------------------------------------------------------------------------
(* What the cuts leave. A list that ends has finitely many bounds, so what a    *)
(* tool sweeps of a ray ends too, and what is left of a field is one.            *)

(* Finitely many finite sets have finitely many elements together.           *)
LEMMA FiniteTogether ==
  ASSUME NEW S, IsFiniteSet(S), NEW f, \A x \in S : IsFiniteSet(f[x])
  PROVE  IsFiniteSet(UNION {f[x] : x \in S})
<1> DEFINE T == {f[x] : x \in S}
           g == [x \in S |-> f[x]]
<1>1. g \in Surjection(S, T)
  BY DEF Surjection
<1>2. IsFiniteSet(T)
  BY <1>1, FS_Surjection
<1>3. \A U \in T : IsFiniteSet(U)
  OBVIOUS
<1>4. IsFiniteSet(UNION T)
  <2> HIDE DEF T
  <2> QED BY <1>2, <1>3, FS_UNION
<1> QED BY <1>4

\* A list, of whatever, that ends.
Ends(list) == IsFiniteSet(DOMAIN list)

(* Its bounds are finitely many.                                             *)
LEMMA BoundsAreFinite ==
  ASSUME NEW spans, Ends(spans)
  PROVE  IsFiniteSet(Bounds2(spans))
<1> DEFINE f == [n \in DOMAIN spans |-> {spans[n].t0, spans[n].t1}]
<1>1. ASSUME NEW n \in DOMAIN spans PROVE IsFiniteSet(f[n])
  <2>1. f[n] = {spans[n].t0} \union {spans[n].t1}
    OBVIOUS
  <2>2. IsFiniteSet({spans[n].t0}) /\ IsFiniteSet({spans[n].t1})
    BY FS_Singleton
  <2>3. IsFiniteSet({spans[n].t0} \union {spans[n].t1})
    BY <2>2, FS_Union
  <2> QED BY <2>1, <2>3
<1>2. IsFiniteSet(UNION {f[n] : n \in DOMAIN spans})
  <2> HIDE DEF f
  <2> QED BY <1>1, FiniteTogether DEF Ends
<1>3. Bounds2(spans) = UNION {f[n] : n \in DOMAIN spans}
  BY DEF Bounds2
<1> QED BY <1>2, <1>3

(* What starts among finitely many bounds is counted.                        *)
LEMMA StartsAreFinite ==
  ASSUME NEW S, IsFiniteSet(S), NEW held, held \subseteq Steps(S)
  PROVE  Cardinality({p[1] : p \in held} \ {p[2] : p \in held}) \in Nat
<1> DEFINE starts == {p[1] : p \in held} \ {p[2] : p \in held}
<1>1. starts \in SUBSET S
  BY DEF Steps
<1> HIDE DEF starts
<1>2. IsFiniteSet(starts)
  BY <1>1, FS_Subset
<1>3. Cardinality(starts) \in Nat
  BY <1>2, FS_CardinalityType
<1> QED BY <1>3 DEF starts

(* What is listed by its places is a list of spans.                          *)
LEMMA ListsSpans ==
  ASSUME NEW k \in Nat, NEW t0, NEW t1, NEW n0, NEW n1, NEW list,
         list = [n \in 1 .. k |-> [t0 |-> t0[n], t1 |-> t1[n], n0 |-> n0[n], n1 |-> n1[n]]]
  PROVE  IsSpanList(list)
<1>1. \A n \in 1 .. k : list[n] = [t0 |-> t0[n], t1 |-> t1[n], n0 |-> n0[n], n1 |-> n1[n]]
  OBVIOUS
<1>2. DOMAIN list = 1 .. k /\ list = [n \in 1 .. k |-> list[n]]
  OBVIOUS
<1>3. Len(list) = k
  BY <1>2
<1>4. \A n \in 1 .. k : IsSpan(list[n])
  BY <1>1 DEF IsSpan
<1> QED BY <1>2, <1>3, <1>4 DEF IsSpanList

(* What two lists make of each other is a list of spans.                     *)
LEMMA ScanIsList ==
  ASSUME NEW op, NEW a, NEW b, Ends(a), Ends(b)
  PROVE  IsSpanList(boolean_scan(op, a, b))
<1> DEFINE S == Bounds2(a) \union Bounds2(b)
           held == {p \in Steps(S) : combine(op, Covers(a, p[1], p[2]), Covers(b, p[1], p[2]))}
           starts == {p[1] : p \in held} \ {p[2] : p \in held}
           ends == {p[2] : p \in held} \ {p[1] : p \in held}
           End(t) == Min({e \in ends : e > t})
           F(t) == IF t \in Bounds2(a) THEN NormalAt(a, t)
                   ELSE IF op = "difference" THEN Reverse3(NormalAt(b, t)) ELSE NormalAt(b, t)
           list == Ascending(starts)
           k == Cardinality(starts)
           own == [n \in DOMAIN list |-> [t0 |-> list[n], t1 |-> End(list[n]),
                                          n0 |-> F(list[n]), n1 |-> F(End(list[n]))]]
<1>1. boolean_scan(op, a, b) = own
  BY Zenon DEF boolean_scan, Joined
<1>2. k \in Nat
  <2>1. IsFiniteSet(S)
    BY BoundsAreFinite, FS_Union
  <2>2. held \subseteq Steps(S)
    OBVIOUS
  <2> HIDE DEF S, held
  <2> QED BY <2>1, <2>2, StartsAreFinite
<1>3. DOMAIN list = 1 .. k
  BY DEF Ascending
<1> HIDE DEF list, k, End, F
<1> DEFINE t0 == [n \in 1 .. k |-> list[n]]
           t1 == [n \in 1 .. k |-> End(list[n])]
           n0 == [n \in 1 .. k |-> F(list[n])]
           n1 == [n \in 1 .. k |-> F(End(list[n]))]
<1>4. own = [n \in 1 .. k |-> [t0 |-> t0[n], t1 |-> t1[n], n0 |-> n0[n], n1 |-> n1[n]]]
  BY <1>3
<1> HIDE DEF own, t0, t1, n0, n1
<1>5. IsSpanList(own)
  BY <1>2, <1>4, ListsSpans
<1> QED BY <1>1, <1>5

(* A list of spans ends, and so does a bare one.                             *)
LEMMA SpanListsEnd ==
  /\ \A list : IsSpanList(list) => Ends(list)
  /\ \A x : Ends(<<x>>)
  /\ \A lo, hi : Ends(Bare(lo, hi))
  /\ Ends(<<>>)
<1>1. ASSUME NEW list, IsSpanList(list) PROVE Ends(list)
  <2>1. Len(list) \in Nat /\ DOMAIN list = 1 .. Len(list)
    BY <1>1 DEF IsSpanList
  <2> QED BY <2>1, FS_Interval DEF Ends
<1>2. ASSUME NEW x PROVE Ends(<<x>>)
  <2>1. DOMAIN <<x>> = {1}
    OBVIOUS
  <2>2. IsFiniteSet({1})
    BY FS_Singleton
  <2> QED BY <2>1, <2>2 DEF Ends
<1>3. \A lo, hi : Ends(Bare(lo, hi))
  BY <1>2 DEF Bare
<1>4. Ends(<<>>)
  <2>1. DOMAIN <<>> = {}
    OBVIOUS
  <2> QED BY <2>1, FS_EmptySet DEF Ends
<1> QED BY <1>1, <1>2, <1>3, <1>4

(* A choice of two is finite.                                                *)
LEMMA PairIsFinite ==
  ASSUME NEW x, NEW y
  PROVE  IsFiniteSet({x, y}) /\ IsFiniteSet({x}) /\ IsFiniteSet({})
<1>1. {x, y} = {x} \union {y}
  OBVIOUS
<1>2. IsFiniteSet({x}) /\ IsFiniteSet({y}) /\ IsFiniteSet({})
  BY FS_Singleton, FS_EmptySet
<1>3. IsFiniteSet({x} \union {y})
  BY <1>2, FS_Union
<1> QED BY <1>1, <1>2, <1>3

(* Where an element is at a height, or at a radius, is a few places.         *)
LEMMA PlacesAreFew ==
  ASSUME NEW e, NEW x
  PROVE  IsFiniteSet(crossings_at(e, x)) /\ IsFiniteSet(RadiiAt(e, x)) /\ IsFiniteSet(HeightsAt(e, x))
<1>1. ASSUME NEW a, NEW S, S \subseteq {a}, NEW b PROVE IsFiniteSet(S)
  BY <1>1, PairIsFinite, FS_Subset
<1>2. \A a, b, c, T : T \subseteq {a, b} => IsFiniteSet({c + y : y \in T})
  <2> TAKE a, b, c, T
  <2> HAVE T \subseteq {a, b}
  <2>1. {c + y : y \in T} \in SUBSET {c + a, c + b}
    OBVIOUS
  <2>2. IsFiniteSet({c + a, c + b})
    BY PairIsFinite
  <2> HIDE DEF Sign
  <2> QED BY <2>1, <2>2, FS_Subset
<1>3. \A a, b, P : IsFiniteSet({})
  BY FS_EmptySet
<1>4. IsFiniteSet(crossings_at(e, x))
  <2> DEFINE d == Away(e.end, e.start)
             n == (x - e.start[2]) * Sign(d[2])
             at == e.start[1] + n * (d[1] \div (d[2] * Sign(d[2])))
             dz == x - e.center[2]
             rest == radius(e) * radius(e) - dz * dz
             few == {y \in {-Root(rest), Root(rest)} : contains_angle(e, <<y, dz>>)}
  <2>1. crossings_at(e, x) = IF e.kind = "segment"
                             THEN IF 0 <= n /\ n < d[2] * Sign(d[2]) THEN {at} ELSE {}
                             ELSE IF rest <= 0 THEN {} ELSE {e.center[1] + y : y \in few}
    BY Zenon DEF crossings_at
  <2>2. few \subseteq {-Root(rest), Root(rest)}
    OBVIOUS
  <2> DEFINE a == -Root(rest)
             b == Root(rest)
             c == e.center[1]
  <2>3. IsFiniteSet({c + y : y \in few})
    <3> HIDE DEF few, rest, a, b, c
    <3>1. {c + y : y \in few} \in SUBSET {c + a, c + b}
      BY <2>2 DEF a, b
    <3>2. IsFiniteSet({c + a, c + b})
      BY PairIsFinite
    <3> HIDE DEF few
    <3> QED BY <3>1, <3>2, FS_Subset
  <2>4. IsFiniteSet({at}) /\ IsFiniteSet({})
    BY PairIsFinite
  <2> HIDE DEF few, rest, at, n, d
  <2> QED BY <2>1, <2>3, <2>4
<1>5. IsFiniteSet(RadiiAt(e, x))
  <2>1. IsFiniteSet({e.end[1]}) /\ IsFiniteSet({})
    BY PairIsFinite
  <2> QED BY <2>1, <1>4 DEF RadiiAt
<1>6. IsFiniteSet(HeightsAt(e, x))
  <2> DEFINE d == Away(e.end, e.start)
             at == e.start[2] + ((x - e.start[1]) * d[2] * Sign(d[1])) \div (d[1] * Sign(d[1]))
             dr == x - e.center[1]
             rest == radius(e) * radius(e) - dr * dr
             few == {y \in {-Root(rest), Root(rest)} : contains_angle(e, <<dr, y>>)}
  <2>1. HeightsAt(e, x) = IF e.kind = "segment"
                          THEN IF d[1] = 0 \/ x \notin Between(Extremes(e, 1)) THEN {}
                               ELSE IF d[2] = 0 THEN {e.start[2]} ELSE {at}
                          ELSE IF rest < 0 THEN {} ELSE {e.center[2] + y : y \in few}
    BY Zenon DEF HeightsAt
  <2>2. few \subseteq {-Root(rest), Root(rest)}
    OBVIOUS
  <2> DEFINE a == -Root(rest)
             b == Root(rest)
             c == e.center[2]
  <2>3. IsFiniteSet({c + y : y \in few})
    <3> HIDE DEF few, rest, a, b, c
    <3>1. {c + y : y \in few} \in SUBSET {c + a, c + b}
      BY <2>2 DEF a, b
    <3>2. IsFiniteSet({c + a, c + b})
      BY PairIsFinite
    <3> HIDE DEF few
    <3> QED BY <3>1, <3>2, FS_Subset
  <2>4. IsFiniteSet({at}) /\ IsFiniteSet({e.start[2]}) /\ IsFiniteSet({})
    BY PairIsFinite
  <2> HIDE DEF few, rest, at, d
  <2> QED BY <2>1, <2>3, <2>4
<1> QED BY <1>4, <1>5, <1>6

(* What a ray may cross of a tool of finitely many elements is finitely much. *)
LEMMA CrossingsAreFinite ==
  ASSUME NEW elements, Ends(elements), NEW ray
  PROVE  IsFiniteSet(element_crossings(elements, ray))
<1> DEFINE o == ray.origin
           r == Root(o[1] * o[1] + o[2] * o[2])
           E == DOMAIN elements
           high == [n \in E |-> HeightsAt(elements[n], r)]
           tall == UNION {HeightsAt(elements[n], r) : n \in E}
           last == IF r <= top(elements)[1] THEN {top(elements)[2]} ELSE {}
           up == {ray.sense * (z - o[3]) : z \in tall \union last}
           off == o[3 - ray.w]
           wide == [n \in E |-> RadiiAt(elements[n], o[3])]
           broad == UNION {RadiiAt(elements[n], o[3]) : n \in E}
           chords == {c \in broad : c * c >= off * off}
           across == {s * Root(c * c - off * off) - ray.sense * o[ray.w] : c \in chords, s \in {-1, 1}}
<1>1. element_crossings(elements, ray) = IF ray.w = 3 THEN up ELSE across
  BY DEF element_crossings
<1>2. IsFiniteSet(up)
  <2>1. IsFiniteSet(UNION {high[n] : n \in E})
    <3>1. \A n \in E : IsFiniteSet(high[n])
      BY PlacesAreFew
    <3> HIDE DEF high
    <3> QED BY <3>1, FiniteTogether DEF Ends
  <2>2. tall = UNION {high[n] : n \in E}
    OBVIOUS
  <2>3. IsFiniteSet(last)
    <3>1. IsFiniteSet({top(elements)[2]}) /\ IsFiniteSet({})
      BY PairIsFinite
    <3> QED BY <3>1
  <2>4. IsFiniteSet(tall \union last)
    <3> HIDE DEF tall, last, high
    <3> QED BY <2>1, <2>2, <2>3, FS_Union
  <2> DEFINE all == tall \union last
             g == [z \in all |-> ray.sense * (z - o[3])]
  <2> HIDE DEF tall, last, o
  <2>5. g \in Surjection(all, up)
    BY DEF Surjection
  <2> QED BY <2>4, <2>5, FS_Surjection
<1>3. IsFiniteSet(across)
  <2>1. IsFiniteSet(UNION {wide[n] : n \in E})
    <3>1. \A n \in E : IsFiniteSet(wide[n])
      BY PlacesAreFew
    <3> HIDE DEF wide
    <3> QED BY <3>1, FiniteTogether DEF Ends
  <2>2. broad = UNION {wide[n] : n \in E}
    OBVIOUS
  <2>3. IsFiniteSet(broad)
    <3> HIDE DEF broad, wide
    <3> QED BY <2>1, <2>2
  <2>4. IsFiniteSet(chords)
    <3>1. chords \in SUBSET broad
      OBVIOUS
    <3> HIDE DEF chords, broad
    <3> QED BY <2>3, <3>1, FS_Subset
  <2>5. IsFiniteSet(chords \X {-1, 1})
    <3> HIDE DEF chords
    <3> QED BY <2>4, PairIsFinite, FS_Product
  <2> HIDE DEF chords, off, o
  <2> DEFINE g == [p \in chords \X {-1, 1} |-> p[2] * Root(p[1] * p[1] - off * off) - ray.sense * o[ray.w]]
  <2>6. g \in Surjection(chords \X {-1, 1}, across)
    <3>1. \A c \in chords, s \in {-1, 1} :
            <<c, s>> \in chords \X {-1, 1} /\ g[<<c, s>>] = s * Root(c * c - off * off) - ray.sense * o[ray.w]
      OBVIOUS
    <3>2. ASSUME NEW x \in across PROVE \E p \in chords \X {-1, 1} : g[p] = x
      <4>1. PICK c \in chords, s \in {-1, 1} : x = s * Root(c * c - off * off) - ray.sense * o[ray.w]
        OBVIOUS
      <4>2. <<c, s>> \in chords \X {-1, 1} /\ g[<<c, s>>] = s * Root(c * c - off * off) - ray.sense * o[ray.w]
        BY <3>1
      <4> HIDE DEF g
      <4> QED BY <4>1, <4>2
    <3>3. ASSUME NEW p \in chords \X {-1, 1} PROVE g[p] \in across
      <4>1. p[1] \in chords /\ p[2] \in {-1, 1}
        OBVIOUS
      <4>2. g[p] = p[2] * Root(p[1] * p[1] - off * off) - ray.sense * o[ray.w]
        OBVIOUS
      <4> QED BY <4>1, <4>2
    <3>4. g \in [chords \X {-1, 1} -> across]
      <4>1. g = [p \in chords \X {-1, 1} |-> g[p]]
        OBVIOUS
      <4> HIDE DEF g, across
      <4> QED BY <3>3, <4>1
    <3> HIDE DEF g, across
    <3> QED BY <3>2, <3>4 DEF Surjection
  <2> HIDE DEF g, across
  <2> QED BY <2>5, <2>6, FS_Surjection
<1> QED BY <1>1, <1>2, <1>3

(* Where a ray is in a tool of finitely many elements is a list of spans.     *)
LEMMA InToolIsList ==
  ASSUME NEW elements, Ends(elements), NEW ray
  PROVE  IsSpanList(intersect_ray(elements, ray))
<1> DEFINE S == {0} \union {t \in element_crossings(elements, ray) : t >= 0}
           held == {p \in Steps(S) :
                      contains_half(elements, [l \in 1 .. 3 |-> Through(ray, p[1])[l] + Through(ray, p[2])[l]])}
           starts == {p[1] : p \in held} \ {p[2] : p \in held}
           ends == {p[2] : p \in held} \ {p[1] : p \in held}
           End(t) == Min({e \in ends : e > t})
           F(t) == IF t = 0 /\ contains_xyz(elements, ray.origin) THEN PLACEHOLDER
                   ELSE surface_normal(elements, Through(ray, t))
           list == Ascending(starts)
           k == Cardinality(starts)
           own == [n \in DOMAIN list |-> [t0 |-> list[n], t1 |-> End(list[n]),
                                          n0 |-> F(list[n]), n1 |-> F(End(list[n]))]]
<1>1. intersect_ray(elements, ray) = own
  BY Zenon DEF intersect_ray, Joined
<1>2. k \in Nat
  <2>1. IsFiniteSet(S)
    <3> DEFINE T == element_crossings(elements, ray)
               U == {t \in T : t >= 0}
    <3>1. IsFiniteSet(T)
      BY CrossingsAreFinite
    <3> HIDE DEF T
    <3>2. IsFiniteSet(U)
      BY <3>1, FS_Subset
    <3>3. IsFiniteSet({0})
      BY PairIsFinite
    <3> HIDE DEF U
    <3>4. IsFiniteSet({0} \union U)
      BY <3>2, <3>3, FS_Union
    <3> QED BY <3>4 DEF U, T
  <2>2. held \subseteq Steps(S)
    OBVIOUS
  <2> HIDE DEF S, held
  <2> QED BY <2>1, <2>2, StartsAreFinite
<1>3. DOMAIN list = 1 .. k
  BY DEF Ascending
<1> HIDE DEF list, k, End, F
<1> DEFINE t0 == [n \in 1 .. k |-> list[n]]
           t1 == [n \in 1 .. k |-> End(list[n])]
           n0 == [n \in 1 .. k |-> F(list[n])]
           n1 == [n \in 1 .. k |-> F(End(list[n]))]
<1>4. own = [n \in 1 .. k |-> [t0 |-> t0[n], t1 |-> t1[n], n0 |-> n0[n], n1 |-> n1[n]]]
  BY <1>3
<1> HIDE DEF own, t0, t1, n0, n1
<1>5. IsSpanList(own)
  BY <1>2, <1>4, ListsSpans
<1> QED BY <1>1, <1>5

(* What is united ends, and so is the tool at a place.                       *)
LEMMA UnionsEnd ==
  /\ \A a, b : Ends(a) /\ Ends(b) => Ends(union(a, b)) /\ Ends(subtract(a, b)) /\ Ends(clipped_to(a, b))
  /\ \A elements, ray : Ends(elements) => Ends(intersect_ray(elements, ray))
  /\ \A elements, tip, ray : Ends(elements) => Ends(spans_in_tool_at(elements, tip, ray))
BY ScanIsList, InToolIsList, SpanListsEnd DEF union, subtract, clipped_to, spans_in_tool_at

\* What unites the first n of the lists of H one by one.
Unites(f, H, N) == f = [n \in 0 .. N |-> IF n = 0 THEN H[0] ELSE union(f[n - 1], H[n])]

(* Lists can be united one by one.                                           *)
LEMMA UnionsExist ==
  ASSUME NEW N \in Nat, NEW H
  PROVE  \E f : Unites(f, H, N)
<1> DEFINE Good == {m \in 0 .. N : \E f : Unites(f, H, m)}
<1>1. 0 \in Good
  <2> DEFINE f == [n \in 0 .. 0 |-> H[0]]
  <2>1. f = [n \in 0 .. 0 |-> IF n = 0 THEN H[0] ELSE union(f[n - 1], H[n])]
    <3>1. \A n \in 0 .. 0 : H[0] = IF n = 0 THEN H[0] ELSE union(f[n - 1], H[n])
      OBVIOUS
    <3> QED BY <3>1
  <2> HIDE DEF f
  <2>2. Unites(f, H, 0)
    BY <2>1 DEF Unites
  <2>3. 0 \in 0 .. N
    OBVIOUS
  <2> QED BY <2>2, <2>3
<1>2. ASSUME NEW m \in 0 .. N - 1, m \in Good PROVE m + 1 \in Good
  <2>1. PICK f : Unites(f, H, m)
    BY <1>2
  <2> DEFINE last == union(f[m], H[m + 1])
             g == [n \in 0 .. m + 1 |-> IF n = m + 1 THEN last ELSE f[n]]
  <2>2. \A n \in 0 .. m : f[n] = IF n = 0 THEN H[0] ELSE union(f[n - 1], H[n])
    BY <2>1 DEF Unites
  <2>3. ASSUME NEW n \in 0 .. m + 1 PROVE g[n] = IF n = 0 THEN H[0] ELSE union(g[n - 1], H[n])
    <3>1. CASE n = m + 1
      <4>1. n # 0 /\ n - 1 = m /\ m \in 0 .. m + 1 /\ m # m + 1
        BY <3>1
      <4>2. g[n] = last /\ g[n - 1] = f[m]
        BY <3>1, <4>1
      <4> HIDE DEF g
      <4> QED BY <3>1, <4>1, <4>2
    <3>2. CASE n # m + 1
      <4>1. n \in 0 .. m /\ (n # 0 => n - 1 \in 0 .. m)
        BY <3>2
      <4>2. g[n] = f[n] /\ (n # 0 => g[n - 1] = f[n - 1])
        <5> HIDE DEF last
        <5> QED BY <4>1
      <4> HIDE DEF g
      <4> QED BY <4>1, <4>2, <2>2
    <3> QED BY <3>1, <3>2
  <2>4. g = [n \in 0 .. m + 1 |-> g[n]]
    OBVIOUS
  <2> HIDE DEF g
  <2>5. Unites(g, H, m + 1)
    BY <2>3, <2>4 DEF Unites
  <2>6. m + 1 \in 0 .. N
    OBVIOUS
  <2> QED BY <2>5, <2>6
<1> HIDE DEF Good
<1>3. \A m \in 0 .. N : m \in Good
  BY <1>1, <1>2, Induction
<1> QED BY <1>3 DEF Good

(* Lists that end, united, end.                                              *)
LEMMA UnitedEnds ==
  ASSUME NEW N \in Nat, NEW H, \A n \in 0 .. N : Ends(H[n]), NEW f, Unites(f, H, N)
  PROVE  Ends(f[N])
<1> DEFINE Good == {m \in 0 .. N : Ends(f[m])}
<1>1. \A n \in 0 .. N : f[n] = IF n = 0 THEN H[0] ELSE union(f[n - 1], H[n])
  BY DEF Unites
<1>2. 0 \in Good
  BY <1>1
<1>3. ASSUME NEW m \in 0 .. N - 1, m \in Good PROVE m + 1 \in Good
  <2>1. m + 1 \in 0 .. N /\ m + 1 # 0 /\ (m + 1) - 1 = m /\ Ends(f[m])
    BY <1>3
  <2>2. f[m + 1] = union(f[m], H[m + 1])
    BY <1>1, <2>1
  <2>3. Ends(H[m + 1])
    BY <2>1
  <2> QED BY <2>1, <2>2, <2>3, UnionsEnd
<1> HIDE DEF Good
<1>4. \A m \in 0 .. N : m \in Good
  BY <1>2, <1>3, Induction
<1> QED BY <1>4 DEF Good

(* A list whose elements are changed ends where it did.                      *)
LEMMA ChangedEnds ==
  ASSUME NEW list, Ends(list), NEW other, DOMAIN other = DOMAIN list
  PROVE  Ends(other)
BY DEF Ends

(* The steps of a motion.                                                    *)
LEMMA SteppedEnds ==
  ASSUME NEW elements, Ends(elements), NEW m, NEW N \in Nat, NEW ray
  PROVE  Ends(stepped_spans(elements, m, N, ray))
<1> DEFINE H == [n \in 0 .. N |-> spans_in_tool_at(elements, PositionAt(m, n, N), ray)]
           Step(f) == [n \in 0 .. N |->
                         LET here == spans_in_tool_at(elements, PositionAt(m, n, N), ray)
                         IN IF n = 0 THEN here ELSE union(f[n - 1], here)]
           swept == CHOOSE f : f = Step(f)
<1>1. stepped_spans(elements, m, N, ray) = swept[N]
  BY DEF stepped_spans
<1>2. \A f : Step(f) = [n \in 0 .. N |-> IF n = 0 THEN H[0] ELSE union(f[n - 1], H[n])]
  <2> TAKE f
  <2>1. \A n \in 0 .. N : H[n] = spans_in_tool_at(elements, PositionAt(m, n, N), ray)
    OBVIOUS
  <2>2. 0 \in 0 .. N
    OBVIOUS
  <2> HIDE DEF H
  <2> QED BY <2>1, <2>2
<1>3. \A n \in 0 .. N : Ends(H[n])
  BY UnionsEnd
<1>4. \A f : Unites(f, H, N) <=> f = Step(f)
  <2> HIDE DEF H, Step
  <2> QED BY <1>2 DEF Unites
<1> HIDE DEF H, Step
<1>5. \E f : f = Step(f)
  BY <1>4, UnionsExist
<1>6. Unites(swept, H, N)
  <2>1. swept = Step(swept)
    BY <1>5
  <2> HIDE DEF swept
  <2> QED BY <1>4, <2>1
<1> HIDE DEF swept
<1>7. Ends(swept[N])
  BY <1>3, <1>6, UnitedEnds
<1> QED BY <1>1, <1>7

(* The prism of a level motion.                                              *)
LEMMA HorizontalEnds ==
  ASSUME NEW elements, Ends(elements), NEW m, NEW ray
  PROVE  Ends(horizontal_spans(elements, m, ray))
<1>1. Ends(prism_spans(elements, m, ray))
  <2> DEFINE at == Frame(m, Minus(ray.origin, m.start))
             dir == Frame(m, direction(ray.w))
             height == ray.origin[3] - m.start[3]
             length == Frame(m, Minus(m.end, m.start))[1]
             slab == slab_interval(at[1], dir[1], length)
             local == [origin |-> <<at[2], 0, height>>, w |-> IF ray.w = 3 THEN 3 ELSE 1,
                       sense |-> IF ray.w = 3 THEN 1 ELSE dir[2]]
             inner == intersect_ray(elements, local)
  <2>1. prism_spans(elements, m, ray) =
          IF slab = <<>> THEN <<>>
          ELSE IF ray.w # 3 /\ dir[2] = 0
          THEN IF contains_rz(elements, at[2] * Sign(at[2]), height) THEN slab ELSE <<>>
          ELSE clipped_to(Restored(m, inner), slab)
    BY Zenon DEF prism_spans
  <2>2. Ends(slab)
    <3> HIDE DEF at, dir, length
    <3> QED BY SpanListsEnd DEF slab_interval
  <2>3. Ends(inner)
    <3> HIDE DEF local
    <3> QED BY UnionsEnd
  <2> HIDE DEF inner, slab, dir, at, height
  <2>4. Ends(Restored(m, inner))
    <3>1. DOMAIN Restored(m, inner) = DOMAIN inner
      BY DEF Restored
    <3> QED BY <2>3, <3>1, ChangedEnds
  <2>5. Ends(clipped_to(Restored(m, inner), slab))
    BY <2>2, <2>4, UnionsEnd
  <2> QED BY <2>1, <2>2, <2>5, SpanListsEnd
<1> QED BY <1>1, UnionsEnd DEF horizontal_spans

(* What an upright motion draws out, or leaves across it.                    *)
LEMMA PlungeEnds ==
  ASSUME NEW elements, Ends(elements), NEW m, NEW ray
  PROVE  Ends(plunge_spans(elements, m, ray))
<1> DEFINE dz == m.end[3] - m.start[3]
           base == spans_in_tool_at(elements, m.start, ray)
           widest == widest_past(elements, ray.origin[3] - m.start[3], dz)
<1>1. plunge_spans(elements, m, ray) =
        IF ray.w = 3 THEN DrawnOut(base, dz) ELSE Walled(elements, m.start, ray, widest)
  BY Zenon DEF plunge_spans
<1>2. IsSpanList(base)
  BY InToolIsList DEF spans_in_tool_at
<1> HIDE DEF dz, base, widest
<1>3. Ends(DrawnOut(base, dz))
  <2> DEFINE N == Len(base)
             Long(n) == <<[base[n] EXCEPT !.t0 = @ + Min({0, dz}), !.t1 = @ + Max({0, dz})]>>
             H == [n \in 0 .. N |-> IF n = 0 THEN <<>> ELSE Long(n)]
             Step(f) == [n \in 0 .. N |-> IF n = 0 THEN <<>> ELSE union(f[n - 1], Long(n))]
             swept == CHOOSE f : f = Step(f)
  <2>1. DrawnOut(base, dz) = swept[N]
    BY DEF DrawnOut
  <2>2. N \in Nat
    BY <1>2 DEF IsSpanList
  <2>3. \A n \in 0 .. N : Ends(H[n])
    BY SpanListsEnd
  <2> HIDE DEF N, Long
  <2>4. \A f : Unites(f, H, N) <=> f = Step(f)
    <3>1. H[0] = <<>> /\ \A n \in 0 .. N : n # 0 => H[n] = Long(n)
      BY <2>2
    <3> HIDE DEF H
    <3> QED BY <3>1 DEF Unites
  <2> HIDE DEF H, Step
  <2>5. \E f : f = Step(f)
    BY <2>2, <2>4, UnionsExist
  <2>6. Unites(swept, H, N)
    <3>1. swept = Step(swept)
      BY <2>5
    <3> HIDE DEF swept
    <3> QED BY <2>4, <3>1
  <2> HIDE DEF swept
  <2>7. Ends(swept[N])
    BY <2>2, <2>3, <2>6, UnitedEnds
  <2> QED BY <2>1, <2>7
<1>4. Ends(Walled(elements, m.start, ray, widest))
  <2> DEFINE chord == Chord(ray, m.start, widest[1])
  <2>1. Ends(chord)
    BY SpanListsEnd DEF Chord
  <2>2. DOMAIN Walled(elements, m.start, ray, widest) = DOMAIN chord
    BY DEF Walled
  <2> HIDE DEF chord
  <2> QED BY <2>1, <2>2, ChangedEnds
<1> QED BY <1>1, <1>3, <1>4

(* What a level arc passes.                                                  *)
LEMMA ArcEnds ==
  ASSUME NEW elements, Ends(elements), NEW m, NEW ray
  PROVE  Ends(arc_spans(elements, m, ray))
<1>1. \A u, pole, sense : Ends(half_plane(u, ray, pole, sense))
  BY SpanListsEnd DEF half_plane
<1>2. Ends(wedge_intervals(m, ray))
  <2> DEFINE ends == {m.from, m.from + m.turns}
             after == half_plane(Bearing(Min(ends)), ray, m.center, 1)
             before == half_plane(Bearing(Max(ends)), ray, m.center, -1)
  <2>1. wedge_intervals(m, ray) =
          IF ToUnit(m.turns) >= 4 THEN Bare(-FAR, FAR)
          ELSE IF ToUnit(m.turns) <= 2 THEN clipped_to(after, before) ELSE union(after, before)
    BY Zenon DEF wedge_intervals
  <2>2. Ends(after) /\ Ends(before)
    BY <1>1
  <2> HIDE DEF after, before
  <2>3. Ends(clipped_to(after, before)) /\ Ends(union(after, before))
    BY <2>2, UnionsEnd
  <2> QED BY <2>1, <2>3, SpanListsEnd
<1>3. \A pole, reach : Ends(Chord(ray, pole, reach))
  BY SpanListsEnd DEF Chord
<1>4. Ends(annulus_spans(elements, m, ray))
  <2> DEFINE reach == max_radius_over_z_at(elements, ray.origin[3] - m.z, ray.origin[3] - m.z)[1]
             outer == Chord(ray, m.center, m.radius + reach)
             inner == Chord(ray, m.center, m.radius - reach)
             ring == subtract(outer, inner)
  <2>1. annulus_spans(elements, m, ray) =
          IF reach <= 0 THEN <<>> ELSE clipped_to(ring, wedge_intervals(m, ray))
    BY Zenon DEF annulus_spans
  <2>2. Ends(outer) /\ Ends(inner)
    BY <1>3
  <2> HIDE DEF outer, inner, reach
  <2>3. Ends(ring)
    BY <2>2, UnionsEnd
  <2> HIDE DEF ring
  <2>4. Ends(clipped_to(ring, wedge_intervals(m, ray)))
    BY <1>2, <2>3, UnionsEnd
  <2> QED BY <2>1, <2>4, SpanListsEnd
<1> DEFINE v == Minus(ray.origin, m.center)
           off == Root(v[1] * v[1] + v[2] * v[2]) - m.radius
           through == intersect_ray(elements, [ray EXCEPT !.origin = <<off * Sign(off), 0, @[3] - m.z>>])
           middle == IF ray.w # 3 THEN annulus_spans(elements, m, ray)
                     ELSE IF ~wedge_contains(m, <<v[1], v[2]>>) THEN <<>> ELSE through
           first == spans_in_tool_at(elements, ArcAt(m, 0), ray)
           second == spans_in_tool_at(elements, ArcAt(m, ToUnit(m.turns)), ray)
<1>5. arc_spans(elements, m, ray) = union(union(first, second), Faced(elements, m, ray, middle))
  BY Zenon DEF arc_spans
<1>6. Ends(first) /\ Ends(second) /\ Ends(through)
  BY UnionsEnd
<1>7. Ends(middle)
  <2> HIDE DEF through, v
  <2> QED BY <1>4, <1>6, SpanListsEnd
<1> HIDE DEF first, second, middle
<1>8. Ends(Faced(elements, m, ray, middle))
  <2>1. DOMAIN Faced(elements, m, ray, middle) = DOMAIN middle
    BY DEF Faced
  <2> QED BY <1>7, <2>1, ChangedEnds
<1>9. Ends(union(first, second))
  BY <1>6, UnionsEnd
<1>10. Ends(union(union(first, second), Faced(elements, m, ray, middle)))
  BY <1>8, <1>9, UnionsEnd
<1> QED BY <1>5, <1>10

\* A motion, and how it is to be swept.
IsMotion(m) ==
  IF m.kind = "arc" THEN m.turns \in Int ELSE m.start \in [1 .. 3 -> Int] /\ m.end \in [1 .. 3 -> Int]

IsMethod(method) == method.steps \in Int /\ method.tolerance \in Nat \ {0}

(* What is stepped takes some number of steps.                               *)
LEMMA PlanIsCount ==
  ASSUME NEW m, IsMotion(m), NEW method, IsMethod(method)
  PROVE  Larger(1, plan(method, m)) \in Nat
<1>1. \A x \in Int : Sign(x) \in Int
  BY DEF Sign
<1>2. substeps_for_error(m, method.tolerance) \in Int
  <2>1. CASE m.kind = "arc"
    <3>1. m.turns \in Int /\ Sign(m.turns) \in Int
      BY <1>1, <2>1 DEF IsMotion
    <3>2. m.turns * Sign(m.turns) \in Int
      BY <3>1
    <3> QED BY <2>1, <3>2 DEF substeps_for_error, ToUnit
  <2>2. CASE m.kind # "arc"
    <3> DEFINE d == Minus(m.end, m.start)
               root == Root(Dot(d, d))
               t == method.tolerance
    <3>1. d[1] \in Int /\ d[2] \in Int /\ d[3] \in Int
      BY <2>2 DEF IsMotion, Minus
    <3>2. Dot(d, d) \in Nat
      <4>1. \A x \in Int : x * x \in Int /\ x * x >= 0
        OBVIOUS
      <4>2. Dot(d, d) = d[1] * d[1] + d[2] * d[2] + d[3] * d[3]
        BY DEF Dot
      <4> HIDE DEF d
      <4> DEFINE a == d[1] * d[1]
                 b == d[2] * d[2]
                 c == d[3] * d[3]
      <4>3. a \in Nat /\ b \in Nat /\ c \in Nat
        BY <3>1, <4>1
      <4>4. a + b + c \in Nat
        <5> HIDE DEF a, b, c
        <5> QED BY <4>3
      <4> QED BY <4>2, <4>4
    <3>3. root \in Nat
      BY <3>2, RootTyped
    <3>4. t \in Nat \ {0}
      BY DEF IsMethod
    <3>5. substeps_for_error(m, t) = Larger(1, (root + 2 * t - 1) \div (2 * t))
      BY <2>2 DEF substeps_for_error
    <3> HIDE DEF root, t
    <3>6. (root + 2 * t - 1) \div (2 * t) \in Int
      BY <3>3, <3>4
    <3>7. substeps_for_error(m, t) \in Int
      BY <3>5, <3>6 DEF Larger
    <3> QED BY <3>7 DEF t
  <2> QED BY <2>1, <2>2
<1>3. plan(method, m) \in Int
  <2>1. method.steps \in Int
    BY DEF IsMethod
  <2> QED BY <1>2, <2>1 DEF plan, Larger
<1> QED BY <1>3 DEF Larger

(* Whatever form a motion takes, where it sweeps is a list that ends.        *)
LEMMA SweptEnds ==
  ASSUME NEW elements, Ends(elements), NEW m, IsMotion(m), NEW method, IsMethod(method), NEW convex, NEW ray
  PROVE  Ends(swept_for_ray(elements, convex, method, m, ray))
<1>1. Ends(stepped_spans(elements, m, Larger(1, plan(method, m)), ray))
  BY PlanIsCount, SteppedEnds
<1>2. CASE method.analytic /\ closed_form(elements, convex, m, ray)
  <2>1. case(m) \in {"Stationary", "Horizontal", "Plunge", "Arc"}
    BY <1>2 DEF closed_form
  <2>2. Ends(spans_in_tool_at(elements, m.start, ray))
    BY UnionsEnd
  <2>3. /\ Ends(horizontal_spans(elements, m, ray)) /\ Ends(plunge_spans(elements, m, ray))
        /\ Ends(arc_spans(elements, m, ray))
    BY HorizontalEnds, PlungeEnds, ArcEnds
  <2> QED BY <1>2, <2>1, <2>2, <2>3 DEF swept_for_ray
<1>3. CASE ~(method.analytic /\ closed_form(elements, convex, m, ray))
  BY <1>1, <1>3 DEF swept_for_ray
<1> QED BY <1>2, <1>3

(* What a cut leaves of a ray is a list of spans.                            *)
LEMMA RemainingIsList ==
  ASSUME NEW material, IsSpanList(material), NEW swept, Ends(swept)
  PROVE  IsSpanList(Remaining(material, swept))
<1> DEFINE whole == Whole(material)
           left == subtract(whole, swept)
           k == Len(left)
<1>1. Ends(whole)
  <2>1. DOMAIN whole = DOMAIN material
    BY DEF Whole
  <2> QED BY <2>1, SpanListsEnd, ChangedEnds
<1>2. IsSpanList(left)
  <2> HIDE DEF whole
  <2> QED BY <1>1, ScanIsList DEF subtract
<1> HIDE DEF left
<1>3. /\ k \in Nat /\ left = [n \in 1 .. k |-> left[n]]
      /\ \A n \in 1 .. k : left[n] = [t0 |-> left[n].t0, t1 |-> left[n].t1, n0 |-> left[n].n0, n1 |-> left[n].n1]
  BY <1>2 DEF IsSpanList, IsSpan
<1>4. DOMAIN left = 1 .. k
  BY <1>3
<1> HIDE DEF k
<1> DEFINE t0 == [n \in 1 .. k |-> <<left[n].t0, 1>>]
           t1 == [n \in 1 .. k |-> <<left[n].t1, 1>>]
           n0 == [n \in 1 .. k |-> left[n].n0]
           n1 == [n \in 1 .. k |-> left[n].n1]
           own == [n \in 1 .. k |-> [t0 |-> t0[n], t1 |-> t1[n], n0 |-> n0[n], n1 |-> n1[n]]]
<1>5. Fractions(left) = own
  <2>1. \A n \in 1 .. k : /\ t0[n] = <<left[n].t0, 1>> /\ t1[n] = <<left[n].t1, 1>>
                          /\ n0[n] = left[n].n0 /\ n1[n] = left[n].n1
    OBVIOUS
  <2>2. Fractions(left) = [n \in 1 .. k |-> [t0 |-> <<left[n].t0, 1>>, t1 |-> <<left[n].t1, 1>>,
                                            n0 |-> left[n].n0, n1 |-> left[n].n1]]
    BY <1>4 DEF Fractions
  <2> HIDE DEF t0, t1, n0, n1
  <2> QED BY <2>1, <2>2
<1>6. IsSpanList(own)
  <2> HIDE DEF t0, t1, n0, n1
  <2>1. own = [n \in 1 .. k |-> [t0 |-> t0[n], t1 |-> t1[n], n0 |-> n0[n], n1 |-> n1[n]]]
    OBVIOUS
  <2> HIDE DEF own
  <2> QED BY <1>3, <2>1, ListsSpans
<1>7. Remaining(material, swept) = Fractions(left)
  BY DEF Remaining, left
<1> QED BY <1>5, <1>6, <1>7

(* What a cut leaves of a field is a field.                                  *)
LEMMA CutLeavesField ==
  ASSUME NEW b, IsField(b), NEW elements, Ends(elements), NEW m, IsMotion(m), NEW method, IsMethod(method)
  PROVE  IsField(cut_bundle(b, elements, method, m))
<1> DEFINE box == swept_bounds(elements, m)
           convex == is_radially_convex(elements)
           Through_(ray) == swept_for_ray(elements, convex, method, m,
                                          [origin |-> ray.origin, w |-> ray.w, sense |-> 1])
           Left(r) == LET ray == ray_at(b.lattice, r - 1)
                      IN IF b.arena[r] = <<>> \/ ~transverse_overlaps(box, b.lattice, ray.origin)
                         THEN b.arena[r] ELSE Remaining(b.arena[r], Through_(ray))
           arena == [r \in DOMAIN b.arena |-> Left(r)]
           c == [b EXCEPT !.arena = arena]
           k == Len(b.arena)
           l == b.lattice
<1>1. cut_bundle(b, elements, method, m) = c
  BY Zenon DEF cut_bundle
<1>2. /\ b = [lattice |-> l, arena |-> b.arena, placement |-> b.placement]
      /\ l = [axis |-> l.axis, origin |-> l.origin, spacing |-> <<l.spacing[1], l.spacing[2]>>,
              counts |-> <<l.counts[1], l.counts[2]>>, extent |-> l.extent, length |-> l.length]
      /\ l.axis \in 1 .. 3
      /\ k \in Nat /\ k = ray_count(l) /\ b.arena = [r \in 1 .. k |-> b.arena[r]]
      /\ \A r \in 1 .. k : IsSpanList(b.arena[r])
  BY DEF IsField
<1>3. DOMAIN b.arena = 1 .. k
  BY <1>2
<1>4. ASSUME NEW r \in 1 .. k PROVE IsSpanList(Left(r))
  <2> DEFINE ray == ray_at(b.lattice, r - 1)
             swept == Through_(ray)
  <2>1. Ends(swept)
    <3> HIDE DEF convex, ray
    <3> QED BY SweptEnds
  <2>2. IsSpanList(b.arena[r])
    BY <1>2
  <2> HIDE DEF swept
  <2>3. IsSpanList(Remaining(b.arena[r], swept))
    BY <2>1, <2>2, RemainingIsList
  <2> HIDE DEF ray, box
  <2> QED BY <2>2, <2>3 DEF swept, ray
<1> HIDE DEF Left
<1>5. arena = [r \in 1 .. k |-> arena[r]] /\ DOMAIN arena = 1 .. k /\ \A r \in 1 .. k : IsSpanList(arena[r])
  BY <1>3, <1>4
<1>6. Len(arena) = k
  <2> HIDE DEF arena
  <2> QED BY <1>2, <1>5
<1>7. c = [lattice |-> l, arena |-> arena, placement |-> b.placement]
  <2> HIDE DEF arena, l, k
  <2> QED BY <1>2
<1> HIDE DEF arena, k, l
<1>8. c.lattice = l /\ c.arena = arena /\ c.placement = b.placement
  BY <1>7
<1> HIDE DEF c
<1>9. IsField(c)
  BY <1>2, <1>5, <1>6, <1>7, <1>8 DEF IsField
<1> QED BY <1>1, <1>9

(* The tools of a library that is read are numbered and their profiles end.     *)
LEMMA ReadIsEquipped ==
  ASSUME NEW doc, IsDocument(doc), IsLibrary(doc), NEW tools, tools = from_json(doc)
  PROVE  DOMAIN tools \subseteq Nat /\ \A n \in DOMAIN tools : Ends(tools[n].profile)
<1>1. AreTools(doc.tools) /\ \A n \in DOMAIN doc.tools : IsTool(doc.tools[n])
  BY DEF IsDocument, IsLibrary, Has
<1>2. DOMAIN doc.tools \subseteq Nat
  BY <1>1 DEF AreTools, AreObjects, IsArray
<1>3. DOMAIN tools = DOMAIN doc.tools /\ \A n \in DOMAIN tools : tools[n] = tool_from_json(doc.tools[n])
  BY DEF from_json
<1>4. ASSUME NEW n \in DOMAIN doc.tools PROVE Ends(tool_from_json(doc.tools[n]).profile)
  <2> DEFINE map == doc.tools[n]
  <2>1. Has(map, "profile")
    BY <1>1 DEF IsTool, HasFields, Has
  <2>2. IsArray(map.profile)
    BY <1>1, <2>1 DEF AreTools, AreObjects
  <2> HIDE DEF map
  <2>3. DOMAIN map.profile = 1 .. Len(map.profile) /\ Len(map.profile) \in Nat
    BY <2>2 DEF IsArray
  <2>4. IsFiniteSet(DOMAIN map.profile)
    BY <2>3, FS_Interval
  <2>5. DOMAIN tool_from_json(map).profile = DOMAIN map.profile
    BY DEF tool_from_json
  <2> QED BY <2>4, <2>5 DEF Ends, map
<1> QED BY <1>2, <1>3, <1>4

\* The tools at hand are those of a library that was read for this source.
Equipped ==
  /\ DOMAIN library \subseteq Nat /\ \A n \in DOMAIN library : Ends(library[n].profile)
  /\ resolve_tools(library)

\* With the library, what is known of the tools at hand.
ToolsInv == LibraryInv /\ (tooling = "Tooled" /\ source.tools # <<>> => Equipped)

(* At the beginning there are tools at hand only where none are wanted.        *)
LEMMA ToolsInvInit == MillInit => ToolsInv
BY LibraryInvInit DEF ToolsInv, MillInit

(* Tools are at hand once a library has been read.                             *)
LEMMA ToolsInvNext == ToolsInv /\ [MillNext]_all_vars => ToolsInv'
<1> SUFFICES ASSUME ToolsInv, [MillNext]_all_vars PROVE ToolsInv'
  OBVIOUS
<1>1. LibraryInv'
  BY LibraryInvNext DEF ToolsInv
<1>2. CASE StockStep \/ CutMotion \/ Tessellate \/ UNCHANGED all_vars
  <2>1. source' = source /\ library' = library /\ (tooling' = tooling \/ tooling = "Tooled")
    BY <1>2, StockKeepsLibrary
  <2>2. Equipped => Equipped'
    BY <2>1 DEF Equipped, resolve_tools, numbers
  <2> QED BY <1>1, <2>1, <2>2 DEF ToolsInv
<1>3. CASE Draw \/ EditLibrary
  <2>1. tooling' # "Tooled"
    BY <1>3 DEF Draw, DrawnOr, EditLibrary
  <2> QED BY <1>1, <2>1 DEF ToolsInv
<1>4. CASE ReadLibrary
  <2> DEFINE known == IF resolve_tools(from_json(document)) THEN "None" ELSE "UnknownTool"
             fault == OrElse(library_fault(document), known)
  <2>1. tooling \in {"Filed", "Edited"} /\ ReadOr(fault) /\ source' = source
    BY <1>4, Zenon DEF ReadLibrary, StockSame
  <2>2. IsDocument(document)
    BY <2>1 DEF ToolsInv, LibraryInv
  <2>3. CASE fault = "None"
    <3>1. library_fault(document) = "None" /\ resolve_tools(from_json(document))
      BY <2>3 DEF OrElse
    <3> HIDE DEF fault
    <3>2. library' = from_json(document)
      BY <2>1, <2>3, Zenon DEF ReadOr
    <3>3. IsLibrary(document)
      BY <2>2, <3>1, LibraryChecked DEF IsDocument
    <3>4. DOMAIN library' \subseteq Nat /\ \A n \in DOMAIN library' : Ends((library')[n].profile)
      BY <2>2, <3>2, <3>3, ReadIsEquipped
    <3>5. resolve_tools(library)'
      BY <2>1, <3>1, <3>2 DEF resolve_tools, numbers
    <3> QED BY <1>1, <3>4, <3>5 DEF ToolsInv, Equipped
  <2>4. CASE fault # "None"
    <3> HIDE DEF fault
    <3>1. tooling' = "Refused"
      BY <2>1, <2>4, Zenon DEF ReadOr
    <3> QED BY <1>1, <3>1 DEF ToolsInv
  <2> QED BY <2>3, <2>4
<1> QED BY <1>2, <1>3, <1>4 DEF MillNext

(* What a motion is cut by, and how.                                           *)
LEMMA MotionIsCut ==
  ASSUME ToolsInv, CutMotion, done \in Nat, NEW m, m = source.motions[done + 1]
  PROVE  IsMotion(m) /\ IsMethod(source.method) /\ Ends(profile_of(m.tool))
<1> DEFINE mine == {n \in DOMAIN library : IF source.override # None THEN library[n].id = source.override
                                          ELSE library[n].number = m.tool}
<1>1. source \in Sources /\ tooling = "Tooled" /\ done < Len(source.motions)
  BY DEF ToolsInv, LibraryInv, CutMotion
<1>2. /\ IsArray(source.motions) /\ (source.tools = <<>> => source.motions = <<>>)
      /\ IsMethod(source.method) /\ \A n \in DOMAIN source.motions : IsMotion(source.motions[n])
  BY <1>1, MotionsAssumption DEF IsMotion, IsMethod
<1>3. done + 1 \in DOMAIN source.motions /\ source.motions # <<>>
  <2>1. DOMAIN source.motions = 1 .. Len(source.motions) /\ Len(source.motions) \in Nat
    BY <1>2 DEF IsArray
  <2>2. done + 1 \in 1 .. Len(source.motions)
    BY <1>1, <2>1
  <2> QED BY <1>1, <2>1, <2>2
<1>4. Equipped
  BY <1>1, <1>2, <1>3 DEF ToolsInv
<1>5. m.tool \in numbers
  BY <1>3 DEF numbers
<1>6. mine # {} /\ mine \subseteq Nat
  BY <1>4, <1>5 DEF Equipped, resolve_tools
<1>7. Min(mine) \in mine
  <2> HIDE DEF mine
  <2> QED BY <1>6, MinIsOne
<1>8. profile_of(m.tool) = library[Min(mine)].profile
  BY DEF profile_of
<1>9. Min(mine) \in DOMAIN library
  BY <1>7
<1> QED BY <1>2, <1>3, <1>4, <1>8, <1>9 DEF Equipped

-----------------------------------------------------------------------------
\* None is not a bundle.
NoneIsNoBundle == \A l, r, q : [lattice |-> l, arena |-> r, placement |-> q] # None

\* The file is cut short, or its magic or its version is replaced.
DamagesSpoil ==
  \A d \in Damages :
    IF "keep" \in DOMAIN d THEN d.keep \in Nat
    ELSE \/ d.at = 1 /\ d.value \notin {MAGIC, TDX_MAGIC}
         \/ d.at = 2 /\ d.value \in Nat \ (1 .. 4)

\* What the theorem supposes.
Given == damaged => DamagesSpoil

\* The bundles of the first n axes: those the source asks for.
BuiltTo(n, built, axes) ==
  /\ built = [a \in 1 .. n |-> built[a]]
  /\ \A a \in 1 .. n : IF a \in axes THEN IsBundle(built[a]) ELSE built[a] = None

\* They are fields.
FieldsTo(n, built, axes) == \A a \in 1 .. n : a \in axes => IsField(built[a])

\* A bundle that is being cast.
IsCast(c) ==
  /\ c = [mesh |-> c.mesh, lattice |-> c.lattice, arena |-> c.arena]
  /\ Len(c.mesh.triangles) \in Nat /\ IsLattice(c.lattice) /\ IsArena(c.arena)

\* The bundles of the first n axes are built, the next is begun or not.
SoFar(n) ==
  /\ BuiltTo(n, bundles, source.axes) /\ FieldsTo(n, bundles, source.axes)
  /\ cast # None => n < 3 /\ n + 1 \in source.axes /\ IsCast(cast)

\* A build between its first axis and its last.
Building ==
  /\ source.kind = "mesh" /\ source.weld > 0 /\ mesh = weld(source.soup, source.weld)
  /\ \E n \in 0 .. 3 : SoFar(n)

\* A build that is done: a field on every axis the source asks for.
Complete ==
  source.kind = "mesh" /\ BuiltTo(3, bundles, source.axes) /\ FieldsTo(3, bundles, source.axes)

\* There is no file yet.
Unfiled == phase \in {"Raw", "Building", "Built", "Cut"}

\* What is known of the file from the writing on.
Filed ==
  IF phase = "Written"
  THEN field = None /\ IF damaged THEN ReadOf(file).next = 0 ELSE ReadsAs(file, AsWritten)
  ELSE ~damaged /\ field = AsWritten

\* What is known at every stage.
FileInv ==
  /\ source \in Sources /\ done \in Nat
  /\ tooling # "Tooled" \/ source.kind = "tools" => file = <<>> /\ field = None
  /\ Unfiled => file = <<>> /\ ~damaged /\ field = None /\ source.kind # "field"
  /\ phase = "Raw" => bundles = <<>> /\ cast = None
  /\ phase = "Building" => Building
  /\ phase \in {"Built", "Cut"} => Complete
  /\ phase \in {"Written", "Read", "ReadSingle", "Sweeping", "Extracted"} => (Given => Filed)
  /\ Given => FilesReadBack

(* A field comes in its file.                                                 *)
LEMMA FileInvInit == MillInit => FileInv
<1> SUFFICES ASSUME MillInit PROVE FileInv
  OBVIOUS
<1>1. /\ source \in Sources /\ done = 0 /\ field = None /\ damaged = FALSE /\ cast = None /\ bundles = <<>>
      /\ phase = (IF source.kind = "field" THEN "Written" ELSE "Raw")
      /\ file = (IF source.kind = "field" THEN write_tri(source.tri, source.version) ELSE <<>>)
      /\ tooling = (IF source.tools = <<>> THEN "Tooled" ELSE "Drawing")
  BY DEF MillInit, Init
<1>2. CASE source.kind # "field"
  BY <1>1, <1>2 DEF FileInv, Unfiled, FilesReadBack
<1>3. CASE source.kind = "field"
  <2>1. source.version \in 1 .. 4 /\ IsTri(source.tri) /\ source.tools = <<>>
    BY <1>1, <1>3, FieldsAssumption, KindsAssumption DEF FORMAT_VERSION
  <2>2. source.version < 4 => \A a \in 1 .. 3 : source.tri.bundles[a] # None =>
          source.tri.bundles[a].lattice.spacing[1] = source.tri.bundles[a].lattice.spacing[2]
    BY <1>1, <1>3, FieldsAssumption
  <2>3. ReadsAs(write_tri(source.tri, source.version),
                IF source.version >= 3 THEN source.tri ELSE Blanked(source.tri))
    BY <2>1, <2>2, TriReadsBack
  <2>4. AsWritten = IF source.version >= 3 THEN source.tri ELSE Blanked(source.tri)
    BY <1>3 DEF AsWritten, Blanked
  <2>5. ReadsAs(file, AsWritten)
    BY <1>1, <1>3, <2>3, <2>4
  <2> QED BY <1>1, <1>3, <2>1, <2>5 DEF FileInv, Unfiled, FilesReadBack, Filed
<1> QED BY <1>2, <1>3

(* What a library or a tool does leaves the stock as it is.                   *)
LEMMA FileInvAside ==
  ASSUME FileInv, StockSame, done' = done, tooling # "Tooled" \/ source.kind = "tools",
         phase' = phase \/ phase' = "Refused"
  PROVE  FileInv'
<1>1. /\ source' = source /\ mesh' = mesh /\ bundles' = bundles /\ cast' = cast /\ file' = file
      /\ damaged' = damaged /\ field' = field /\ file = <<>> /\ field = None
  BY DEF FileInv, StockSame
<1>2. FilesReadBack'
  BY <1>1 DEF FilesReadBack
<1>3. CASE phase' = "Refused"
  BY <1>1, <1>2, <1>3 DEF FileInv, Unfiled
<1>4. CASE phase' = phase
  <2>1. /\ Building => Building'
        /\ Complete => Complete'
        /\ Unfiled => Unfiled'
        /\ Unfiled' => Unfiled
        /\ Filed => Filed'
        /\ Given' => Given
    BY <1>1, <1>4 DEF Building, SoFar, Complete, Unfiled, Filed, AsWritten, Provenance, Given
  <2> QED BY <1>1, <1>2, <1>4, <2>1 DEF FileInv
<1> QED BY <1>3, <1>4

(* A refusal before there is a file.                                          *)
LEMMA FileInvRefused ==
  ASSUME FileInv, Unfiled, source' = source, file' = file, field' = field, done' = done, phase' = "Refused"
  PROVE  FileInv'
<1>1. FilesReadBack'
  BY DEF FileInv, FilesReadBack
<1> QED BY <1>1 DEF FileInv, Unfiled

(* The mesh that is welded, the axis that is skipped.                         *)
LEMMA FileInvWeld ==
  ASSUME FileInv, Weld, UNCHANGED tool_vars, tooling = "Tooled", source.kind # "tools"
  PROVE  FileInv'
<1>1. /\ phase = "Raw" /\ Unfiled /\ file = <<>> /\ ~damaged /\ field = None /\ source.kind # "field"
      /\ bundles = <<>> /\ cast = None /\ source \in Sources /\ done \in Nat
  BY DEF FileInv, Weld, Unfiled
<1>2. /\ source' = source /\ file' = file /\ damaged' = damaged /\ field' = field /\ bundles' = bundles
      /\ cast' = cast /\ done' = done /\ tooling' = tooling
  BY DEF Weld, tool_vars
<1>3. CASE source.weld <= 0
  <2>1. phase' = "Refused"
    BY <1>3 DEF Weld, Refuse
  <2> QED BY <1>1, <1>2, <2>1, FileInvRefused
<1>4. CASE ~(source.weld <= 0)
  <2>1. phase' = "Building" /\ mesh' = weld(source.soup, source.weld)
    BY <1>4 DEF Weld
  <2>2. source.kind = "mesh" /\ source.weld \in Int
    BY <1>1, KindsAssumption, MeshesAssumption
  <2>3. SoFar(0)'
    BY <1>1, <1>2 DEF SoFar, BuiltTo, FieldsTo
  <2>4. Building'
    BY <1>2, <1>4, <2>1, <2>2, <2>3 DEF Building
  <2> QED BY <1>1, <1>2, <2>1, <2>4 DEF FileInv, Unfiled, FilesReadBack
<1> QED BY <1>3, <1>4

\* A build that goes on.
GoesOn ==
  /\ phase' = "Building" /\ \E n \in 0 .. 3 : SoFar(n)'
  /\ UNCHANGED <<source, mesh, file, damaged, field, tooling, done>>

(* A build that goes on is one.                                               *)
LEMMA FileInvGoesOn ==
  ASSUME FileInv, phase = "Building", GoesOn, source.kind # "tools"
  PROVE  FileInv'
<1>1. /\ Unfiled /\ file = <<>> /\ ~damaged /\ field = None /\ source.kind # "field"
      /\ source \in Sources /\ done \in Nat /\ Building
  BY DEF FileInv, Unfiled
<1>2. Building'
  BY <1>1 DEF Building, GoesOn
<1> QED BY <1>1, <1>2 DEF FileInv, Unfiled, FilesReadBack, GoesOn

(* There are as many bundles as axes were done.                               *)
LEMMA SoFarLength ==
  ASSUME NEW n \in 0 .. 3, SoFar(n)
  PROVE  Len(bundles) = n /\ axis = n + 1
<1>1. bundles = [a \in 1 .. n |-> bundles[a]]
  BY DEF SoFar, BuiltTo
<1>2. Len(bundles) = n
  BY <1>1, PutBehind
<1> QED BY <1>2 DEF axis

(* An axis the source does not ask for is passed over.                        *)
LEMMA FileInvSkip ==
  ASSUME FileInv, SkipAxis, UNCHANGED tool_vars, source.kind # "tools"
  PROVE  FileInv'
<1>1. phase = "Building" /\ cast = None /\ axis <= 3 /\ axis \notin source.axes /\ Building
  BY DEF SkipAxis, Waiting, FileInv
<1>2. PICK n \in 0 .. 3 : SoFar(n)
  BY <1>1 DEF Building
<1>3. Len(bundles) = n /\ axis = n + 1
  BY <1>2, SoFarLength
<1>4. n + 1 \in 0 .. 3 /\ n + 1 \notin source.axes /\ n \in Nat
  BY <1>1, <1>3
<1>5. /\ bundles = [a \in 1 .. n |-> bundles[a]]
      /\ \A a \in 1 .. n : IF a \in source.axes THEN IsBundle(bundles[a]) ELSE bundles[a] = None
      /\ \A a \in 1 .. n : a \in source.axes => IsField(bundles[a])
  BY <1>2 DEF SoFar, BuiltTo, FieldsTo
<1>6. bundles' = Append(bundles, None) /\ source' = source /\ cast' = cast /\ phase' = phase
  BY DEF SkipAxis
<1>7. bundles' = [a \in 1 .. n + 1 |-> IF a = n + 1 THEN None ELSE bundles[a]]
  BY <1>4, <1>5, <1>6, PutBehind
<1>8. \A a \in 1 .. n + 1 : bundles'[a] = IF a = n + 1 THEN None ELSE bundles[a]
  BY <1>7
<1>9. bundles' = [a \in 1 .. n + 1 |-> bundles'[a]]
  BY <1>7
<1>10. \A a \in 1 .. n + 1 : a # n + 1 => a \in 1 .. n
  BY <1>4
<1>11. SoFar(n + 1)'
  BY <1>1, <1>4, <1>5, <1>6, <1>8, <1>9, <1>10 DEF SoFar, BuiltTo, FieldsTo
<1>12. GoesOn
  BY <1>1, <1>4, <1>6, <1>11 DEF GoesOn, SkipAxis, tool_vars
<1> QED BY <1>1, <1>12, FileInvGoesOn

(* A bundle that is begun.                                                    *)
LEMMA FileInvBegin ==
  ASSUME FileInv, Begin, UNCHANGED tool_vars, source.kind # "tools"
  PROVE  FileInv'
<1> DEFINE placed == place(drop_degenerate(mesh), source.placement)
           l == LatticeFor(placed)
<1>1. phase = "Building" /\ cast = None /\ axis <= 3 /\ axis \in source.axes /\ Building /\ source \in Sources
  BY DEF Begin, Waiting, FileInv
<1>2. PICK n \in 0 .. 3 : SoFar(n)
  BY <1>1 DEF Building
<1>3. Len(bundles) = n /\ axis = n + 1
  BY <1>2, SoFarLength
<1>4. UNCHANGED <<source, mesh, bundles, file, damaged, field, tooling, done>>
  BY DEF Begin, tool_vars
<1>5. \/ phase' = "Refused"
      \/ cast' = [mesh |-> placed, lattice |-> l, arena |-> <<>>] /\ phase' = phase
  BY DEF Begin, Refuse
<1>6. CASE phase' = "Refused"
  <2>1. Unfiled
    BY <1>1 DEF Unfiled
  <2> QED BY <1>4, <1>6, <2>1, FileInvRefused
<1>7. CASE cast' = [mesh |-> placed, lattice |-> l, arena |-> <<>>] /\ phase' = phase
  <2>1. Len(placed.triangles) \in Nat
    <3>1. source.soup.triangles \in Seq([1 .. 3 -> DOMAIN source.soup.vertices]) /\ mesh = weld(source.soup, source.weld)
      <4>1. source.kind = "mesh" /\ source.weld > 0 /\ mesh = weld(source.soup, source.weld)
        BY <1>1 DEF Building
      <4>2. StandsFor(source.soup, source.facets, source.weld)
        BY <1>1, <4>1, MeshesAssumption
      <4> QED BY <4>1, <4>2 DEF StandsFor
    <3> QED BY <3>1, PlacedTyped
  <2>2. IsLattice(l)
    <3>1. axis \in 1 .. 3
      BY <1>1, <1>3
    <3> QED BY <3>1, AnisotropicTyped DEF LatticeFor
  <2>3. IsArena(<<>>)
    <3>1. <<>> = [r \in 1 .. 0 |-> <<>>[r]] /\ Len(<<>>) = 0
      OBVIOUS
    <3> QED BY <3>1 DEF IsArena
  <2> HIDE DEF placed, l
  <2>4. IsCast(cast')
    BY <1>7, <2>1, <2>2, <2>3 DEF IsCast
  <2>5. SoFar(n)'
    BY <1>1, <1>2, <1>3, <1>4, <2>4 DEF SoFar
  <2>6. GoesOn
    BY <1>1, <1>4, <1>7, <2>5 DEF GoesOn
  <2> QED BY <1>1, <2>6, FileInvGoesOn
<1> QED BY <1>5, <1>6, <1>7

(* The spans of one ray more.                                                 *)
LEMMA ArenaGrows ==
  ASSUME NEW arena, IsArena(arena), NEW spans, IsSpanList(spans)
  PROVE  IsArena(Append(arena, spans))
<1> DEFINE n == Len(arena)
           new == Append(arena, spans)
<1>1. n \in Nat /\ arena = [r \in 1 .. n |-> arena[r]] /\ \A r \in 1 .. n : IsSpanList(arena[r])
  BY DEF IsArena
<1> HIDE DEF n
<1>2. new = [a \in 1 .. n + 1 |-> IF a = n + 1 THEN spans ELSE arena[a]]
  BY <1>1, PutBehind
<1>3. new = [a \in 1 .. n + 1 |-> new[a]]
  BY <1>2
<1>4. \A a \in 1 .. n + 1 : new[a] = IF a = n + 1 THEN spans ELSE arena[a]
  BY <1>2
<1> HIDE DEF new
<1>5. n + 1 \in Nat
  BY <1>1
<1>6. Len(new) = n + 1
  BY <1>3, <1>5, PutBehind
<1>7. \A a \in 1 .. n + 1 : a # n + 1 => a \in 1 .. n
  BY <1>1
<1>8. \A a \in 1 .. n + 1 : IsSpanList(new[a])
  BY <1>1, <1>4, <1>7
<1> QED BY <1>3, <1>5, <1>6, <1>8 DEF IsArena, new

(* A ray that is cast, the last of a bundle too.                              *)
LEMMA FileInvCast ==
  ASSUME FileInv, CastRay, UNCHANGED tool_vars, source.kind # "tools"
  PROVE  FileInv'
<1> DEFINE ray == ray_at(cast.lattice, Len(cast.arena))
           seen == intersect_ray_all(cast.mesh, ray)
           spans == SpansOf(cast.mesh, seen.hits)
           arena == Append(cast.arena, spans)
           bundle == [lattice |-> cast.lattice, arena |-> arena, placement |-> source.placement]
<1>1. phase = "Building" /\ cast # None /\ Building
  BY DEF CastRay, FileInv
<1>2. PICK n \in 0 .. 3 : SoFar(n)
  BY <1>1 DEF Building
<1>3. n < 3 /\ n + 1 \in source.axes /\ IsCast(cast) /\ n \in Nat /\ n + 1 \in 0 .. 3
  BY <1>1, <1>2 DEF SoFar
<1>4. UNCHANGED <<source, mesh, file, damaged, field, tooling, done>>
  BY DEF CastRay, tool_vars
<1>5. \/ phase' = "Refused"
      \/ /\ phase' = phase
         /\ \/ /\ Len(arena) = ray_count(cast.lattice)
               /\ bundles' = Append(bundles, bundle) /\ cast' = None
            \/ cast' = [cast EXCEPT !.arena = arena] /\ bundles' = bundles
  <2>1. \E s \in {seen} :
          IF Refusal(s) # "None" THEN Refuse(Refusal(s)) /\ UNCHANGED <<bundles, cast>>
          ELSE \E new \in {Append(cast.arena, SpansOf(cast.mesh, s.hits))} :
                 /\ IF Len(new) = ray_count(cast.lattice)
                    THEN /\ bundles' = Append(bundles, [lattice |-> cast.lattice, arena |-> new,
                                                        placement |-> source.placement])
                         /\ cast' = None
                    ELSE cast' = [cast EXCEPT !.arena = new] /\ UNCHANGED bundles
                 /\ UNCHANGED <<phase, why>>
    BY Zenon DEF CastRay
  <2> HIDE DEF seen
  <2>2. CASE Refusal(seen) # "None"
    <3>1. Refuse(Refusal(seen))
      BY <2>1, <2>2
    <3> QED BY <3>1 DEF Refuse
  <2>3. CASE ~(Refusal(seen) # "None")
    <3>1. /\ IF Len(arena) = ray_count(cast.lattice)
             THEN /\ bundles' = Append(bundles, bundle)
                  /\ cast' = None
             ELSE cast' = [cast EXCEPT !.arena = arena] /\ UNCHANGED bundles
          /\ UNCHANGED <<phase, why>>
      BY <2>1, <2>3
    <3> HIDE DEF arena, bundle
    <3> QED BY <3>1
  <2> QED BY <2>2, <2>3
<1>6. CASE phase' = "Refused"
  <2>1. Unfiled
    BY <1>1 DEF Unfiled
  <2> QED BY <1>4, <1>6, <2>1, FileInvRefused
<1>7. IsArena(arena)
  <2>1. Len(cast.mesh.triangles) \in Nat /\ IsArena(cast.arena)
    BY <1>3 DEF IsCast
  <2>2. Len(seen.hits) \in Nat
    BY <2>1, CastTyped
  <2> HIDE DEF seen
  <2>3. IsSpanList(spans)
    BY <2>2, SpansOfTyped
  <2> HIDE DEF spans
  <2> QED BY <2>1, <2>3, ArenaGrows
<1>8. IsLattice(cast.lattice)
  BY <1>3 DEF IsCast
<1> HIDE DEF arena
<1>9. CASE cast' = [cast EXCEPT !.arena = arena] /\ bundles' = bundles /\ phase' = phase
  <2>1. IsCast(cast')
    <3>1. cast = [mesh |-> cast.mesh, lattice |-> cast.lattice, arena |-> cast.arena]
      BY <1>3 DEF IsCast
    <3>2. cast' = [mesh |-> cast.mesh, lattice |-> cast.lattice, arena |-> arena]
      BY <1>9, <3>1
    <3>3. Len(cast.mesh.triangles) \in Nat
      BY <1>3 DEF IsCast
    <3> QED BY <1>7, <1>8, <3>2, <3>3 DEF IsCast
  <2>2. SoFar(n)'
    BY <1>2, <1>3, <1>4, <1>9, <2>1 DEF SoFar
  <2>3. GoesOn
    BY <1>1, <1>4, <1>9, <2>2 DEF GoesOn
  <2> QED BY <1>1, <2>3, FileInvGoesOn
<1>10. CASE /\ Len(arena) = ray_count(cast.lattice)
            /\ bundles' = Append(bundles, bundle) /\ cast' = None /\ phase' = phase
  <2>1. IsField(bundle) /\ IsBundle(bundle)
    <3>1. bundle.lattice = cast.lattice /\ bundle.arena = arena
      OBVIOUS
    <3>2. IsBundle(bundle)
      BY DEF IsBundle
    <3> HIDE DEF bundle
    <3> QED BY <1>7, <1>8, <1>10, <3>1, <3>2 DEF IsField, IsBundle, IsLattice, IsArena
  <2> HIDE DEF bundle
  <2>2. /\ bundles = [a \in 1 .. n |-> bundles[a]]
        /\ \A a \in 1 .. n : IF a \in source.axes THEN IsBundle(bundles[a]) ELSE bundles[a] = None
        /\ \A a \in 1 .. n : a \in source.axes => IsField(bundles[a])
    BY <1>2 DEF SoFar, BuiltTo, FieldsTo
  <2>3. bundles' = [a \in 1 .. n + 1 |-> IF a = n + 1 THEN bundle ELSE bundles[a]]
    BY <1>3, <1>10, <2>2, PutBehind
  <2>4. \A a \in 1 .. n + 1 : bundles'[a] = IF a = n + 1 THEN bundle ELSE bundles[a]
    BY <2>3
  <2>5. bundles' = [a \in 1 .. n + 1 |-> bundles'[a]]
    BY <2>3
  <2>6. \A a \in 1 .. n + 1 : a # n + 1 => a \in 1 .. n
    BY <1>3
  <2>7. SoFar(n + 1)'
    BY <1>3, <1>4, <1>10, <2>1, <2>2, <2>4, <2>5, <2>6 DEF SoFar, BuiltTo, FieldsTo
  <2>8. GoesOn
    BY <1>1, <1>3, <1>4, <1>10, <2>7 DEF GoesOn
  <2> QED BY <1>1, <2>8, FileInvGoesOn
<1> HIDE DEF bundle
<1> QED BY <1>5, <1>6, <1>9, <1>10

(* Three bundles that agree about their corners, or do not.                   *)
LEMMA FileInvRegister ==
  ASSUME FileInv, Register, UNCHANGED tool_vars, source.kind # "tools"
  PROVE  FileInv'
<1>1. /\ phase = "Building" /\ axis = 4 /\ Building /\ Unfiled
      /\ file = <<>> /\ ~damaged /\ field = None /\ source.kind # "field" /\ source \in Sources /\ done \in Nat
  BY DEF Register, FileInv, Unfiled
<1>2. PICK n \in 0 .. 3 : SoFar(n)
  BY <1>1 DEF Building
<1>3. n = 3
  BY <1>1, <1>2, SoFarLength
<1>4. UNCHANGED <<source, mesh, bundles, cast, file, damaged, field, tooling, done>>
  BY DEF Register, tool_vars
<1>5. phase' \in {"Built", "Refused"}
  BY DEF Register, Refuse
<1>6. CASE phase' = "Refused"
  BY <1>1, <1>4, <1>6, FileInvRefused
<1>7. CASE phase' = "Built"
  <2>1. BuiltTo(3, bundles, source.axes) /\ FieldsTo(3, bundles, source.axes) /\ source.kind = "mesh"
    BY <1>1, <1>2, <1>3 DEF SoFar, Building
  <2>2. Complete'
    BY <1>4, <1>7, <2>1 DEF Complete
  <2> QED BY <1>1, <1>4, <1>7, <2>2 DEF FileInv, Unfiled, FilesReadBack
<1> QED BY <1>5, <1>6, <1>7

(* A motion cut into what was built.                                          *)
LEMMA FileInvCut ==
  ASSUME NoneIsNoBundle, FileInv, ToolsInv, CutMotion
  PROVE  FileInv'
<1> DEFINE m == source.motions[done + 1]
           elements == profile_of(m.tool)
           Of(b) == cut_bundle(b, elements, source.method, m)
<1>1. /\ phase \in {"Built", "Cut"} /\ Complete /\ Unfiled
      /\ file = <<>> /\ ~damaged /\ field = None /\ source.kind # "field" /\ source \in Sources /\ done \in Nat
  BY DEF CutMotion, FileInv, Unfiled
<1>2. /\ UNCHANGED <<source, mesh, cast, file, damaged, field, tooling>>
      /\ done' = done + 1 /\ phase' = "Cut"
  BY DEF CutMotion
<1>3. bundles' = [a \in 1 .. 3 |-> IF bundles[a] = None THEN None ELSE Of(bundles[a])]
  BY Zenon DEF CutMotion
<1>4. BuiltTo(3, bundles, source.axes) /\ FieldsTo(3, bundles, source.axes) /\ source.kind = "mesh"
  BY <1>1 DEF Complete
<1>5. IsMotion(m) /\ IsMethod(source.method) /\ Ends(elements)
  BY <1>1, MotionIsCut
<1> HIDE DEF m, elements
<1>6. ASSUME NEW b, IsField(b) PROVE IsField(Of(b)) /\ IsBundle(Of(b)) /\ b # None
  <2>1. IsField(Of(b))
    BY <1>5, <1>6, CutLeavesField
  <2> HIDE DEF Of
  <2>2. IsBundle(Of(b))
    BY <2>1 DEF IsField, IsBundle
  <2>3. b # None
    BY <1>6 DEF IsField, NoneIsNoBundle
  <2> QED BY <2>1, <2>2, <2>3
<1> HIDE DEF Of
<1>7. \A a \in 1 .. 3 : bundles'[a] = IF bundles[a] = None THEN None ELSE Of(bundles[a])
  BY <1>3
<1>8. bundles' = [a \in 1 .. 3 |-> bundles'[a]]
  BY <1>3
<1>9. \A a \in 1 .. 3 : IF a \in source.axes THEN IsField(bundles[a]) ELSE bundles[a] = None
  BY <1>4 DEF BuiltTo, FieldsTo
<1>10. \A a \in 1 .. 3 : IF a \in source.axes THEN IsField(bundles'[a]) /\ IsBundle(bundles'[a])
                                             ELSE bundles'[a] = None
  BY <1>6, <1>7, <1>9
<1>11. Complete'
  BY <1>2, <1>4, <1>8, <1>10 DEF Complete, BuiltTo, FieldsTo
<1>12. tooling = "Tooled"
  BY DEF CutMotion
<1> QED BY <1>1, <1>2, <1>11, <1>12 DEF FileInv, Unfiled, FilesReadBack

(* The field that is written, as it was built or cut.                         *)
LEMMA FileInvWrite ==
  ASSUME NoneIsNoBundle, FileInv, Write, UNCHANGED tool_vars, source.kind # "tools", tooling = "Tooled"
  PROVE  FileInv'
<1> DEFINE built == {a \in 1 .. 3 : bundles[a] # None}
           tri == [provenance |-> Provenance, bundles |-> bundles]
<1>1. /\ phase \in {"Built", "Cut"} /\ Complete /\ Unfiled
      /\ file = <<>> /\ ~damaged /\ field = None /\ source.kind # "field" /\ source \in Sources /\ done \in Nat
  BY DEF Write, FileInv, Unfiled
<1>2. /\ UNCHANGED <<source, mesh, bundles, damaged, field, tooling, done>>
      /\ phase' = "Written"
  BY DEF Write, tool_vars
<1>3. file' = IF Cardinality(built) > 1 THEN write_tri(tri, FORMAT_VERSION)
              ELSE write(bundles[Min(built)], FORMAT_VERSION)
  BY DEF Write
<1>4. BuiltTo(3, bundles, source.axes) /\ source.kind = "mesh"
  BY <1>1 DEF Complete
<1>5. source.axes \subseteq 1 .. 3 /\ source.axes # {}
  BY <1>1, <1>4, FieldsAssumption
<1>6. built = source.axes
  <2>1. ASSUME NEW b, IsBundle(b) PROVE b # None
    BY <2>1 DEF IsBundle, NoneIsNoBundle
  <2>2. \A a \in 1 .. 3 : IF a \in source.axes THEN IsBundle(bundles[a]) ELSE bundles[a] = None
    BY <1>4 DEF BuiltTo
  <2>3. \A a \in 1 .. 3 : a \in source.axes <=> bundles[a] # None
    BY <2>1, <2>2
  <2> QED BY <1>5, <2>3
<1>8. ReadsAs(file', AsWritten)
  <2>1. \A a \in 1 .. 3 : bundles[a] = None \/ IsField(bundles[a])
    <3>1. \A a \in 1 .. 3 : a \in source.axes => IsField(bundles[a])
      BY <1>1 DEF Complete, FieldsTo
    <3> QED BY <3>1, <1>6
  <2>2. AsWritten = IF Cardinality(built) > 1 THEN tri ELSE bundles[Min(built)]
    BY <1>4, <1>6 DEF AsWritten
  <2>3. CASE Cardinality(built) > 1
    <3>1. IsTri(tri)
      <4>1. bundles = [a \in 1 .. 3 |-> bundles[a]]
        BY <1>4 DEF BuiltTo
      <4>2. tri.bundles = bundles /\ tri = [provenance |-> tri.provenance, bundles |-> bundles]
        OBVIOUS
      <4> HIDE DEF tri
      <4> QED BY <2>1, <4>1, <4>2 DEF IsTri
    <3> HIDE DEF tri
    <3>2. FORMAT_VERSION \in 1 .. 4 /\ FORMAT_VERSION >= 3 /\ ~(FORMAT_VERSION < 4)
      BY DEF FORMAT_VERSION
    <3>3. ReadsAs(write_tri(tri, FORMAT_VERSION), IF FORMAT_VERSION >= 3 THEN tri ELSE Blanked(tri))
      BY <3>1, <3>2, TriReadsBack
    <3>4. ReadsAs(write_tri(tri, FORMAT_VERSION), tri)
      BY <3>2, <3>3
    <3> QED BY <1>3, <2>2, <2>3, <3>4
  <2>4. CASE ~(Cardinality(built) > 1)
    <3>1. Min(built) \in built
      BY <1>5, <1>6, MinIsOne
    <3>2. IsField(bundles[Min(built)])
      BY <2>1, <3>1
    <3>3. ReadsAs(write(bundles[Min(built)], FORMAT_VERSION), bundles[Min(built)])
      BY <3>2, FieldReadsBack
    <3> QED BY <1>3, <2>2, <2>4, <3>3
  <2> QED BY <2>3, <2>4
<1>9. AsWritten' = AsWritten
  BY <1>2 DEF AsWritten, Provenance
<1>10. Filed'
  BY <1>1, <1>2, <1>8, <1>9 DEF Filed
<1> QED BY <1>1, <1>2, <1>10 DEF FileInv, Unfiled, FilesReadBack

\* The file is written.
AfterWriting == phase \in {"Written", "Read", "ReadSingle", "Sweeping", "Extracted"}

\* What a step behind the writing leaves.
Kept ==
  /\ UNCHANGED <<source, mesh, bundles, done, tooling>>
  /\ phase' \in {"Written", "Read", "ReadSingle", "Sweeping", "Extracted", "Refused"}
  /\ damaged => damaged'

(* A step behind the writing.                                                 *)
LEMMA FileInvBehind ==
  ASSUME FileInv, AfterWriting, Kept, tooling = "Tooled", source.kind # "tools",
         (Given' /\ Filed /\ FilesReadBack /\ AsWritten' = AsWritten)
           => FilesReadBack' /\ (phase' # "Refused" => Filed')
  PROVE  FileInv'
<1>1. (Given' => Given) /\ AsWritten' = AsWritten
  BY DEF Kept, Given, AsWritten, Provenance
<1>2. Given => Filed /\ FilesReadBack
  BY DEF FileInv, AfterWriting
<1>3. source \in Sources /\ done \in Nat
  BY DEF FileInv
<1> QED BY <1>1, <1>2, <1>3 DEF FileInv, Unfiled, Kept

(* A file that is damaged.                                                    *)
LEMMA FileInvDamage ==
  ASSUME FileInv, Damage, UNCHANGED tool_vars, tooling = "Tooled", source.kind # "tools"
  PROVE  FileInv'
<1>1. phase = "Written" /\ ~damaged /\ AfterWriting
  BY DEF Damage, AfterWriting
<1>2. phase' = phase /\ field' = field /\ damaged' /\ why' = why /\ Kept
  BY <1>1 DEF Damage, tool_vars, Kept
<1>3. PICK d \in Damages :
        IF "keep" \in DOMAIN d
        THEN d.keep < Len(file) /\ file' = SubSeq(file, 1, d.keep)
        ELSE d.at <= Len(file) /\ file[d.at] # d.value /\ file' = [file EXCEPT ![d.at] = d.value]
  BY DEF Damage
<1>4. ASSUME DamagesSpoil PROVE Spoils(file', file)
  <2>1. CASE "keep" \in DOMAIN d
    BY <1>3, <1>4, <2>1 DEF DamagesSpoil, Spoils
  <2>2. CASE "keep" \notin DOMAIN d
    <3>1. file' = [file EXCEPT ![d.at] = d.value]
      BY <1>3, <2>2
    <3>2. CASE d.at = 1 /\ d.value \notin {MAGIC, TDX_MAGIC}
      BY <3>1, <3>2 DEF Spoils
    <3>3. CASE d.at = 2 /\ d.value \in Nat \ (1 .. 4)
      BY <3>1, <3>3 DEF Spoils
    <3> QED BY <1>4, <2>2, <3>2, <3>3 DEF DamagesSpoil
  <2> QED BY <2>1, <2>2
<1>5. ASSUME Given', Filed, FilesReadBack PROVE FilesReadBack' /\ Filed'
  <2>1. ReadsAs(file, AsWritten) /\ field = None
    BY <1>1, <1>5 DEF Filed
  <2>0. DamagesSpoil
    BY <1>2, <1>5 DEF Given
  <2>2. ReadOf(file').next = 0
    BY <1>4, <2>0, <2>1 DEF ReadsAs, Told
  <2> QED BY <1>1, <1>2, <2>1, <2>2 DEF Filed, FilesReadBack
<1> QED BY <1>1, <1>2, <1>5, FileInvBehind

(* A file that is read.                                                       *)
LEMMA FileInvRead ==
  ASSUME FileInv, Read, UNCHANGED tool_vars, tooling = "Tooled", source.kind # "tools"
  PROVE  FileInv'
<1>1. phase = "Written" /\ AfterWriting /\ damaged' = damaged /\ file' = file
  BY DEF Read, AfterWriting
<1>2. IF ReadOf(file).next = 0 THEN Refuse(ReadOf(file).got) /\ UNCHANGED field
      ELSE /\ field' = ReadOf(file).got
           /\ phase' = IF detect(file) = "Tri" THEN "Read" ELSE "ReadSingle"
           /\ UNCHANGED why
  <2> DEFINE k == detect(file)
             r == IF k = "Tri" THEN read_tri(file)
                  ELSE IF k = "Single" THEN read(file, 1) ELSE Failed("NotAField")
  <2>1. IF r.next = 0 THEN Refuse(r.got) /\ UNCHANGED field
        ELSE /\ field' = r.got
             /\ phase' = IF k = "Tri" THEN "Read" ELSE "ReadSingle"
             /\ UNCHANGED why
    BY DEF Read
  <2>2. r = ReadOf(file)
    BY Zenon DEF ReadOf
  <2> HIDE DEF r
  <2> QED BY <2>1, <2>2
<1>3. Kept
  <2>1. phase' \in {"Read", "ReadSingle", "Refused"}
    BY <1>2 DEF Refuse
  <2> QED BY <2>1 DEF Read, tool_vars, Kept
<1>4. ASSUME Filed, FilesReadBack, AsWritten' = AsWritten PROVE FilesReadBack' /\ (phase' # "Refused" => Filed')
  <2>1. field = None /\ IF damaged THEN ReadOf(file).next = 0 ELSE ReadsAs(file, AsWritten)
    BY <1>1, <1>4 DEF Filed
  <2>2. CASE damaged
    <3>1. phase' = "Refused" /\ field' = None
      BY <1>2, <2>1, <2>2 DEF Refuse
    <3> QED BY <1>1, <2>2, <3>1 DEF FilesReadBack
  <2>3. CASE ~damaged
    <3>1. ReadOf(file).next # 0 /\ ReadOf(file).got = AsWritten
      BY <2>1, <2>3 DEF ReadsAs
    <3>2. field' = AsWritten /\ phase' \in {"Read", "ReadSingle"}
      BY <1>2, <3>1
    <3> QED BY <1>1, <1>4, <2>3, <3>2 DEF Filed, FilesReadBack
  <2> QED BY <2>2, <2>3
<1> QED BY <1>1, <1>3, <1>4, FileInvBehind

(* What is made of the field that was read.                                   *)
LEMMA FileInvSweep ==
  ASSUME FileInv, StartSweep \/ SweepSlab \/ Extracted, UNCHANGED tool_vars,
         tooling = "Tooled", source.kind # "tools"
  PROVE  FileInv'
<1>1. phase \in {"Read", "ReadSingle", "Sweeping"} /\ AfterWriting
  BY DEF StartSweep, SweepSlab, Extracted, AfterWriting
<1>2. /\ UNCHANGED <<source, mesh, bundles, file, damaged, field>>
      /\ \/ phase' \in {"Sweeping", "Extracted"}
         \/ phase' = "Refused" /\ why' \in {"SingleBundle", "MissingBundle"}
  <2>1. CASE StartSweep
    BY <2>1 DEF StartSweep, Refuse
  <2>2. CASE SweepSlab
    BY <2>2 DEF SweepSlab
  <2>3. CASE Extracted
    BY <2>3 DEF Extracted
  <2> QED BY <2>1, <2>2, <2>3
<1>3. Kept
  BY <1>2 DEF Kept, tool_vars
<1>4. ASSUME Filed, FilesReadBack, AsWritten' = AsWritten PROVE FilesReadBack' /\ (phase' # "Refused" => Filed')
  <2>1. ~damaged /\ field = AsWritten
    BY <1>1, <1>4 DEF Filed
  <2> QED BY <1>2, <1>4, <2>1 DEF Filed, FilesReadBack
<1> QED BY <1>1, <1>3, <1>4, FileInvBehind

(* Every step keeps the invariant.                                            *)
LEMMA FileInvNext ==
  ASSUME NoneIsNoBundle
  PROVE  ToolsInv /\ FileInv /\ [MillNext]_all_vars => FileInv'
<1> SUFFICES ASSUME ToolsInv, FileInv, [MillNext]_all_vars PROVE FileInv'
  OBVIOUS
<1>1. CASE UNCHANGED all_vars
  <2>1. /\ Building => Building'
        /\ Complete => Complete'
        /\ Unfiled' => Unfiled
        /\ Filed => Filed'
        /\ Given' => Given
        /\ FilesReadBack => FilesReadBack'
    BY <1>1 DEF all_vars, vars, tool_vars, Building, SoFar, Complete, Unfiled, Filed, AsWritten, Provenance,
                Given, FilesReadBack
  <2>2. /\ source' = source /\ done' = done /\ tooling' = tooling /\ file' = file /\ field' = field
        /\ phase' = phase /\ bundles' = bundles /\ cast' = cast /\ damaged' = damaged
    BY <1>1 DEF all_vars, vars, tool_vars
  <2> QED BY <2>1, <2>2 DEF FileInv
<1>2. CASE StockStep
  <2>1. tooling = "Tooled" /\ source.kind # "tools" /\ UNCHANGED tool_vars
    BY <1>2 DEF StockStep
  <2>2. CASE Weld
    BY <2>1, <2>2, FileInvWeld
  <2>3. CASE SkipAxis
    BY <2>1, <2>3, FileInvSkip
  <2>4. CASE Begin
    BY <2>1, <2>4, FileInvBegin
  <2>5. CASE CastRay
    BY <2>1, <2>5, FileInvCast
  <2>6. CASE Register
    BY <2>1, <2>6, FileInvRegister
  <2>7. CASE Write
    BY <2>1, <2>7, FileInvWrite
  <2>8. CASE Damage
    BY <2>1, <2>8, FileInvDamage
  <2>9. CASE Read
    BY <2>1, <2>9, FileInvRead
  <2>10. CASE StartSweep \/ SweepSlab \/ Extracted
    BY <2>1, <2>10, FileInvSweep
  <2> QED BY <1>2, <2>2, <2>3, <2>4, <2>5, <2>6, <2>7, <2>8, <2>9, <2>10 DEF StockStep
<1>3. CASE Draw \/ EditLibrary \/ ReadLibrary
  <2>1. /\ tooling # "Tooled" /\ StockSame /\ done' = done
        /\ phase' = phase \/ phase' = "Refused"
    <3>1. CASE Draw
      BY <3>1 DEF Draw, DrawnOr, Refuse
    <3>2. CASE EditLibrary
      BY <3>2 DEF EditLibrary
    <3>3. CASE ReadLibrary
      BY <3>3 DEF ReadLibrary, ReadOr, Refuse
    <3> QED BY <1>3, <3>1, <3>2, <3>3
  <2> QED BY <2>1, FileInvAside
<1>4. CASE Tessellate
  <2>1. source.kind = "tools" /\ StockSame /\ done' = done /\ (phase' = phase \/ phase' = "Refused")
    BY <1>4 DEF Tessellate, Refuse
  <2> QED BY <2>1, FileInvAside
<1>5. CASE CutMotion
  BY <1>5, FileInvCut
<1> QED BY <1>1, <1>2, <1>3, <1>4, <1>5 DEF MillNext

(***************************************************************************)
(* A file reads back as the field that was written (io.rs), the normals of  *)
(* a version that has none apart, whatever was built and whatever was cut,  *)
(* by any tool of any library along any motion; and a file that is cut short *)
(* or has its magic or its version replaced is read as no field.            *)
(***************************************************************************)
THEOREM FilesReadBackHolds ==
  ASSUME NoneIsNoBundle
  PROVE  MillSpec => []((damaged => DamagesSpoil) => FilesReadBack)
<1>1. FileInv => ((damaged => DamagesSpoil) => FilesReadBack)
  BY DEF FileInv, Given
<1>2. MillInit => ToolsInv /\ FileInv
  BY FileInvInit, ToolsInvInit
<1>3. ToolsInv /\ FileInv /\ [MillNext]_all_vars => ToolsInv' /\ FileInv'
  BY FileInvNext, ToolsInvNext
<1> QED BY <1>1, <1>2, <1>3, PTL DEF MillSpec
=============================================================================
