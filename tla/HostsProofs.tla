----------------------------- MODULE HostsProofs ------------------------------
(***************************************************************************)
(* Proofs about the pipeline and its hosts: Budget, Findings, Pipeline and  *)
(* Hosts.                                                                   *)
(*                                                                         *)
(* What a refusal suggests fits: the search keeps a scale that fits at its  *)
(* upper end; rounding only coarsens, axis by axis; and what is coarser on  *)
(* every axis needs no more of anything, although neither the product of    *)
(* two counts nor the count of an extent is linear in the spacing. A pass   *)
(* is earned: a report of hits has a collision exactly when the hits had    *)
(* one, and a stage of `run` is reached only through those before it. The   *)
(* bytes a page reads are its own: the counter is followed by the numbers   *)
(* it would have if it did not wrap.                                        *)
(***************************************************************************)
EXTENDS Hosts, SharedLemmas

Lengths == [Axes -> Nat \ {0}]

\* A sum of cells is rounded up: wider cells, no more of them.
LEMMA FewerOfTheWider ==
  ASSUME NEW n \in Nat, NEW h \in Nat \ {0}, NEW m \in Nat \ {0}, h <= m
  PROVE  (n + m - 1) \div m <= (n + h - 1) \div h
BY SMTT(30)

LEMMA QuotientIsNat ==
  ASSUME NEW n \in Nat, NEW h \in Nat \ {0}
  PROVE  (n + h - 1) \div h \in Nat
BY SMTT(30)

LEMMA ProductIsNat == ASSUME NEW a \in Nat, NEW b \in Nat PROVE a * b \in Nat
BY SMT

LEMMA ProductGrows ==
  ASSUME NEW a \in Nat, NEW b \in Nat, NEW c \in Nat, NEW d \in Nat, a <= b, c <= d
  PROVE  a * c <= b * d
BY SMTT(30)

\* The count along an axis is a number, and the wider the cells the smaller.
LEMMA AxisCountShrinks ==
  ASSUME NEW e \in Nat, NEW h \in Nat \ {0}, NEW m \in Nat \ {0}, NEW per \in Nat \ {0}, h <= m
  PROVE  /\ axis_count(e, h, per) \in Nat /\ axis_count(e, m, per) \in Nat
         /\ axis_count(e, m, per) <= axis_count(e, h, per)
<1>1. e * per \in Nat
  BY ProductIsNat
<1>2. /\ (e * per + h - 1) \div h \in Nat
      /\ (e * per + m - 1) \div m \in Nat
  BY <1>1, QuotientIsNat
<1>3. (e * per + m - 1) \div m <= (e * per + h - 1) \div h
  BY <1>1, FewerOfTheWider
<1> QED
  BY <1>2, <1>3 DEF axis_count

\* What is computed of the counts grows with them.
LEMMA RaysGrow ==
  ASSUME NEW n \in [Axes -> Nat], NEW m \in [Axes -> Nat], \A i \in Axes : n[i] <= m[i]
  PROVE  /\ Rays(n) \in Nat /\ Rays(m) \in Nat /\ Rays(n) <= Rays(m)
         /\ LargestBundle(n) \in Nat /\ LargestBundle(m) \in Nat
         /\ LargestBundle(n) <= LargestBundle(m)
<1>1. /\ n[1] \in Nat /\ n[2] \in Nat /\ n[3] \in Nat /\ n[1] <= m[1] /\ n[2] <= m[2] /\ n[3] <= m[3]
      /\ m[1] \in Nat /\ m[2] \in Nat /\ m[3] \in Nat
  BY SMT DEF Axes
<1>2. /\ n[2] * n[3] \in Nat /\ m[2] * m[3] \in Nat /\ n[2] * n[3] <= m[2] * m[3]
  BY <1>1, ProductGrows, ProductIsNat
<1>3. /\ n[3] * n[1] \in Nat /\ m[3] * m[1] \in Nat /\ n[3] * n[1] <= m[3] * m[1]
  BY <1>1, ProductGrows, ProductIsNat
<1>4. /\ n[1] * n[2] \in Nat /\ m[1] * m[2] \in Nat /\ n[1] * n[2] <= m[1] * m[2]
  BY <1>1, ProductGrows, ProductIsNat
<1> DEFINE a == n[2] * n[3]  b == n[3] * n[1]  c == n[1] * n[2]
           x == m[2] * m[3]  y == m[3] * m[1]  z == m[1] * m[2]
<1>5. /\ a \in Nat /\ b \in Nat /\ c \in Nat /\ x \in Nat /\ y \in Nat /\ z \in Nat
      /\ a <= x /\ b <= y /\ c <= z
  BY <1>2, <1>3, <1>4
<1> HIDE DEF a, b, c, x, y, z
<1>6. /\ a + b + c \in Nat /\ x + y + z \in Nat /\ a + b + c <= x + y + z
      /\ Larger(a, Larger(b, c)) \in Nat /\ Larger(x, Larger(y, z)) \in Nat
      /\ Larger(a, Larger(b, c)) <= Larger(x, Larger(y, z))
  BY <1>5 DEF Larger
<1> QED
  BY <1>6 DEF Rays, LargestBundle, a, b, c, x, y, z

\* A spacing that is coarser on every axis needs no more memory.
LEMMA CoarserNeedsNoMore ==
  ASSUME NEW a \in Ask, NEW h \in Lengths, NEW m \in Lengths, NEW per \in Nat \ {0},
         \A i \in Axes : h[i] <= m[i]
  PROVE  /\ TotalBytes(a, m, per) \in Nat /\ TotalBytes(a, h, per) \in Nat
         /\ TotalBytes(a, m, per) <= TotalBytes(a, h, per)
<1> DEFINE fine == [i \in Axes |-> axis_count(a.extents[i], h[i], per)]
           coarse == [i \in Axes |-> axis_count(a.extents[i], m[i], per)]
<1>1. \A i \in Axes : fine[i] \in Nat /\ coarse[i] \in Nat /\ coarse[i] <= fine[i]
  <2> SUFFICES ASSUME NEW i \in Axes PROVE fine[i] \in Nat /\ coarse[i] \in Nat /\ coarse[i] <= fine[i]
    OBVIOUS
  <2>1. a.extents[i] \in Nat /\ h[i] \in Nat \ {0} /\ m[i] \in Nat \ {0} /\ h[i] <= m[i]
    BY DEF Ask, Lengths
  <2> QED
    BY <2>1, AxisCountShrinks
<1>2. fine \in [Axes -> Nat] /\ coarse \in [Axes -> Nat]
  BY <1>1
<1>3. \A i \in Axes : coarse[i] <= fine[i]
  BY <1>1
<1> HIDE DEF fine, coarse
<1>4. /\ Rays(coarse) \in Nat /\ Rays(fine) \in Nat /\ Rays(coarse) <= Rays(fine)
      /\ LargestBundle(coarse) \in Nat /\ LargestBundle(fine) \in Nat
      /\ LargestBundle(coarse) <= LargestBundle(fine)
  BY <1>2, <1>3, RaysGrow
<1>5. /\ bytes_per_ray \in Nat /\ bytes_per_spilled_ray \in Nat /\ IR_BYTES_PER_SEGMENT \in Nat
      /\ BYTES_PER_WORKER \in Nat /\ EXTRACTION_BYTES_PER_PLANE_CORNER \in Nat
  BY BudgetAssumption
<1> DEFINE laid(n) == Rays(n) * bytes_per_ray
           spill(n) == LargestBundle(n) * bytes_per_spilled_ray
           plane(n) == (n[1] + 2) * (n[2] + 2)
           window(n) == plane(n) * EXTRACTION_BYTES_PER_PLANE_CORNER
           rest == a.segments * IR_BYTES_PER_SEGMENT
           work == Larger(a.workers, 1) * BYTES_PER_WORKER
<1>6. laid(coarse) \in Nat /\ laid(fine) \in Nat /\ laid(coarse) <= laid(fine)
  BY <1>4, <1>5, ProductGrows, ProductIsNat
<1>7. spill(coarse) \in Nat /\ spill(fine) \in Nat /\ spill(coarse) <= spill(fine)
  BY <1>4, <1>5, ProductGrows, ProductIsNat
<1>8. /\ coarse[1] + 2 \in Nat /\ coarse[2] + 2 \in Nat /\ fine[1] + 2 \in Nat /\ fine[2] + 2 \in Nat
      /\ coarse[1] + 2 <= fine[1] + 2 /\ coarse[2] + 2 <= fine[2] + 2
  BY <1>2, <1>3 DEF Axes
<1>9. plane(coarse) \in Nat /\ plane(fine) \in Nat /\ plane(coarse) <= plane(fine)
  BY <1>8, ProductGrows, ProductIsNat
<1>10. window(coarse) \in Nat /\ window(fine) \in Nat /\ window(coarse) <= window(fine)
  <2> HIDE DEF plane
  <2> QED
    BY <1>5, <1>9, ProductGrows, ProductIsNat
<1>11. rest \in Nat /\ work \in Nat
  <2>1. a.segments \in Nat /\ Larger(a.workers, 1) \in Nat
    BY DEF Ask, Larger
  <2> QED
    BY <2>1, <1>5, ProductIsNat
<1>12. /\ TotalBytes(a, m, per) = laid(coarse) + spill(coarse)
                                    + (IF a.extracting THEN window(coarse) ELSE 0) + rest + work
       /\ TotalBytes(a, h, per) = laid(fine) + spill(fine)
                                    + (IF a.extracting THEN window(fine) ELSE 0) + rest + work
  BY DEF TotalBytes, fine, coarse
<1> HIDE DEF laid, spill, window, plane, rest, work
<1>13. CASE a.extracting
  BY <1>6, <1>7, <1>10, <1>11, <1>12, <1>13
<1>14. CASE ~a.extracting
  BY <1>6, <1>7, <1>11, <1>12, <1>14
<1> QED
  BY <1>13, <1>14

-------------------------------------------------------------------------------
\* A unit is at least one.
LEMMA UnitIsPositive ==
  ASSUME NEW n \in Nat \ {0}, NEW d \in 2 .. 4
  PROVE  Unit(n, d) \in Nat \ {0}
<1>1. \E p \in Powers : p <= n /\ (p = 1000000000 \/ n < 10 * p)
  BY SMT DEF Powers
<1>2. Leading(n) \in Powers
  BY <1>1 DEF Leading
<1>3. Leading(n) \in Nat
  BY <1>2, SMT DEF Powers
<1>4. Decade[d] \in {10, 100, 1000}
  BY SMT DEF Decade
<1>5. CASE Leading(n) >= Decade[d]
  <2>1. ASSUME NEW l \in Nat, NEW t \in Nat \ {0}, l >= t PROVE l \div t \in Nat \ {0}
    BY <2>1, SMTT(30)
  <2>2. Leading(n) \div Decade[d] \in Nat \ {0}
    BY <1>3, <1>4, <1>5, <2>1
  <2> QED
    BY <1>5, <2>2 DEF Unit
<1> QED
  BY <1>5 DEF Unit

\* Rounding up coarsens.
LEMMA RoundUpCoarsens ==
  ASSUME NEW n \in Nat \ {0}, NEW d \in 2 .. 4
  PROVE  RoundUp(n, d) \in Nat \ {0} /\ n <= RoundUp(n, d)
<1>1. PICK u \in Nat \ {0} : u = Unit(n, d)
  BY UnitIsPositive
<1>2. /\ ((n + u - 1) \div u) * u \in Nat
      /\ n <= ((n + u - 1) \div u) * u
  BY SMTT(30)
<1>3. RoundUp(n, d) = ((n + u - 1) \div u) * u
  BY <1>1 DEF RoundUp
<1> QED
  BY <1>2, <1>3

LEMMA ScaledIsSpacing ==
  ASSUME NEW a \in Ask, NEW k \in Nat \ {0}
  PROVE  Scaled(a, k) \in Lengths
<1>1. ASSUME NEW i \in Axes PROVE a.spacing[i] * k \in Nat \ {0}
  <2>1. a.spacing[i] \in Nat \ {0}
    BY DEF Ask
  <2> QED
    BY <2>1, SMT
<1> QED
  BY <1>1 DEF Scaled, Lengths

\* What is named for a scale that fits, fits: in particular the loop over the
\* digits never gets past two, and the exact spacing is never named.
LEMMA NamedFits ==
  ASSUME NEW a \in Ask, NEW k \in Nat \ {0}, fits(a, k)
  PROVE  Named(a, k) \in Lengths /\ TotalBytes(a, Named(a, k), Grain) <= a.limit
<1> DEFINE exact == Scaled(a, k)
           fitting == {d \in 2 .. 4 : FitsRounded(a, round_up_significant(exact, d))}
           fewest == CHOOSE d \in fitting : \A e \in fitting : d <= e
<1>1. exact \in Lengths
  BY ScaledIsSpacing
<1>2. Grain \in Nat \ {0} /\ a.limit \in Nat /\ TotalBytes(a, exact, Grain) <= a.limit
  BY BudgetAssumption DEF fits, Ask
<1> HIDE DEF exact
<1>3. ASSUME NEW d \in 2 .. 4
      PROVE  /\ round_up_significant(exact, d) \in Lengths
             /\ TotalBytes(a, round_up_significant(exact, d), Grain) <= a.limit
  <2>1. \A i \in Axes : RoundUp(exact[i], d) \in Nat \ {0} /\ exact[i] <= RoundUp(exact[i], d)
    BY <1>1, RoundUpCoarsens DEF Lengths
  <2>2. /\ round_up_significant(exact, d) \in Lengths
        /\ \A i \in Axes : exact[i] <= round_up_significant(exact, d)[i]
    BY <2>1 DEF round_up_significant, Lengths
  <2>3. /\ TotalBytes(a, round_up_significant(exact, d), Grain) <= TotalBytes(a, exact, Grain)
        /\ TotalBytes(a, round_up_significant(exact, d), Grain) \in Nat
        /\ TotalBytes(a, exact, Grain) \in Nat
    BY <1>1, <1>2, <2>2, CoarserNeedsNoMore
  <2> QED
    BY <1>2, <2>2, <2>3
<1>4. CASE fitting = {}
  BY <1>1, <1>2, <1>4 DEF Named, exact
<1>5. CASE fitting # {}
  <2>1. \E d \in fitting : \A e \in fitting : d <= e
    <3>1. fitting \subseteq 2 .. 4
      OBVIOUS
    <3> HIDE DEF fitting
    <3>2. CASE 2 \in fitting
      BY <3>1, <3>2
    <3>3. CASE 2 \notin fitting /\ 3 \in fitting
      <4>1. \A e \in fitting : 3 <= e
        BY <3>1, <3>3
      <4> QED
        BY <4>1, <3>3
    <3>4. CASE 2 \notin fitting /\ 3 \notin fitting
      <4>1. \A e \in fitting : e = 4
        BY <3>1, <3>4
      <4> QED
        BY <1>5, <4>1
    <3> QED
      BY <3>2, <3>3, <3>4
  <2>2. fewest \in 2 .. 4
    BY <2>1
  <2>3. Named(a, k) = round_up_significant(exact, fewest)
    BY <1>5 DEF Named, exact
  <2> QED
    BY <1>3, <2>2, <2>3
<1> QED
  BY <1>4, <1>5
-------------------------------------------------------------------------------
\* The upper end of the bisection always fits.
SearchOK ==
  /\ ask \in Ask \cup {None}
  /\ search \in {"idle", "double", "bisect"}
  /\ lo \in Nat \ {0} /\ hi \in Nat \ {0}
  /\ search # "idle" => ask \in Ask
  /\ search = "bisect" => fits(ask, hi)
  /\ suggestion # None => ask \in Ask /\ suggestion \in Lengths
  /\ SuggestionFits

LEMMA SearchStarts == BudgetInit => SearchOK
BY BudgetAssumption DEF BudgetInit, SearchOK, SuggestionFits

LEMMA SearchBegins ==
  ASSUME SearchOK, NEW a \in Ask, StartSearch(a)
  PROVE  SearchOK'
BY BudgetAssumption DEF StartSearch, SearchOK, SuggestionFits

LEMMA SearchGoesOn == SearchOK /\ [BudgetNext]_budgetVars => SearchOK'
<1> SUFFICES ASSUME SearchOK, [BudgetNext]_budgetVars PROVE SearchOK'
  OBVIOUS
<1> USE DEF SearchOK, SuggestionFits
<1>1. ASSUME NEW a \in Asks, StartSearch(a) PROVE SearchOK'
  BY <1>1, SearchBegins, BudgetAssumption
<1>2. CASE Double
  <2>1. 2 * hi \in Nat \ {0}
    BY SMT
  <2>2. CASE fits(ask, 2 * hi)
    BY <1>2, <2>1, <2>2 DEF Double, fits
  <2>3. CASE ~fits(ask, 2 * hi)
    BY <1>2, <2>1, <2>3 DEF Double, fits
  <2> QED
    BY <2>2, <2>3
<1>3. CASE GiveUp
  BY <1>3 DEF GiveUp
<1>4. CASE Bisect
  <2> DEFINE mid == (lo + hi) \div 2
  <2>1. mid \in Nat \ {0}
    BY SMT
  <2> HIDE DEF mid
  <2>2. CASE fits(ask, mid)
    BY <1>4, <2>1, <2>2 DEF Bisect, fits, mid
  <2>3. CASE ~fits(ask, mid)
    BY <1>4, <2>1, <2>3 DEF Bisect, fits, mid
  <2> QED
    BY <2>2, <2>3
<1>5. CASE Name
  <2>1. Named(ask, hi) \in Lengths /\ TotalBytes(ask, Named(ask, hi), Grain) <= ask.limit
    BY <1>5, NamedFits DEF Name
  <2> QED
    BY <1>5, <2>1 DEF Name
<1>6. CASE Forget
  BY <1>6 DEF Forget
<1>7. CASE UNCHANGED budgetVars
  BY <1>7 DEF budgetVars, fits
<1> QED
  BY <1>1, <1>2, <1>3, <1>4, <1>5, <1>6, <1>7 DEF BudgetNext, SearchStep

\* Whatever is asked, and whatever the constants: a refusal that names a spacing
\* names one that will not be refused. About budget.rs:522-582.
THEOREM SuggestionsFit == BudgetSpec => []SuggestionFits
<1>1. SearchOK => SuggestionFits
  BY DEF SearchOK
<1> QED
  BY SearchStarts, SearchGoesOn, <1>1, PTL DEF BudgetSpec
-------------------------------------------------------------------------------
(* Nothing finer would have done.                                           *)

\* The powers the search may reach.
LEMMA Powers2 ==
  /\ Power2[0] = 1
  /\ \A n \in 0 .. Larger(Doublings, Halvings) : Power2[n] \in Nat \ {0}
  /\ \A n \in 1 .. Larger(Doublings, Halvings) : Power2[n] = 2 * Power2[n - 1]
  /\ \A n \in 0 .. Doublings : Power2[n] <= Power2[Doublings]
<1> DEFINE most == Larger(Doublings, Halvings)
           Step(f) == [n \in 0 .. most |-> IF n = 0 THEN 1 ELSE 2 * f[n - 1]]
           Twice == [n \in 1 .. most |-> [y \in Nat \ {0} |-> 2 * y]]
<1>1. most \in Nat /\ Doublings \in Nat /\ Doublings <= most
  BY BudgetAssumption DEF Larger
<1>2. Power2 = CHOOSE f : f = Step(f)
  BY DEF Power2
<1> HIDE DEF most
<1>3. \E f : f = Step(f)
  <2>1. 1 \in Nat \ {0} /\ \A k \in 1 .. most : \A y \in Nat \ {0} : Twice[k][y] \in Nat \ {0}
    OBVIOUS
  <2> HIDE DEF Twice
  <2>2. PICK h : Iterates(h, most, 1, Twice)
    BY <1>1, <2>1, IterationExists
  <2>3. h = [k \in 0 .. most |-> IF k = 0 THEN 1 ELSE Twice[k][h[k - 1]]]
    BY <2>2 DEF Iterates
  <2> DEFINE T == {k \in 0 .. most : h[k] \in Nat \ {0}}
  <2>4. 0 \in T
    BY <1>1, <2>3
  <2>5. \A k \in 0 .. most - 1 : k \in T => k + 1 \in T
    <3> SUFFICES ASSUME NEW k \in 0 .. most - 1, k \in T PROVE k + 1 \in T
      OBVIOUS
    <3>1. k + 1 \in 1 .. most /\ k + 1 \in 0 .. most /\ k + 1 # 0 /\ (k + 1) - 1 = k
      BY <1>1
    <3>2. h[k + 1] = Twice[k + 1][h[k]]
      BY <2>3, <3>1
    <3>3. h[k] \in Nat \ {0}
      OBVIOUS
    <3> QED BY <2>1, <3>1, <3>2, <3>3
  <2>6. \A k \in 0 .. most : k \in T
    <3> HIDE DEF T
    <3> QED BY <1>1, <2>4, <2>5, Induction
  <2>7. ASSUME NEW k \in 1 .. most PROVE Twice[k][h[k - 1]] = 2 * h[k - 1]
    <3>1. k - 1 \in 0 .. most
      BY <1>1
    <3>2. h[k - 1] \in Nat \ {0}
      BY <2>6, <3>1
    <3> QED BY <3>2 DEF Twice
  <2>8. Step(h) = [k \in 0 .. most |-> IF k = 0 THEN 1 ELSE Twice[k][h[k - 1]]]
    <3>1. \A k \in 0 .. most : k # 0 => k \in 1 .. most
      BY <1>1
    <3> QED BY <2>7, <3>1
  <2> QED BY <2>3, <2>8
<1>4. Power2 = Step(Power2)
  <2> HIDE DEF Step
  <2> QED BY <1>2, <1>3
<1>5. \A n \in 0 .. most : Power2[n] = IF n = 0 THEN 1 ELSE 2 * Power2[n - 1]
  BY <1>4
<1> HIDE DEF Step, Twice
<1>6. Power2[0] = 1 /\ \A n \in 1 .. most : Power2[n] = 2 * Power2[n - 1]
  <2>1. 0 \in 0 .. most /\ \A n \in 1 .. most : n \in 0 .. most /\ n # 0
    BY <1>1
  <2> QED BY <1>5, <2>1
<1> DEFINE P == {n \in 0 .. most : Power2[n] \in Nat \ {0}}
<1>7. \A n \in 0 .. most : n \in P
  <2>1. 0 \in P
    BY <1>1, <1>6
  <2>2. ASSUME NEW n \in 0 .. most - 1, n \in P PROVE n + 1 \in P
    <3>1. n + 1 \in 1 .. most /\ n + 1 \in 0 .. most /\ (n + 1) - 1 = n
      BY <1>1
    <3>2. Power2[n + 1] = 2 * Power2[n] /\ Power2[n] \in Nat \ {0}
      BY <1>6, <2>2, <3>1
    <3> QED BY <3>1, <3>2
  <2> HIDE DEF P
  <2> QED BY <1>1, <2>1, <2>2, Induction
<1> DEFINE M == {n \in 0 .. most : \A j \in 0 .. n : Power2[j] <= Power2[n]}
<1>8. \A n \in 0 .. most : n \in M
  <2>1. 0 \in M
    BY <1>1, <1>6
  <2>2. ASSUME NEW n \in 0 .. most - 1, n \in M PROVE n + 1 \in M
    <3>1. n + 1 \in 1 .. most /\ n + 1 \in 0 .. most /\ (n + 1) - 1 = n /\ n \in 0 .. most
      BY <1>1
    <3>2. Power2[n + 1] = 2 * Power2[n] /\ Power2[n] \in Nat
      BY <1>6, <1>7, <3>1
    <3>3. ASSUME NEW j \in 0 .. n + 1 PROVE Power2[j] <= Power2[n + 1]
      <4>1. j \in 0 .. most /\ (j \in 0 .. n \/ j = n + 1)
        BY <1>1
      <4>2. Power2[j] \in Nat
        BY <1>7, <4>1
      <4>3. CASE j \in 0 .. n
        BY <2>2, <3>2, <4>2, <4>3
      <4> QED BY <3>2, <4>1, <4>2, <4>3
    <3> QED BY <3>1, <3>3
  <2> HIDE DEF M
  <2> QED BY <1>1, <2>1, <2>2, Induction
<1>9. Doublings \in 0 .. most
  BY <1>1
<1> QED BY <1>6, <1>7, <1>8, <1>9 DEF most

\* What fits at one scale fits at every coarser one.
LEMMA FittingSpreads ==
  ASSUME NEW a \in Ask, NEW j \in Nat \ {0}, NEW k \in Nat \ {0}, j <= k, fits(a, j)
  PROVE  fits(a, k)
<1>1. Scaled(a, j) \in Lengths /\ Scaled(a, k) \in Lengths
  BY ScaledIsSpacing
<1>2. \A i \in Axes : Scaled(a, j)[i] <= Scaled(a, k)[i]
  <2> SUFFICES ASSUME NEW i \in Axes PROVE a.spacing[i] * j <= a.spacing[i] * k
    BY DEF Scaled
  <2>1. a.spacing[i] \in Nat
    BY DEF Ask
  <2> QED BY <2>1, ProductGrows
<1>3. Grain \in Nat \ {0} /\ a.limit \in Nat
  BY BudgetAssumption DEF Ask
<1>4. /\ TotalBytes(a, Scaled(a, k), Grain) <= TotalBytes(a, Scaled(a, j), Grain)
      /\ TotalBytes(a, Scaled(a, k), Grain) \in Nat /\ TotalBytes(a, Scaled(a, j), Grain) \in Nat
  BY <1>1, <1>2, <1>3, CoarserNeedsNoMore
<1> QED BY <1>3, <1>4 DEF fits

\* A program alone too large fits at no scale.
LEMMA HopelessIsHopeless ==
  ASSUME NEW a \in Ask, Hopeless(a), NEW k \in Nat \ {0}
  PROVE  ~fits(a, k)
<1> DEFINE n == [i \in Axes |-> axis_count(a.extents[i], Scaled(a, k)[i], Grain)]
<1>1. Scaled(a, k) \in Lengths /\ Grain \in Nat \ {0} /\ a.limit \in Nat
  BY ScaledIsSpacing, BudgetAssumption DEF Ask
<1>2. n \in [Axes -> Nat]
  <2> SUFFICES ASSUME NEW i \in Axes PROVE axis_count(a.extents[i], Scaled(a, k)[i], Grain) \in Nat
    OBVIOUS
  <2>1. PICK h \in Nat \ {0} : h = Scaled(a, k)[i]
    BY <1>1 DEF Lengths
  <2>2. a.extents[i] \in Nat /\ h <= h
    BY DEF Ask
  <2> QED BY <1>1, <2>1, <2>2, AxisCountShrinks
<1> HIDE DEF n
<1>3. /\ bytes_per_ray \in Nat /\ bytes_per_spilled_ray \in Nat /\ IR_BYTES_PER_SEGMENT \in Nat
      /\ BYTES_PER_WORKER \in Nat /\ EXTRACTION_BYTES_PER_PLANE_CORNER \in Nat
  BY BudgetAssumption
<1>4. Rays(n) \in Nat /\ LargestBundle(n) \in Nat
  BY <1>2, RaysGrow
<1>5. n[1] + 2 \in Nat /\ n[2] + 2 \in Nat
  BY <1>2 DEF Axes
<1>6. a.segments \in Nat /\ Larger(a.workers, 1) \in Nat
  BY DEF Ask, Larger
<1> DEFINE laid == Rays(n) * bytes_per_ray
           spill == LargestBundle(n) * bytes_per_spilled_ray
           plane == (n[1] + 2) * (n[2] + 2)
           window == plane * EXTRACTION_BYTES_PER_PLANE_CORNER
           rest == a.segments * IR_BYTES_PER_SEGMENT
           work == Larger(a.workers, 1) * BYTES_PER_WORKER
<1>7. laid \in Nat /\ spill \in Nat /\ plane \in Nat /\ rest \in Nat /\ work \in Nat
  BY <1>3, <1>4, <1>5, <1>6, ProductIsNat
<1>8. window \in Nat
  <2> HIDE DEF plane
  <2> QED BY <1>3, <1>7, ProductIsNat
<1>9. /\ rest > a.limit
      /\ TotalBytes(a, Scaled(a, k), Grain)
           = laid + spill + (IF a.extracting THEN window ELSE 0) + rest + work
  BY DEF TotalBytes, n, Hopeless
<1> HIDE DEF laid, spill, window, plane, rest, work
<1>10. ~(laid + spill + (IF a.extracting THEN window ELSE 0) + rest + work <= a.limit)
  BY <1>1, <1>7, <1>8, <1>9
<1> QED BY <1>9, <1>10 DEF fits

\* The units there are.
Units == {1, 10, 100, 1000, 10000, 100000, 1000000, 10000000, 100000000}

\* The leading digit of a longer number is worth no less.
LEMMA LeadingGrows ==
  ASSUME NEW n \in Nat \ {0}, NEW m \in Nat \ {0}, n <= m
  PROVE  Leading(n) \in Powers /\ Leading(m) \in Powers /\ Leading(n) <= Leading(m)
<1>1. \A l \in Nat \ {0} : \E p \in Powers : p <= l /\ (p = 1000000000 \/ l < 10 * p)
  BY SMT DEF Powers
<1>2. /\ Leading(n) \in Powers /\ Leading(n) <= n
      /\ Leading(m) \in Powers /\ (Leading(m) = 1000000000 \/ m < 10 * Leading(m))
  BY <1>1 DEF Leading
<1>3. ASSUME NEW p \in Powers, NEW q \in Powers, q < p, q # 1000000000 PROVE 10 * q <= p
  BY <1>3, SMTT(60) DEF Powers
<1>4. /\ Leading(n) \in Nat /\ Leading(m) \in Nat
      /\ (Leading(m) = 1000000000 => Leading(n) <= Leading(m))
  BY <1>2, SMT DEF Powers
<1> QED BY <1>2, <1>3, <1>4

\* A number no longer and no more coarsely rounded has no larger unit, and one
\* that goes into the other.
LEMMA UnitsDivide ==
  ASSUME NEW n \in Nat \ {0}, NEW m \in Nat \ {0}, n <= m, NEW d \in 2 .. 4
  PROVE  \E c \in Nat \ {0} : Unit(m, 2) = c * Unit(n, d)
<1>1. Leading(n) \in Powers /\ Leading(m) \in Powers /\ Leading(n) <= Leading(m)
  BY LeadingGrows
<1>2. /\ Decade[2] = 10 /\ Decade[d] \in {10, 100, 1000}
  BY SMT DEF Decade
<1> DEFINE unit(l, t) == IF l >= t THEN l \div t ELSE 1
<1>3. ASSUME NEW l \in Powers PROVE unit(l, 10) \in Units /\ unit(l, 100) \in Units /\ unit(l, 1000) \in Units
                                    /\ unit(l, 100) <= unit(l, 10) /\ unit(l, 1000) <= unit(l, 10)
  BY <1>3, SMTT(60) DEF Powers, Units
<1>4. ASSUME NEW l \in Powers, NEW r \in Powers, l <= r PROVE unit(l, 10) <= unit(r, 10)
  BY <1>4, SMTT(60) DEF Powers
<1>5. Unit(m, 2) = unit(Leading(m), 10) /\ Unit(n, d) = unit(Leading(n), Decade[d])
  BY <1>2 DEF Unit
<1> HIDE DEF unit
<1>6. ASSUME NEW u \in Units, NEW v \in Units, v <= u PROVE \E c \in Nat \ {0} : u = c * v
  BY <1>6, SMTT(60) DEF Units
<1>7. Units \subseteq Nat
  BY SMT DEF Units
<1>8. Unit(m, 2) \in Units /\ Unit(n, d) \in Units /\ Unit(n, d) <= Unit(m, 2)
  <2>1. PICK l \in Powers : l = Leading(n)
    BY <1>1
  <2>2. PICK r \in Powers : r = Leading(m)
    BY <1>1
  <2>3. /\ unit(l, 10) \in Units /\ unit(l, 100) \in Units /\ unit(l, 1000) \in Units
        /\ unit(l, 100) <= unit(l, 10) /\ unit(l, 1000) <= unit(l, 10)
    BY <1>3
  <2>4. unit(r, 10) \in Units /\ unit(l, 10) <= unit(r, 10)
    BY <1>1, <1>3, <1>4, <2>1, <2>2
  <2>5. PICK a \in Nat : a = unit(l, 10) /\ a \in Units
    BY <1>7, <2>3
  <2>6. PICK z \in Nat : z = unit(r, 10) /\ z \in Units /\ a <= z
    BY <1>7, <2>4, <2>5
  <2>7. \A t \in {10, 100, 1000} : unit(l, t) \in Units /\ unit(l, t) <= a
    BY <1>7, <2>3, <2>5
  <2>8. unit(l, Decade[d]) \in Units /\ unit(l, Decade[d]) <= a
    BY <1>2, <2>7
  <2>9. unit(l, Decade[d]) <= z
    <3>1. PICK b \in Nat : b = unit(l, Decade[d])
      BY <1>7, <2>8
    <3>2. b <= a /\ a <= z
      BY <2>6, <2>8, <3>1
    <3> QED BY <3>1, <3>2
  <2> QED BY <1>5, <2>1, <2>2, <2>6, <2>8, <2>9
<1> QED BY <1>6, <1>8

\* Rounding up keeps the order, and fewer digits round further.
LEMMA RoundUpKeepsOrder ==
  ASSUME NEW n \in Nat \ {0}, NEW m \in Nat \ {0}, n <= m, NEW d \in 2 .. 4
  PROVE  RoundUp(n, d) <= RoundUp(m, 2)
<1>1. PICK u \in Nat \ {0} : u = Unit(n, d)
  BY UnitIsPositive
<1>2. PICK c \in Nat \ {0} : Unit(m, 2) = c * u
  <2>1. \E c \in Nat \ {0} : Unit(m, 2) = c * Unit(n, d)
    BY UnitsDivide
  <2> QED BY <1>1, <2>1
<1>3. PICK w \in Nat \ {0} : w = Unit(m, 2)
  BY UnitIsPositive
<1> DEFINE q == (m + w - 1) \div w  r == (n + u - 1) \div u
<1>4. /\ q \in Nat /\ m <= q * w
  BY SMTT(30)
<1>5. /\ r \in Nat /\ r * u <= n + u - 1
  BY SMTT(30)
<1> HIDE DEF q, r
<1>6. w = c * u /\ q * (c * u) = (q * c) * u /\ q * c \in Nat
  BY <1>2, <1>3, <1>4, SMT
<1>7. PICK z \in Nat : z = q * c
  BY <1>6
<1>8. r * u <= z * u + u - 1
  <2>1. n <= z * u
    BY <1>4, <1>6, <1>7
  <2>2. r * u \in Nat /\ z * u \in Nat
    BY <1>5, ProductIsNat
  <2> QED BY <1>5, <2>1, <2>2
<1>9. r <= z
  <2> SUFFICES ASSUME z + 1 <= r PROVE FALSE
    BY <1>5
  <2>1. (z + 1) * u <= r * u
    BY <1>5, ProductGrows
  <2>2. (z + 1) * u = z * u + u /\ z * u \in Nat /\ r * u \in Nat
    BY <1>5, SMT
  <2> QED BY <1>8, <2>1, <2>2
<1>10. r * u <= z * u
  BY <1>5, <1>9, ProductGrows
<1>11. RoundUp(n, d) = r * u /\ RoundUp(m, 2) = q * w
  BY <1>1, <1>3 DEF RoundUp, q, r
<1> QED BY <1>6, <1>7, <1>10, <1>11

\* What is named for a scale is no coarser on any axis than a coarser scale rounds
\* to.
LEMMA NamedIsFine ==
  ASSUME NEW a \in Ask, NEW j \in Nat \ {0}, NEW k \in Nat \ {0}, j <= k, fits(a, j), NEW i \in Axes
  PROVE  Named(a, j)[i] <= round_up_significant(Scaled(a, k), 2)[i]
<1> DEFINE exact == Scaled(a, j)
           fitting == {d \in 2 .. 4 : FitsRounded(a, round_up_significant(exact, d))}
           fewest == CHOOSE d \in fitting : \A e \in fitting : d <= e
<1>1. Scaled(a, j) \in Lengths /\ Scaled(a, k) \in Lengths
  BY ScaledIsSpacing
<1>2. Scaled(a, j)[i] <= Scaled(a, k)[i]
  <2>1. a.spacing[i] \in Nat
    BY DEF Ask
  <2>2. a.spacing[i] * j <= a.spacing[i] * k
    BY <2>1, ProductGrows
  <2> QED BY <2>2 DEF Scaled
<1>3. PICK n \in Nat \ {0} : n = Scaled(a, j)[i]
  BY <1>1 DEF Lengths
<1>4. PICK m \in Nat \ {0} : m = Scaled(a, k)[i]
  BY <1>1 DEF Lengths
<1>5. round_up_significant(Scaled(a, k), 2)[i] = RoundUp(m, 2)
  BY <1>4 DEF round_up_significant
<1>6. CASE fitting = {}
  <2>1. Named(a, j)[i] = n
    BY <1>3, <1>6 DEF Named
  <2>2. n <= RoundUp(m, 2)
    <3>1. RoundUp(m, 2) \in Nat \ {0} /\ m <= RoundUp(m, 2)
      BY RoundUpCoarsens
    <3> QED BY <1>2, <1>3, <1>4, <3>1
  <2> QED BY <1>5, <2>1, <2>2
<1>7. CASE fitting # {}
  <2>1. fewest \in 2 .. 4
    <3>1. fitting \subseteq 2 .. 4
      OBVIOUS
    <3>2. \E d \in fitting : \A e \in fitting : d <= e
      <4> HIDE DEF fitting
      <4>1. fitting \in SUBSET Nat
        BY <3>1
      <4> QED BY <1>7, <4>1, NatMin
    <3> QED BY <3>1, <3>2
  <2>2. Named(a, j) = round_up_significant(exact, fewest)
    BY <1>7 DEF Named
  <2>3. PICK d \in 2 .. 4 : d = fewest
    BY <2>1
  <2>4. Named(a, j)[i] = RoundUp(n, d)
    BY <1>3, <2>2, <2>3 DEF round_up_significant
  <2> QED BY <1>2, <1>3, <1>4, <1>5, <2>4, RoundUpKeepsOrder
<1> QED BY <1>6, <1>7

\* What the search knows of the scales it has not looked at: the job was refused
\* as it was asked; while it doubles, nothing up to `hi` fits; while it halves,
\* nothing up to `lo` does, and the ends are no further apart than the halvings
\* that are left can bring together.
SearchKnows ==
  /\ search # "idle" \/ ask # None => ~fits(ask, Grain)
  /\ search = "double" => /\ lo = Grain /\ tries \in 0 .. Doublings
                          /\ hi = Grain * Power2[tries] /\ ~fits(ask, hi)
  /\ search = "bisect" => /\ tries \in 0 .. Halvings /\ ~fits(ask, lo)
                          /\ lo < hi /\ hi - lo <= Power2[Halvings - tries]
  /\ SuggestionIsFinest

LEMMA KnowsAtFirst == BudgetInit => SearchKnows
BY BudgetAssumption DEF BudgetInit, SearchKnows, SuggestionIsFinest

LEMMA KnowsSearchBegins ==
  ASSUME SearchOK, NEW a \in Ask, ~Granted(a), StartSearch(a)
  PROVE  SearchKnows'
<1>1. /\ ask' = a /\ lo' = Grain /\ hi' = Grain /\ tries' = 0 /\ suggestion' = None
      /\ search' = IF Hopeless(a) THEN "idle" ELSE "double"
  BY DEF StartSearch
<1>2. ~fits(a, Grain) /\ Grain \in Nat \ {0} /\ Doublings \in Nat /\ Power2[0] = 1
  BY BudgetAssumption, Powers2 DEF Granted
<1>3. Grain * 1 = Grain /\ 0 \in 0 .. Doublings
  BY <1>2
<1>4. ASSUME search' = "idle", NEW k \in Grain .. Grain * Power2[Doublings] PROVE ~fits(a, k)
  <2>1. k \in Nat \ {0}
    BY <1>2
  <2>2. Hopeless(a)
    BY <1>1, <1>4
  <2> QED BY <2>1, <2>2, HopelessIsHopeless
<1>5. SuggestionIsFinest'
  BY <1>1, <1>4 DEF SuggestionIsFinest, fits
<1> QED BY <1>1, <1>2, <1>3, <1>5 DEF SearchKnows, fits

\* Between two scales next to each other there is none.
LEMMA KnowsNamed ==
  ASSUME SearchOK, SearchKnows, Name
  PROVE  SearchKnows'
<1>1. /\ ask \in Ask /\ lo \in Nat \ {0} /\ hi \in Nat \ {0} /\ fits(ask, hi) /\ ~fits(ask, lo)
      /\ lo < hi /\ hi - lo <= Power2[Halvings - tries] /\ tries = Halvings
  BY DEF Name, SearchOK, SearchKnows
<1>2. Power2[0] = 1 /\ Halvings - Halvings = 0 /\ Grain \in Nat \ {0}
  BY Powers2, BudgetAssumption
<1>3. hi = lo + 1
  BY <1>1, <1>2
<1>4. /\ ask' = ask /\ suggestion' = Named(ask, hi) /\ search' = "idle"
  BY DEF Name
<1>5. Named(ask, hi) # None
  <2>1. Named(ask, hi) \in Lengths
    BY <1>1, NamedFits
  <2> QED BY <2>1, BudgetAssumption DEF Lengths
<1>6. ASSUME NEW k \in Grain .. Grain * Power2[Doublings], fits(ask, k)
      PROVE  \A i \in Axes : Named(ask, hi)[i] <= round_up_significant(Scaled(ask, k), 2)[i]
  <2>1. k \in Nat \ {0}
    BY <1>2
  <2>2. hi <= k
    <3> SUFFICES ASSUME k <= lo PROVE FALSE
      BY <1>1, <1>3, <2>1
    <3> QED BY <1>1, <1>6, <2>1, FittingSpreads
  <2> QED BY <1>1, <2>1, <2>2, NamedIsFine
<1>7. SuggestionIsFinest'
  BY <1>4, <1>5, <1>6 DEF SuggestionIsFinest, fits
<1> QED BY <1>4, <1>7 DEF SearchKnows, fits

LEMMA KnowsDoubled ==
  ASSUME SearchOK, SearchKnows, Double
  PROVE  SearchKnows'
<1>1. /\ ask \in Ask /\ lo = Grain /\ tries \in 0 .. Doublings /\ tries < Doublings
      /\ hi = Grain * Power2[tries] /\ ~fits(ask, hi) /\ ~fits(ask, Grain)
      /\ ask' = ask /\ lo' = lo /\ hi' = 2 * hi
  BY DEF Double, SearchOK, SearchKnows
<1>2. Grain \in Nat \ {0} /\ Doublings \in Nat /\ Halvings \in Nat /\ Doublings <= Larger(Doublings, Halvings)
  BY BudgetAssumption DEF Larger
<1>3. tries + 1 \in 0 .. Doublings /\ tries + 1 \in 1 .. Larger(Doublings, Halvings)
      /\ (tries + 1) - 1 = tries /\ tries \in 0 .. Larger(Doublings, Halvings)
  BY <1>1, <1>2 DEF Larger
<1>4. /\ Power2[tries + 1] = 2 * Power2[tries] /\ Power2[tries] \in Nat \ {0}
      /\ Power2[tries + 1] <= Power2[Doublings]
  BY <1>3, Powers2
<1>5. Doublings \in 0 .. Larger(Doublings, Halvings) /\ Halvings \in 0 .. Larger(Doublings, Halvings)
  BY <1>2 DEF Larger
<1>6. Power2[Doublings] \in Nat /\ Power2[Halvings] \in Nat
  BY <1>5, Powers2
<1>7. 2 * hi = Grain * Power2[tries + 1] /\ hi \in Nat \ {0}
  BY <1>1, <1>2, <1>4, SMT
<1>8. 2 * hi <= Power2[Halvings]
  <2>1. Grain * Power2[tries + 1] <= Grain * Power2[Doublings]
    BY <1>2, <1>4, <1>6, ProductGrows
  <2>2. Grain * Power2[Doublings] \in Nat
    BY <1>2, <1>6, ProductIsNat
  <2> QED BY <1>6, <1>7, <2>1, <2>2, FineAssumption
<1>9. CASE fits(ask, 2 * hi)
  <2>1. search' = "bisect" /\ tries' = 0
    BY <1>9 DEF Double
  <2>2. Grain < 2 * hi
    <3> SUFFICES ASSUME 2 * hi <= Grain PROVE FALSE
      BY <1>2, <1>7
    <3> QED BY <1>1, <1>2, <1>7, <1>9, FittingSpreads
  <2>3. 2 * hi - Grain <= Power2[Halvings - 0] /\ 0 \in 0 .. Halvings
    BY <1>2, <1>6, <1>7, <1>8
  <2> QED BY <1>1, <2>1, <2>2, <2>3 DEF SearchKnows, SuggestionIsFinest, fits
<1>10. CASE ~fits(ask, 2 * hi)
  <2>1. search' = "double" /\ tries' = tries + 1
    BY <1>10 DEF Double
  <2> QED BY <1>1, <1>3, <1>7, <1>10, <2>1 DEF SearchKnows, SuggestionIsFinest, fits
<1> QED BY <1>9, <1>10

LEMMA KnowsGivenUp ==
  ASSUME SearchOK, SearchKnows, GiveUp
  PROVE  SearchKnows'
<1>1. /\ ask \in Ask /\ hi = Grain * Power2[Doublings] /\ hi \in Nat \ {0} /\ ~fits(ask, hi)
      /\ ask' = ask /\ search' = "idle" /\ ~fits(ask, Grain)
  BY DEF GiveUp, SearchOK, SearchKnows
<1>2. ASSUME NEW k \in Grain .. Grain * Power2[Doublings] PROVE ~fits(ask, k)
  <2>1. k \in Nat \ {0} /\ k <= hi
    BY <1>1, BudgetAssumption
  <2> QED BY <1>1, <2>1, FittingSpreads
<1>3. SuggestionIsFinest'
  BY <1>1, <1>2 DEF SuggestionIsFinest, fits
<1> QED BY <1>1, <1>3 DEF SearchKnows, fits

\* Each halving brings the ends together by half, up to the one that remains of
\* an odd distance.
LEMMA KnowsHalved ==
  ASSUME SearchOK, SearchKnows, Bisect
  PROVE  SearchKnows'
<1> DEFINE mid == (lo + hi) \div 2  left == Halvings - tries
<1>1. /\ ask \in Ask /\ lo \in Nat \ {0} /\ hi \in Nat \ {0} /\ fits(ask, hi) /\ ~fits(ask, lo)
      /\ lo < hi /\ hi - lo <= Power2[left] /\ tries \in 0 .. Halvings /\ tries < Halvings
      /\ ask' = ask /\ search' = "bisect" /\ tries' = tries + 1 /\ ~fits(ask, Grain)
  BY DEF Bisect, SearchOK, SearchKnows
<1>2. Doublings \in Nat /\ Halvings \in Nat /\ Halvings <= Larger(Doublings, Halvings)
  BY BudgetAssumption DEF Larger
<1>3. /\ left \in 1 .. Larger(Doublings, Halvings) /\ left - 1 \in 0 .. Larger(Doublings, Halvings)
      /\ Halvings - (tries + 1) = left - 1 /\ tries + 1 \in 0 .. Halvings
  BY <1>1, <1>2 DEF Larger
<1>4. Power2[left] = 2 * Power2[left - 1] /\ Power2[left - 1] \in Nat \ {0}
  BY <1>3, Powers2
<1>5. PICK reach \in Nat \ {0} : reach = Power2[Halvings - (tries + 1)] /\ hi - lo <= 2 * reach
  BY <1>1, <1>3, <1>4
<1>6. mid \in Nat \ {0} /\ lo <= mid /\ mid < hi /\ mid - lo <= reach /\ hi - mid <= reach
  BY <1>1, <1>5
<1> HIDE DEF mid, left
<1>7. CASE fits(ask, mid)
  <2>1. hi' = mid /\ lo' = lo
    BY <1>7 DEF Bisect, mid
  <2>2. lo # mid
    BY <1>1, <1>7
  <2> QED BY <1>1, <1>3, <1>5, <1>6, <2>1, <2>2 DEF SearchKnows, SuggestionIsFinest, fits
<1>8. CASE ~fits(ask, mid)
  <2>1. hi' = hi /\ lo' = mid
    BY <1>8 DEF Bisect, mid
  <2> QED BY <1>1, <1>3, <1>5, <1>6, <1>8, <2>1 DEF SearchKnows, SuggestionIsFinest, fits
<1> QED BY <1>7, <1>8

LEMMA KnowsMore == SearchOK /\ SearchKnows /\ [BudgetNext]_budgetVars => SearchKnows'
<1> SUFFICES ASSUME SearchOK, SearchKnows, [BudgetNext]_budgetVars PROVE SearchKnows'
  OBVIOUS
<1>1. ASSUME NEW a \in Asks, ~Granted(a), StartSearch(a) PROVE SearchKnows'
  BY <1>1, KnowsSearchBegins, BudgetAssumption
<1>2. CASE Forget
  BY <1>2, BudgetAssumption DEF Forget, SearchKnows, SuggestionIsFinest
<1>3. CASE UNCHANGED budgetVars
  BY <1>3 DEF budgetVars, SearchKnows, SuggestionIsFinest, fits
<1> QED BY <1>1, <1>2, <1>3, KnowsDoubled, KnowsGivenUp, KnowsHalved, KnowsNamed DEF BudgetNext, SearchStep

\* Whatever is asked: a refusal names the finest spacing of two digits that would
\* have done, and names none only if nothing within the doublings would. About
\* budget.rs:522-582.
THEOREM SuggestionsAreFinest == BudgetSpec => []SuggestionIsFinest
<1>1. SearchKnows => SuggestionIsFinest
  BY DEF SearchKnows
<1> QED
  BY SearchStarts, SearchGoesOn, KnowsAtFirst, KnowsMore, <1>1, PTL DEF BudgetSpec
-------------------------------------------------------------------------------
\* The pipeline. What a stage rests on was established by those before it, and a
\* report that passes was made of a job run to its end.
Stages == {"idle", "inputs", "ceiling", "search", "tool", "build", "cut", "compare"}

Asking ==
  /\ req.resolution \in Int /\ req.ceiling \in Nat \cup {None}
  /\ req.stock # Bad => req.stock.extents \in [Axes -> Nat]
  /\ req.program # Bad => /\ req.program.segments \in Seq(Nat)
                          /\ \A t \in DOMAIN req.program.hits : req.program.hits[t] \in Seq(Hit)
                          /\ req.tools # Bad => DOMAIN req.tools \subseteq DOMAIN req.program.hits

InputsRead == req.resolution > 0 /\ req.stock # Bad /\ req.tools # Bad /\ req.program # Bad

NothingHit ==
  /\ Holder # "absent"
  /\ Holder = "present" => \A h \in Range(req.program.hits[profile]) : ~is_collision(h)

Earned ==
  /\ field = "cut" /\ outcome.refused = None /\ req.nominal # None
  /\ \A c \in Range(req.program.clusters[profile][req.nominal]) : c.class # "gouge"
  /\ NothingHit

PassesEarned == pass(outcome.gates) => Earned

PipelineOK ==
  /\ stage \in Stages
  /\ stage # "idle" => Asking
  /\ stage \notin {"idle", "inputs"} => InputsRead
  /\ stage \in {"build", "cut", "compare"} => profile \in DOMAIN req.tools
  /\ stage = "compare" => field = "cut" /\ (gate = "pass" => NothingHit)
  /\ stage # "idle" => outcome = None
  /\ stage = "idle" /\ outcome # None => PassesEarned

\* What a host holds: the result of the run that is over, or null.
HeldOK ==
  /\ front = "estimate" => stage = "idle"
  /\ front \in {"c", "python"} /\ status # "running" => stage = "idle"
  /\ status = "running" => /\ front \in {"c", "python"} /\ out = None
                           /\ stage = "idle" => PassesEarned
  /\ \A c \in Callers : calls[c].phase \in {"before", "running"} => front = "page"
  /\ front = "page" /\ stage # "idle" => \E c \in Callers : calls[c].phase = "running"
  /\ out # None => /\ front \in {"c", "python"} /\ PassesEarned
                   /\ out = [pass |-> pass(outcome.gates), refused |-> outcome.refused # None]
                   /\ status = "refused" => outcome.refused # None

Call == [phase : {"idle", "before", "running", "ran"}, before : Nat, asked : Nat, bytes : Nat \cup {None}]

CallsOK ==
  /\ calls \in [Callers -> Call]
  /\ made \in Nat /\ GENERATION \in Nat /\ RESULT \in Nat \cup {None}

Jobs ==
  [program : Programs \cup {Empty}, tools : Tools \cup {Bad}, stock : Stocks \cup {Bad},
   nominal : Nominals \cup {None}, tool_id : ToolIds \cup {None},
   resolution : Resolutions \cup {None}, ceiling : Ceilings \cup {None}]

JobOK == job # None => job \in Jobs
-------------------------------------------------------------------------------
\* A refusal is a report, and passes nothing.
LEMMA RefusalFails ==
  ASSUME NEW gates, gates # {}
  PROVE  ~pass(refusal(gates))
BY DEF pass, refusal

LEMMA RefuseKeeps ==
  ASSUME PipelineOK, NEW why, Refuse(why)
  PROVE  PipelineOK' /\ PassesEarned'
<1>1. /\ stage' = "idle" /\ outcome'.gates = refusal({"gouge", "collision"})
      /\ UNCHANGED <<req, profile, field, gate>>
  BY DEF Refuse
<1>2. ~pass(outcome'.gates)
  BY <1>1, RefusalFails
<1> QED BY <1>1, <1>2 DEF PipelineOK, PassesEarned, Stages

\* A step that leaves the pipeline alone.
PipelineSame == UNCHANGED pipelineVars

LEMMA PipelineKept ==
  ASSUME PipelineSame
  PROVE  /\ PipelineOK => PipelineOK'
         /\ PassesEarned <=> PassesEarned'
BY DEF PipelineOK, PassesEarned, PipelineSame, pipelineVars, Asking, InputsRead, Earned, NothingHit, Holder

LEMMA EnterKeeps ==
  ASSUME PipelineOK, NEW request, Enter(request),
         request.resolution \in Int, request.ceiling \in Nat \cup {None},
         request.stock # Bad => request.stock.extents \in [Axes -> Nat],
         request.program # Bad =>
           /\ request.program.segments \in Seq(Nat)
           /\ \A t \in DOMAIN request.program.hits : request.program.hits[t] \in Seq(Hit)
           /\ request.tools # Bad => DOMAIN request.tools \subseteq DOMAIN request.program.hits
  PROVE  PipelineOK'
BY DEF Enter, PipelineOK, Stages, Asking

\* What a step of `run` keeps: the request it was called with.
LEMMA ReadInputsKeeps ==
  ASSUME PipelineOK, ReadInputs
  PROVE  PipelineOK' /\ (stage' = "idle" => PassesEarned')
<1>1. CASE InputsRefused # None
  BY <1>1, RefuseKeeps DEF ReadInputs
<1>2. CASE InputsRefused = None
  <2>1. stage = "inputs" /\ stage' = "ceiling" /\ UNCHANGED <<req, profile, field, collisions, gate, outcome>>
    BY <1>2 DEF ReadInputs
  <2>2. Asking /\ req.resolution \in Int
    BY <2>1 DEF PipelineOK, Asking
  <2>3. "resolution" # None /\ "stock" # None /\ "tools" # None /\ "program" # None
    BY HostsAssumption
  <2>4. req.resolution > 0
    BY <1>2, <2>2, <2>3 DEF InputsRefused
  <2>5. req.stock # Bad
    BY <1>2, <2>2, <2>3, <2>4 DEF InputsRefused
  <2>6. req.tools # Bad
    BY <1>2, <2>2, <2>3, <2>4, <2>5 DEF InputsRefused
  <2>7. req.program # Bad
    BY <1>2, <2>2, <2>3, <2>4, <2>5, <2>6 DEF InputsRefused
  <2>8. InputsRead
    BY <2>4, <2>5, <2>6, <2>7 DEF InputsRead
  <2> QED BY <2>1, <2>2, <2>8 DEF PipelineOK, Stages, Asking, InputsRead
<1> QED BY <1>1, <1>2

LEMMA CeilingKeeps ==
  ASSUME PipelineOK, Ceiling
  PROVE  PipelineOK' /\ stage' # "idle"
BY DEF Ceiling, PipelineOK, Stages, Asking, InputsRead

LEMMA LookUpKeeps ==
  ASSUME PipelineOK, LookUpTool
  PROVE  PipelineOK' /\ (stage' = "idle" => PassesEarned')
<1>1. CASE Chosen = {}
  BY <1>1, RefuseKeeps DEF LookUpTool
<1>2. CASE Chosen # {}
  <2>1. /\ stage = "tool" /\ stage' = "build" /\ profile' \in DOMAIN req.tools
        /\ UNCHANGED <<req, field, collisions, gate, outcome>>
    BY <1>2 DEF LookUpTool, Chosen
  <2> QED BY <2>1 DEF PipelineOK, Stages, Asking, InputsRead
<1> QED BY <1>1, <1>2

LEMMA BuildKeeps ==
  ASSUME PipelineOK, BuildField
  PROVE  PipelineOK' /\ (stage' = "idle" => PassesEarned')
<1>1. CASE ~req.stock.builds
  BY <1>1, RefuseKeeps DEF BuildField
<1>2. CASE req.stock.builds
  <2>1. stage = "build" /\ stage' = "cut" /\ UNCHANGED <<req, profile, collisions, gate, outcome>>
    BY <1>2 DEF BuildField
  <2> QED BY <2>1 DEF PipelineOK, Stages, Asking, InputsRead
<1> QED BY <1>1, <1>2

\* The gate of a replay passes only when there was nothing to hit, or nothing hit.
LEMMA CutKeeps ==
  ASSUME PipelineOK, Cut
  PROVE  PipelineOK' /\ stage' # "idle"
<1>1. /\ stage = "cut" /\ stage' = "compare" /\ field' = "cut" /\ UNCHANGED <<req, profile, outcome>>
  BY DEF Cut
<1>2. Asking /\ InputsRead /\ profile \in DOMAIN req.tools
  BY <1>1 DEF PipelineOK
<1>3. req.program.hits[profile] \in Seq(Hit)
  BY <1>2 DEF Asking, InputsRead
<1>4. ASSUME gate' = "pass" PROVE NothingHit
  <2>1. Holder # "absent" /\ gate' = collision_gate(Assembled)
    BY <1>4 DEF Cut, Declined
  <2>2. ASSUME Holder = "present"
        PROVE  \A h \in Range(req.program.hits[profile]) : ~is_collision(h)
    <3>1. Assembled = assemble(req.program.hits[profile], req.program.kinds, 1)
      BY <2>2 DEF Assembled
    <3>2. \A i \in DOMAIN req.program.hits[profile] : ~is_collision(req.program.hits[profile][i])
      BY <3>1, <2>1, <1>4, <1>3, AssembleTells
    <3> QED BY <3>2 DEF Range
  <2> QED BY <2>1, <2>2 DEF NothingHit
<1>5. NothingHit' <=> NothingHit
  BY <1>1 DEF NothingHit, Holder
<1> QED BY <1>1, <1>2, <1>4, <1>5 DEF PipelineOK, Stages, Asking, InputsRead

LEMMA CompareKeeps ==
  ASSUME PipelineOK, Compare
  PROVE  PipelineOK' /\ PassesEarned'
<1>1. CASE req.nominal = Bad
  BY <1>1, RefuseKeeps DEF Compare
<1>2. CASE req.nominal # Bad
  <2> DEFINE gates == [g \in {"gouge", "collision"} |->
                         IF g = "collision" THEN gate
                         ELSE IF req.nominal = None THEN "unchecked" ELSE gouge_gate(Findings_of)]
  <2>1. /\ stage = "compare" /\ stage' = "idle" /\ outcome'.refused = None /\ outcome'.gates = gates
        /\ UNCHANGED <<req, profile, field, collisions, gate>>
    BY <1>2 DEF Compare
  <2>2. ASSUME pass(gates) PROVE Earned'
    <3>1. gates["gouge"] = "pass" /\ gates["collision"] = "pass"
      BY <2>2 DEF pass
    <3>2. gate = "pass" /\ req.nominal # None /\ gouge_gate(Findings_of) = "pass"
      BY <3>1
    <3>3. field = "cut" /\ NothingHit
      BY <2>1, <3>2 DEF PipelineOK
    <3> DEFINE found == req.program.clusters[profile][req.nominal]
    <3>4. \A i \in DOMAIN found : found[i].class # "gouge"
      <4>1. Findings_of = identify(found, 1)
        BY <3>2 DEF Findings_of
      <4>2. DOMAIN identify(found, 1) = DOMAIN found
            /\ \A i \in DOMAIN found : identify(found, 1)[i].class = found[i].class
        BY DEF identify
      <4>3. ~\E i \in DOMAIN identify(found, 1) : is_defect(identify(found, 1)[i])
        BY <3>2, <4>1 DEF gouge_gate
      <4> HIDE DEF found
      <4> QED BY <4>2, <4>3 DEF is_defect
    <3>5. \A c \in Range(found) : c.class # "gouge"
      BY <3>4 DEF Range
    <3>6. NothingHit'
      BY <2>1, <3>3 DEF NothingHit, Holder
    <3> QED BY <2>1, <3>2, <3>3, <3>5, <3>6 DEF Earned
  <2> HIDE DEF gates
  <2>3. PassesEarned'
    BY <2>1, <2>2 DEF PassesEarned
  <2> QED BY <2>1, <2>3 DEF PipelineOK, Stages
<1> QED BY <1>1, <1>2

LEMMA PipelineSteps ==
  ASSUME PipelineOK, PipelineNext
  PROVE  PipelineOK' /\ stage # "idle" /\ (stage' = "idle" => PassesEarned')
<1>1. CASE Search
  BY <1>1, PipelineKept DEF Search, PipelineSame, pipelineVars
<1>2. CASE TooLarge
  BY <1>2, RefuseKeeps DEF TooLarge
<1>3. stage # "idle"
  BY DEF PipelineNext, ReadInputs, Ceiling, Search, TooLarge, LookUpTool, BuildField, Cut, Compare
<1> QED BY <1>1, <1>2, <1>3, ReadInputsKeeps, CeilingKeeps, LookUpKeeps, BuildKeeps, CutKeeps, CompareKeeps
        DEF PipelineNext
-------------------------------------------------------------------------------
\* A run searches with what it can read of its request.
LEMMA SearchOfRun ==
  ASSUME PipelineOK, SearchOK, PipelineNext
  PROVE  SearchOK'
<1>1. ASSUME UNCHANGED budgetVars PROVE SearchOK'
  BY <1>1, SearchGoesOn
<1>2. CASE Ceiling
  <2>1. CASE req.ceiling = None \/ Granted(Asked)
    BY <1>1, <1>2, <2>1 DEF Ceiling
  <2>2. CASE ~(req.ceiling = None \/ Granted(Asked))
    <3>1. Asking /\ InputsRead
      BY <1>2 DEF Ceiling, PipelineOK
    <3>2. /\ req.stock.extents \in [Axes -> Nat] /\ req.resolution \in Nat \ {0}
          /\ Len(req.program.segments) \in Nat /\ req.ceiling \in Nat
      BY <2>2, <3>1 DEF Asking, InputsRead
    <3>3. Asked \in Ask
      BY <3>2 DEF Asked, Ask
    <3> QED BY <1>2, <2>2, <3>3, SearchBegins DEF Ceiling
  <2> QED BY <2>1, <2>2
<1>3. CASE Search
  BY <1>3, SearchGoesOn DEF Search, BudgetNext
<1>4. CASE TooLarge
  BY <1>4, SearchGoesOn DEF TooLarge, BudgetNext
<1> QED BY <1>1, <1>2, <1>3, <1>4 DEF PipelineNext, ReadInputs, LookUpTool, BuildField, Cut, Compare

\* Every request that is made of a run is one it can be asked.
LEMMA RequestEnters ==
  ASSUME PipelineOK, NEW j, Sound(j), NEW default \in Nat, NEW ceiling \in Nat \cup {None}, NEW cap,
         Enter(Request(j, default, ceiling, cap))
  PROVE  PipelineOK' /\ stage' = "inputs" /\ UNCHANGED budgetVars
<1> DEFINE r == Request(j, default, ceiling, cap)
<1>1. /\ r.program = j.program /\ r.tools = j.tools /\ r.stock = j.stock /\ r.ceiling = ceiling
      /\ r.resolution = IF j.resolution = None THEN default ELSE j.resolution
  BY DEF Request
<1> HIDE DEF r
<1>2. r.resolution \in Int
  BY <1>1 DEF Sound
<1>3. /\ r.stock # Bad => r.stock.extents \in [Axes -> Nat]
      /\ r.program # Bad =>
           /\ r.program.segments \in Seq(Nat)
           /\ \A t \in DOMAIN r.program.hits : r.program.hits[t] \in Seq(Hit)
           /\ r.tools # Bad => DOMAIN r.tools \subseteq DOMAIN r.program.hits
  BY <1>1 DEF Sound
<1>4. Enter(r)
  BY DEF r
<1> QED BY <1>1, <1>2, <1>3, <1>4, EnterKeeps DEF Enter

LEMMA JobIsSound ==
  ASSUME JobOK, job # None
  PROVE  Sound(job) /\ job.ceiling \in Nat \cup {None}
<1>1. /\ job.program \in Programs \cup {Empty} /\ job.tools \in Tools \cup {Bad}
      /\ job.stock \in Stocks \cup {Bad} /\ job.resolution \in Resolutions \cup {None}
      /\ job.ceiling \in Ceilings \cup {None}
  BY DEF JobOK, Jobs
<1>2. Sound([program |-> job.program, tools |-> job.tools, stock |-> job.stock,
             resolution |-> job.resolution])
  BY <1>1, HostsAssumption
<1> QED BY <1>1, <1>2, HostsAssumption DEF Sound

\* The invariant of the pipeline and its hosts.
HostsInv == SearchOK /\ PipelineOK /\ HeldOK /\ JobOK /\ CallsOK

LEMMA HostsStart == HostsInit => HostsInv
<1> SUFFICES ASSUME HostsInit PROVE HostsInv
  OBVIOUS
<1>1. SearchOK
  BY SearchStarts DEF HostsInit, PipelineInit
<1>2. PipelineOK
  BY DEF HostsInit, PipelineInit, PipelineOK, Stages
<1>3. HeldOK /\ JobOK
  BY HostsAssumption DEF HostsInit, PipelineInit, HeldOK, JobOK
<1>4. CallsOK
  BY DEF HostsInit, CallsOK, Call
<1> QED BY <1>1, <1>2, <1>3, <1>4 DEF HostsInv

LEMMA CallsKept ==
  ASSUME CallsOK, [HostsNext]_allVars
  PROVE  CallsOK'
<1> USE DEF CallsOK, Call
<1>1. ASSUME UNCHANGED <<calls, RESULT, GENERATION>>, made' \in {made, made + 1} PROVE CallsOK'
  BY <1>1
<1>2. ASSUME NEW c \in Callers, ReadBefore(c) PROVE CallsOK'
  BY <1>2 DEF ReadBefore
<1>3. ASSUME NEW c \in Callers, run(c) PROVE CallsOK'
  <2>1. calls' = [calls EXCEPT ![c].phase = "running"] /\ made' = made /\ RESULT' = RESULT /\ GENERATION' = GENERATION
    BY <1>3 DEF run
  <2> QED BY <2>1
<1>4. ASSUME NEW c \in Callers, publish(c) PROVE CallsOK'
  <2>1. (GENERATION + 1) % GenerationEnd \in Nat
    BY HostsAssumption, SMT
  <2> QED BY <1>4, <2>1 DEF publish
<1>5. ASSUME NEW c \in Callers, Trap(c) PROVE CallsOK'
  BY <1>5 DEF Trap
<1>6. ASSUME NEW c \in Callers, ReadAfter(c) PROVE CallsOK'
  <2>1. PICK b \in Nat \cup {None} : calls' = [calls EXCEPT ![c].phase = "idle", ![c].bytes = b]
    BY <1>6 DEF ReadAfter
  <2>2. UNCHANGED <<made, RESULT, GENERATION>>
    BY <1>6 DEF ReadAfter
  <2> QED BY <2>1, <2>2
<1>7. CASE cb_job_new \/ cb_job_free \/ cb_job_run \/ cb_result_free \/ python_run \/ SetUp
  BY <1>1, <1>7 DEF cb_job_new, cb_job_free, cb_job_run, cb_result_free, python_run, SetUp, cb_job_set
<1>8. CASE Estimate \/ EstimateSearch \/ InRun \/ Returned \/ UNCHANGED allVars
  BY <1>1, <1>8 DEF Estimate, EstimateSearch, InRun, Returned, hostVars, allVars
<1> QED BY <1>2, <1>3, <1>4, <1>5, <1>6, <1>7, <1>8 DEF HostsNext, Returns

\* What a setter stores is what may be set.
LEMMA SettersKeep ==
  ASSUME JobOK, SetUp
  PROVE  JobOK'
<1>a. PICK k \in DOMAIN Settings : \E v \in Settings[k] : cb_job_set(k, v)
  BY DEF SetUp
<1>1. PICK v \in Settings[k] : cb_job_set(k, v)
  BY <1>a
<1>2. CASE job # None /\ Accepts(k, v)
  <2>1. job \in Jobs /\ job' = [job EXCEPT ![k] = Stored(k, v)]
    BY <1>1, <1>2 DEF cb_job_set, JobOK
  <2>2. k \in {"program", "tools", "stock", "nominal", "tool_id", "resolution", "ceiling"}
    BY DEF Settings
  <2>3. CASE k = "program"
    <3>1. Stored(k, v) \in Programs
      BY <1>2, <2>3 DEF Settings, Accepts, Stored
    <3> QED BY <2>1, <2>3, <3>1 DEF JobOK, Jobs
  <2>4. CASE k = "tools"
    <3>1. Stored(k, v) \in Tools
      BY <1>2, <2>4 DEF Settings, Accepts, Stored
    <3> QED BY <2>1, <2>4, <3>1 DEF JobOK, Jobs
  <2>5. CASE k = "stock"
    <3>1. Stored(k, v) \in Stocks
      BY <1>2, <2>5 DEF Settings, Accepts, Stored
    <3> QED BY <2>1, <2>5, <3>1 DEF JobOK, Jobs
  <2>6. CASE k = "nominal"
    <3>1. Stored(k, v) \in Nominals
      BY <1>2, <2>6 DEF Settings, Accepts, Stored
    <3> QED BY <2>1, <2>6, <3>1 DEF JobOK, Jobs
  <2>7. CASE k = "tool_id"
    <3>1. Stored(k, v) \in ToolIds
      BY <1>2, <2>7 DEF Settings, Accepts, Stored
    <3> QED BY <2>1, <2>7, <3>1 DEF JobOK, Jobs
  <2>8. CASE k = "resolution"
    <3>1. Stored(k, v) \in Resolutions
      BY <1>2, <2>8 DEF Settings, Accepts, Stored
    <3> QED BY <2>1, <2>8, <3>1 DEF JobOK, Jobs
  <2>9. CASE k = "ceiling"
    <3>1. Stored(k, v) \in Ceilings \cup {None}
      BY <1>2, <2>9 DEF Settings, Accepts, Stored
    <3> QED BY <2>1, <2>9, <3>1 DEF JobOK, Jobs
  <2> QED BY <2>2, <2>3, <2>4, <2>5, <2>6, <2>7, <2>8, <2>9
<1>3. CASE ~(job # None /\ Accepts(k, v))
  BY <1>1, <1>3 DEF cb_job_set, JobOK
<1> QED BY <1>2, <1>3
-------------------------------------------------------------------------------
\* The steps of the hosts that call `run`, and of a run that was called.
LEMMA RunSteps ==
  ASSUME HostsInv, InRun
  PROVE  HostsInv'
<1>1. SearchOK' /\ PipelineOK' /\ stage # "idle" /\ (stage' = "idle" => PassesEarned')
  BY SearchOfRun, PipelineSteps DEF HostsInv, InRun
<1>2. UNCHANGED hostVars
  BY DEF InRun
<1>3. HeldOK'
  BY <1>1, <1>2 DEF HostsInv, HeldOK, hostVars
<1> QED BY <1>1, <1>2, <1>3 DEF HostsInv, JobOK, hostVars, CallsOK

LEMMA CallSteps ==
  ASSUME HostsInv, cb_job_run \/ python_run \/ \E c \in Callers : run(c)
  PROVE  HostsInv'
<1>0. CallsOK'
  BY CallsKept DEF HostsInv, HostsNext
<1>1. CASE cb_job_run
  <2>1. CASE job = None
    <3>1. UNCHANGED <<budgetVars, pipelineVars, front, job, calls>> /\ out' = None /\ status' = "invalid"
          /\ front = "c" /\ stage = "idle"
      BY <1>1, <2>1 DEF cb_job_run, NoCall
    <3>2. SearchOK' /\ PipelineOK' /\ (PassesEarned <=> PassesEarned')
      BY <3>1, SearchGoesOn, PipelineKept DEF HostsInv, PipelineSame
    <3> QED BY <1>0, <3>1, <3>2 DEF HostsInv, HeldOK, JobOK, pipelineVars
  <2>2. CASE job # None
    <3>1. Sound(job) /\ job.ceiling \in Nat \cup {None}
      BY <2>2, JobIsSound DEF HostsInv
    <3>2. Enter(Request(job, 500, job.ceiling, None))
      BY <1>1, <2>2 DEF cb_job_run
    <3>3. PipelineOK' /\ stage' = "inputs" /\ UNCHANGED budgetVars
      <4>1. \A j : \A ceiling \in Nat \cup {None} :
              Sound(j) /\ Enter(Request(j, 500, ceiling, None)) =>
                PipelineOK' /\ stage' = "inputs" /\ UNCHANGED budgetVars
        BY RequestEnters DEF HostsInv
      <4> QED BY <3>1, <3>2, <4>1, ZenonT(60)
    <3>4. SearchOK'
      BY <3>3, SearchGoesOn DEF HostsInv
    <3>5. HeldOK' /\ JobOK'
      BY <1>1, <2>2, <3>3 DEF cb_job_run, HostsInv, HeldOK, JobOK
    <3> QED BY <1>0, <3>3, <3>4, <3>5 DEF HostsInv
  <2> QED BY <2>1, <2>2
<1>2. CASE python_run
  <2>1. PICK e \in Envelopes \ {Bad} : \E ceiling \in Ceilings \cup {None} :
               Enter(Request(e, 500, ceiling, None))
    BY <1>2 DEF python_run
  <2>2. PICK ceiling \in Ceilings \cup {None} : Enter(Request(e, 500, ceiling, None))
    BY <2>1
  <2>3. Sound(e) /\ ceiling \in Nat \cup {None}
    BY HostsAssumption
  <2>4. PipelineOK' /\ stage' = "inputs" /\ UNCHANGED budgetVars
    BY <2>2, <2>3, RequestEnters DEF HostsInv
  <2>5. SearchOK'
    BY <2>4, SearchGoesOn DEF HostsInv
  <2>6. HeldOK' /\ JobOK'
    BY <1>2, <2>4 DEF python_run, HostsInv, HeldOK, JobOK
  <2> QED BY <1>0, <2>4, <2>5, <2>6 DEF HostsInv
<1>3. ASSUME NEW c \in Callers, run(c) PROVE HostsInv'
  <2>1. PICK e \in Envelopes :
               IF e = Bad
               THEN /\ outcome' = [refused |-> "envelope", gates |-> refusal({"gouge", "collision"}),
                                   manifest |-> <<>>, advice |-> None]
                    /\ UNCHANGED <<budgetVars, req, stage, profile, field, collisions, gate>>
               ELSE Enter(Request(e, 600, BROWSER_CEILING_BYTES, BROWSER_SEGMENT_CAP))
    BY <1>3 DEF run
  <2>2. /\ front = "page" /\ stage = "idle"
        /\ UNCHANGED <<front, job, status, out>>
        /\ \A d \in Callers : calls'[d].phase \in {calls[d].phase, "running"}
    BY <1>3 DEF run, Running, HostsInv, HeldOK, CallsOK, Call
  <2>3. status # "running" /\ out = None
    BY <2>2 DEF HostsInv, HeldOK
  <2>4. SearchOK' /\ PipelineOK'
    <3>1. CASE e = Bad
      <4>1. ~pass(outcome'.gates)
        BY <2>1, <3>1, RefusalFails
      <4>2. PipelineOK'
        BY <2>1, <2>2, <3>1, <4>1 DEF HostsInv, PipelineOK, PassesEarned, Stages
      <4> QED BY <2>1, <3>1, <4>2, SearchGoesOn DEF HostsInv
    <3>2. CASE e # Bad
      <4>1. Sound(e) /\ BROWSER_CEILING_BYTES \in Nat \cup {None}
        BY <3>2, HostsAssumption
      <4>2. PipelineOK' /\ UNCHANGED budgetVars
        BY <2>1, <3>2, <4>1, RequestEnters DEF HostsInv
      <4> QED BY <4>2, SearchGoesOn DEF HostsInv
    <3> QED BY <3>1, <3>2
  <2>5. calls'[c].phase = "running"
    BY <1>3 DEF CallsOK, Call, run, HostsInv
  <2> QED BY <1>0, <2>2, <2>3, <2>4, <2>5 DEF HostsInv, HeldOK, JobOK
<1> QED BY <1>1, <1>2, <1>3

\* What a host does between runs, and what ends one.
LEMMA HostSteps ==
  ASSUME HostsInv,
         \/ cb_job_new \/ cb_job_free \/ cb_result_free \/ SetUp \/ Returned \/ UNCHANGED allVars
         \/ \E c \in Callers : ReadBefore(c) \/ publish(c) \/ ReadAfter(c)
  PROVE  HostsInv'
<1>0. CallsOK'
  BY CallsKept DEF HostsInv, HostsNext, Returns
<1>1. UNCHANGED <<budgetVars, pipelineVars, front>>
  BY DEF cb_job_new, cb_job_free, cb_result_free, SetUp, cb_job_set, Returned, ReadBefore, publish,
         ReadAfter, allVars, hostVars
<1>2. SearchOK' /\ PipelineOK' /\ (PassesEarned <=> PassesEarned') /\ UNCHANGED <<stage, outcome>>
  BY <1>1, SearchGoesOn, PipelineKept DEF HostsInv, PipelineSame, pipelineVars
<1> USE DEF HostsInv
<1>3. CASE cb_job_new
  <2>1. JobOK'
    BY <1>3 DEF cb_job_new, Default, JobOK, Jobs
  <2> QED BY <1>0, <1>2, <1>3, <2>1 DEF cb_job_new, HeldOK
<1>4. CASE cb_job_free
  BY <1>0, <1>2, <1>4 DEF cb_job_free, HeldOK, JobOK
<1>5. CASE cb_result_free
  BY <1>0, <1>2, <1>5 DEF cb_result_free, HeldOK, JobOK
<1>6. CASE SetUp
  <2>1. JobOK'
    BY <1>6, SettersKeep
  <2>2. status' \in {"ok", "invalid"} /\ UNCHANGED <<front, out, calls>> /\ front = "c" /\ stage = "idle"
    BY <1>6 DEF SetUp, cb_job_set, NoCall
  <2> QED BY <1>0, <1>2, <2>1, <2>2 DEF HeldOK
<1>7. CASE Returned
  <2>1. /\ front \in {"c", "python"} /\ status = "running" /\ stage = "idle"
        /\ status' = (IF outcome.refused = None THEN "ok" ELSE "refused")
        /\ out' = [pass |-> pass(outcome.gates), refused |-> outcome.refused # None]
        /\ UNCHANGED <<front, job, calls>>
    BY <1>7 DEF Returned
  <2>2. PassesEarned
    BY <2>1 DEF HeldOK
  <2>3. out' = [pass |-> pass(outcome'.gates), refused |-> outcome'.refused # None]
        /\ (status' = "refused" => outcome'.refused # None)
    BY <2>1, <1>2
  <2> QED BY <1>0, <1>2, <2>1, <2>2, <2>3 DEF HeldOK, JobOK
<1>8. ASSUME NEW c \in Callers, ReadBefore(c) PROVE HostsInv'
  BY <1>0, <1>2, <1>8 DEF CallsOK, Call, ReadBefore, HeldOK, JobOK
<1>9. ASSUME NEW c \in Callers, publish(c) PROVE HostsInv'
  BY <1>0, <1>2, <1>9 DEF CallsOK, Call, publish, HeldOK, JobOK
<1>10. ASSUME NEW c \in Callers, ReadAfter(c) PROVE HostsInv'
  BY <1>0, <1>2, <1>10 DEF CallsOK, Call, ReadAfter, HeldOK, JobOK
<1>11. CASE UNCHANGED allVars
  BY <1>0, <1>2, <1>11 DEF allVars, hostVars, HeldOK, JobOK
<1> QED BY <1>3, <1>4, <1>5, <1>6, <1>7, <1>8, <1>9, <1>10, <1>11

\* A trap ends a run without a result, and what it would have searched for.
LEMMA TrapSteps ==
  ASSUME HostsInv, NEW c \in Callers, Trap(c)
  PROVE  HostsInv'
<1>0. CallsOK'
  BY CallsKept DEF HostsInv, HostsNext
<1>1. SearchOK'
  BY DEF Trap, HostsInv, SearchOK, SuggestionFits
<1>2. /\ stage' = "idle" /\ UNCHANGED <<req, profile, field, gate, outcome, front, job, status, out>>
      /\ front = "page" /\ \A d \in Callers : calls'[d].phase \in {calls[d].phase, "idle"}
  BY DEF Trap, HostsInv, HeldOK, CallsOK, Call
<1>3. PassesEarned <=> PassesEarned'
  BY <1>2 DEF PassesEarned, Earned, NothingHit, Holder
<1>4. PipelineOK'
  BY <1>2, <1>3 DEF HostsInv, PipelineOK, Stages
<1> QED BY <1>0, <1>1, <1>2, <1>3, <1>4 DEF HostsInv, HeldOK, JobOK

\* mem-estimate searches without a run.
LEMMA EstimateSteps ==
  ASSUME HostsInv, Estimate \/ EstimateSearch
  PROVE  HostsInv'
<1>1. BudgetNext /\ UNCHANGED <<pipelineVars, hostVars>>
  BY DEF Estimate, EstimateSearch, BudgetNext
<1>2. SearchOK' /\ PipelineOK' /\ (PassesEarned <=> PassesEarned')
  BY <1>1, SearchGoesOn, PipelineKept DEF HostsInv, PipelineSame
<1> QED BY <1>1, <1>2 DEF HostsInv, HeldOK, JobOK, CallsOK, pipelineVars, hostVars

LEMMA HostsGoOn == HostsInv /\ [HostsNext]_allVars => HostsInv'
BY RunSteps, CallSteps, HostSteps, TrapSteps, EstimateSteps DEF HostsNext, Returns

LEMMA HostsInvHolds == HostsSpec => []HostsInv
BY HostsStart, HostsGoOn, PTL DEF HostsSpec

\* Whichever host asks, and whatever it sets in whatever order: a pass is earned,
\* and a pass that is read is the pass of a report, never of a null, a refusal or
\* a run that could not start. About pipeline.rs:203-309 and abi/src/job.rs:286-320.
THEOREM PassIsReadHolds == HostsSpec => []PassIsRead
<1>1. HostsInv => PassIsRead
  <2> SUFFICES ASSUME HostsInv PROVE PassIsRead
    OBVIOUS
  <2>1. PassIsEarned
    BY DEF HostsInv, PipelineOK, PassesEarned, Earned, NothingHit, PassIsEarned
  <2>2. ASSUME cb_result_pass
        PROVE  ~out.refused /\ status # "refused" /\ outcome.refused = None /\ pass(outcome.gates)
    <3>1. out # None /\ out.pass
      BY <2>2 DEF cb_result_pass
    <3>2. /\ out = [pass |-> pass(outcome.gates), refused |-> outcome.refused # None]
          /\ PassesEarned /\ (status = "refused" => outcome.refused # None)
      BY <3>1 DEF HostsInv, HeldOK
    <3>3. pass(outcome.gates) /\ (out.refused <=> outcome.refused # None)
      BY <3>1, <3>2, Zenon
    <3>4. outcome.refused = None
      BY <3>2, <3>3 DEF PassesEarned, Earned
    <3> QED BY <3>2, <3>3, <3>4
  <2> QED BY <2>1, <2>2 DEF PassIsRead
<1> QED BY <1>1, HostsInvHolds, PTL

\* The suggestion fits in every run of every host, not only in mem-estimate's.
THEOREM RunsSuggestWhatFits == HostsSpec => []SuggestionFits
<1>1. HostsInv => SuggestionFits
  BY DEF HostsInv, SearchOK
<1> QED BY <1>1, HostsInvHolds, PTL

\* Every step of a host leaves the search alone, is a step of it, begins one for
\* what a run may ask, or traps.
LEMMA KnowsWhoeverAsks ==
  ASSUME HostsInv, SearchKnows, [HostsNext]_allVars
  PROVE  SearchKnows'
<1>1. ASSUME UNCHANGED budgetVars \/ BudgetNext PROVE SearchKnows'
  BY <1>1, KnowsMore DEF HostsInv
<1>2. CASE InRun
  <2>1. CASE Ceiling
    <3>1. CASE req.ceiling = None \/ Granted(Asked)
      BY <1>1, <2>1, <3>1 DEF Ceiling
    <3>2. CASE ~(req.ceiling = None \/ Granted(Asked))
      <4>1. Asking /\ InputsRead
        BY <2>1 DEF Ceiling, HostsInv, PipelineOK
      <4>2. /\ req.stock.extents \in [Axes -> Nat] /\ req.resolution \in Nat \ {0}
            /\ Len(req.program.segments) \in Nat /\ req.ceiling \in Nat
        BY <3>2, <4>1 DEF Asking, InputsRead
      <4>3. Asked \in Ask
        BY <4>2 DEF Asked, Ask
      <4>4. StartSearch(Asked)
        BY <2>1, <3>2 DEF Ceiling
      <4> QED BY <3>2, <4>3, <4>4, KnowsSearchBegins DEF HostsInv
    <3> QED BY <3>1, <3>2
  <2>2. CASE Search
    BY <1>1, <2>2 DEF Search, BudgetNext
  <2>3. CASE TooLarge
    BY <1>1, <2>3 DEF TooLarge, BudgetNext
  <2> QED BY <1>1, <1>2, <2>1, <2>2, <2>3
          DEF InRun, PipelineNext, ReadInputs, LookUpTool, BuildField, Cut, Compare
<1>3. CASE Estimate \/ EstimateSearch
  BY <1>1, <1>3 DEF Estimate, EstimateSearch, BudgetNext
<1>4. CASE cb_job_run \/ python_run \/ \E c \in Callers : run(c)
  BY <1>1, <1>4 DEF cb_job_run, python_run, run, Enter
<1>5. CASE \/ cb_job_new \/ cb_job_free \/ cb_result_free \/ SetUp \/ Returned \/ UNCHANGED allVars
           \/ \E c \in Callers : ReadBefore(c) \/ publish(c) \/ ReadAfter(c)
  BY <1>1, <1>5 DEF cb_job_new, cb_job_free, cb_result_free, SetUp, cb_job_set, Returned, ReadBefore,
                    publish, ReadAfter, allVars
<1>6. ASSUME NEW c \in Callers, Trap(c) PROVE SearchKnows'
  BY <1>6 DEF Trap, SearchKnows, SuggestionIsFinest
<1> QED BY <1>2, <1>3, <1>4, <1>5, <1>6 DEF HostsNext, Returns

\* Whichever host asks: a refusal for memory names the finest spacing that will
\* do, as round as a person would type it, and names none only where there is
\* none to name. About pipeline.rs:203-309 and budget.rs:522-582.
THEOREM RunsSuggestTheFinest == HostsSpec => []SuggestionIsFinest
<1>1. HostsInit => SearchKnows
  BY KnowsAtFirst DEF HostsInit, PipelineInit
<1>2. SearchKnows => SuggestionIsFinest
  BY DEF SearchKnows
<1> QED BY HostsInvHolds, KnowsWhoeverAsks, <1>1, <1>2, PTL DEF HostsSpec

-------------------------------------------------------------------------------
\* The counter counts the results that were published, and a run that has not
\* published yet was asked for: so it comes back to 0 at most once, at the end.
Pending == {c \in Callers : calls[c].phase \in {"before", "running"}}

Published(P) ==
  /\ P + Cardinality(Pending) <= made /\ made <= MaxCalls
  /\ GENERATION = P % GenerationEnd
  /\ \A c \in Callers :
       /\ calls[c].phase \in {"before", "running"} => calls[c].before <= P
       /\ calls[c].phase = "ran" => /\ calls[c].before < P
                                    /\ P = calls[c].before + 1 => RESULT = calls[c].asked
       /\ calls[c].bytes \in {None, calls[c].asked}

Counted == \E P \in Nat : Published(P)

LEMMA CountedStarts == HostsInit => Counted
<1> SUFFICES ASSUME HostsInit PROVE Published(0)
  BY DEF Counted
<1>1. Pending = {}
  BY DEF HostsInit, Pending
<1>2. 0 + Cardinality(Pending) <= made /\ made <= MaxCalls
  BY <1>1, FS_EmptySet, HostsAssumption DEF HostsInit
<1>3. 0 % GenerationEnd = 0
  BY HostsAssumption, SMT
<1> QED BY <1>2, <1>3 DEF HostsInit, Published

LEMMA PendingFinite == IsFiniteSet(Pending) /\ Cardinality(Pending) \in Nat
BY FS_Subset, FS_CardinalityType, HostsAssumption DEF Pending

LEMMA CountedKept ==
  ASSUME CallsOK, Counted, [HostsNext]_allVars
  PROVE  Counted'
<1>1. PICK P \in Nat : Published(P)
  BY DEF Counted
<1>2. IsFiniteSet(Pending) /\ Cardinality(Pending) \in Nat
  BY PendingFinite
<1>3. GenerationEnd \in Nat \ {0} /\ MaxCalls \in Nat /\ made \in Nat /\ MaxCalls <= GenerationEnd
  BY HostsAssumption, FewerThanWrap DEF CallsOK
<1>4. P <= made /\ made <= MaxCalls
  BY <1>1, <1>2, <1>3 DEF Published
<1>5. \A x \in Nat : x < GenerationEnd => x % GenerationEnd = x
  BY <1>3, SMTT(30)
<1>6. GenerationEnd % GenerationEnd = 0
  BY <1>3, SMTT(30)
<1>7. ASSUME UNCHANGED <<calls, RESULT, GENERATION>>, made' \in Nat, made <= made', made' <= MaxCalls
      PROVE  Counted'
  <2>1. Pending' = Pending
    BY <1>7 DEF Pending
  <2>2. Published(P)'
    BY <1>1, <1>2, <1>3, <1>7, <2>1 DEF Published
  <2> QED BY <2>2 DEF Counted
<1>8. ASSUME NEW c \in Callers, ReadBefore(c) PROVE Counted'
  <2>1. Pending' = Pending \cup {c} /\ c \notin Pending
    BY <1>8 DEF ReadBefore, Pending, CallsOK, Call
  <2>2. Cardinality(Pending') = Cardinality(Pending) + 1
    BY <1>2, <2>1, FS_AddElement
  <2>3. GENERATION = P
    BY <1>1, <1>3, <1>4, <1>5, <1>8 DEF Published, ReadBefore
  <2>4. Published(P)'
    BY <1>1, <1>2, <1>3, <1>8, <2>2, <2>3 DEF ReadBefore, Published, CallsOK, Call
  <2> QED BY <2>4 DEF Counted
<1>9. ASSUME NEW c \in Callers, run(c) PROVE Counted'
  <2>1. Pending' = Pending
    BY <1>9 DEF run, Pending, CallsOK, Call
  <2>2. Published(P)'
    BY <1>1, <1>9, <2>1 DEF run, Published, CallsOK, Call
  <2> QED BY <2>2 DEF Counted
<1>10. ASSUME NEW c \in Callers, publish(c) PROVE Counted'
  <2>1. Pending' = Pending \ {c} /\ c \in Pending
    BY <1>10 DEF publish, Pending, CallsOK, Call
  <2>2. Cardinality(Pending') = Cardinality(Pending) - 1
    BY <1>2, <2>1, FS_RemoveElement
  <2>3. P + 1 + Cardinality(Pending') <= made' /\ made' <= MaxCalls
    BY <1>1, <1>2, <1>10, <2>2, <1>3 DEF Published, publish
  <2>4. P < GenerationEnd
    <3>1. Cardinality(Pending) >= 1
      BY <1>2, <2>1, FS_EmptySet
    <3> QED BY <3>1, <1>1, <1>2, <1>3 DEF Published
  <2>5. GENERATION' = (P + 1) % GenerationEnd
    BY <1>1, <1>5, <1>10, <2>4 DEF Published, publish
  <2>6. Published(P + 1)'
    BY <1>1, <1>10, <2>3, <2>5 DEF publish, Published, CallsOK, Call
  <2> QED BY <2>6 DEF Counted
<1>11. ASSUME NEW c \in Callers, Trap(c) PROVE Counted'
  <2>1. Pending' = Pending \ {c} /\ c \in Pending
    BY <1>11 DEF Trap, Pending, CallsOK, Call
  <2>2. Cardinality(Pending') = Cardinality(Pending) - 1
    BY <1>2, <2>1, FS_RemoveElement
  <2>3. Published(P)'
    BY <1>1, <1>2, <1>3, <1>11, <2>2 DEF Trap, Published, CallsOK, Call
  <2> QED BY <2>3 DEF Counted
<1>12. ASSUME NEW c \in Callers, ReadAfter(c) PROVE Counted'
  <2>1. Pending' = Pending
    BY <1>12 DEF ReadAfter, Pending, CallsOK, Call
  <2>2. ASSUME GENERATION = calls[c].before + 1 PROVE RESULT = calls[c].asked
    <3>1. calls[c].before \in Nat /\ calls[c].before < P
      BY <1>1, <1>12 DEF ReadAfter, Published, CallsOK, Call
    <3>2. P # GenerationEnd
      BY <1>1, <1>6, <2>2, <3>1 DEF Published
    <3>3. P < GenerationEnd
      BY <1>3, <1>4, <3>2
    <3> QED BY <1>1, <1>5, <1>12, <2>2, <3>1, <3>3 DEF ReadAfter, Published
  <2>3. Published(P)'
    BY <1>1, <1>12, <2>1, <2>2 DEF ReadAfter, Published, CallsOK, Call
  <2> QED BY <2>3 DEF Counted
<1>13. CASE cb_job_new \/ cb_job_free \/ cb_job_run \/ cb_result_free \/ python_run \/ SetUp
  BY <1>3, <1>4, <1>7, <1>13 DEF cb_job_new, cb_job_free, cb_job_run, cb_result_free, python_run, SetUp, cb_job_set
<1>14. CASE Estimate \/ EstimateSearch \/ InRun \/ Returned \/ UNCHANGED allVars
  BY <1>3, <1>4, <1>7, <1>14 DEF Estimate, EstimateSearch, InRun, Returned, hostVars, allVars
<1> QED BY <1>8, <1>9, <1>10, <1>11, <1>12, <1>13, <1>14 DEF HostsNext, Returns

\* However the runs of a page are asked for, trap, are refused and are read: who
\* finds the counter one further reads the result of the run it asked for, as
\* long as the page lives no longer than the counter. About wasm/src/lib.rs:150-250.
THEOREM BytesAreYoursHolds == HostsSpec => []BytesAreYours
<1>1. Counted => BytesAreYours
  BY DEF Counted, Published, BytesAreYours
<1>2. HostsInv => CallsOK
  BY DEF HostsInv
<1>3. HostsSpec => []Counted
  BY CountedStarts, CountedKept, HostsInvHolds, <1>2, PTL DEF HostsSpec
<1> QED BY <1>1, <1>3, PTL
===============================================================================
