-------------------------------- MODULE Budget --------------------------------
(***************************************************************************)
(* crates/chipbreaker-core/src/budget.rs: what a job will need of memory,   *)
(* predicted before anything is allocated, and the search for a spacing     *)
(* that would have fitted, which a refusal names.                           *)
(*                                                                          *)
(* Lengths are integers. A spacing is scaled by k/Grain, and a scaled       *)
(* spacing is in units of 1/Grain, Grain being a power of ten, so that      *)
(* rounding to digits is exact. The code's scale is a float, as fine at     *)
(* every magnitude as its bisection goes on for.                            *)
(***************************************************************************)
EXTENDS Integers

CONSTANTS
  None,
  Grain,              \* how fine the scale is
  Doublings,          \* 40 in the code
  Halvings,           \* 40 in the code
  bytes_per_ray, bytes_per_spilled_ray, IR_BYTES_PER_SEGMENT, BYTES_PER_WORKER,
  EXTRACTION_BYTES_PER_PLANE_CORNER,
  Asks                \* [extents, spacing, segments, extracting, workers, limit]

Axes == 1 .. 3

Ask == [extents : [Axes -> Nat], spacing : [Axes -> Nat \ {0}], segments : Nat,
        extracting : BOOLEAN, workers : Nat, limit : Nat]

ASSUME BudgetAssumption ==
  /\ Grain \in Nat \ {0} /\ Doublings \in Nat /\ Halvings \in Nat
  /\ bytes_per_ray \in Nat /\ bytes_per_spilled_ray \in Nat /\ IR_BYTES_PER_SEGMENT \in Nat
  /\ BYTES_PER_WORKER \in Nat /\ EXTRACTION_BYTES_PER_PLANE_CORNER \in Nat
  /\ Asks \subseteq Ask
  /\ None \notin Int /\ None \notin [Axes -> Int]

VARIABLES
  ask,         \* what check_with_workers was called with, or None
  search,      \* "idle", "double", "bisect"
  lo, hi,      \* scales: lo does not fit, hi does once one was found
  tries,       \* how often the loop has run
  suggestion   \* the spacing a refusal names, or None

budgetVars == <<ask, search, lo, hi, tries, suggestion>>
-------------------------------------------------------------------------------
Larger(a, b) == IF a < b THEN b ELSE a

\* The number of cells of size h/per along an extent: at least one, and none of
\* nothing.
axis_count(extent, h, per) ==
  IF extent = 0 THEN 0 ELSE (extent * per + h - 1) \div h

Rays(n) == n[2] * n[3] + n[3] * n[1] + n[1] * n[2]

LargestBundle(n) == Larger(n[2] * n[3], Larger(n[3] * n[1], n[1] * n[2]))

\* predict_with_workers(...).total_bytes() for a spacing of h/per.
TotalBytes(a, h, per) ==
  LET n == [i \in Axes |-> axis_count(a.extents[i], h[i], per)]
  IN  Rays(n) * bytes_per_ray + LargestBundle(n) * bytes_per_spilled_ray
        + (IF a.extracting THEN (n[1] + 2) * (n[2] + 2) * EXTRACTION_BYTES_PER_PLANE_CORNER ELSE 0)
        + a.segments * IR_BYTES_PER_SEGMENT
        + Larger(a.workers, 1) * BYTES_PER_WORKER

Scaled(a, k) == [i \in Axes |-> a.spacing[i] * k]

Power2[n \in 0 .. Larger(Doublings, Halvings)] == IF n = 0 THEN 1 ELSE 2 * Power2[n - 1]

\* The bisection goes on until the ends are next to each other: "far past the
\* point where the answer stops moving".
ASSUME FineAssumption == Grain * Power2[Doublings] <= Power2[Halvings]

fits(a, k) == TotalBytes(a, Scaled(a, k), Grain) <= a.limit

\* As many decades as there are in 31 bits.
Powers == {1, 10, 100, 1000, 10000, 100000, 1000000, 10000000, 100000000, 1000000000}

\* Ten to the power of d - 1.
Decade == [d \in 2 .. 4 |-> CASE d = 2 -> 10 [] d = 3 -> 100 [] d = 4 -> 1000]

\* The decade of the leading digit.
Leading(n) == CHOOSE p \in Powers : p <= n /\ (p = 1000000000 \/ n < 10 * p)

\* The unit of the last of d significant digits; what has fewer is whole.
Unit(n, d) == IF Leading(n) >= Decade[d] THEN Leading(n) \div Decade[d] ELSE 1

RoundUp(n, d) == LET u == Unit(n, d) IN ((n + u - 1) \div u) * u

round_up_significant(h, d) == [i \in Axes |-> RoundUp(h[i], d)]

\* The first axis tells how far rounding has taken the scale: what is tried is
\* the spacing at that scale.
FitsRounded(a, nice) ==
  TotalBytes(a, [i \in Axes |-> a.spacing[i] * nice[1]], Grain * a.spacing[1]) <= a.limit

\* Slip: to the nearest two digits, and not tried.
NamedToNearest(a, k) ==
  [i \in Axes |-> LET u == Unit(Scaled(a, k)[i], 2) IN ((Scaled(a, k)[i] + u \div 2) \div u) * u]

\* The spacing at a scale, to the fewest digits of 2, 3 and 4 at which that fits,
\* and as it is if none does.
Named(a, k) ==
  LET exact == Scaled(a, k)
      fitting == {d \in 2 .. 4 : FitsRounded(a, round_up_significant(exact, d))}
  IN  IF fitting = {} THEN exact
      ELSE round_up_significant(exact, CHOOSE d \in fitting : \A e \in fitting : d <= e)
-------------------------------------------------------------------------------
BudgetInit ==
  /\ ask = None /\ search = "idle"
  /\ lo = Grain /\ hi = Grain /\ tries = 0 /\ suggestion = None

\* check_with_workers: what fits is granted, and a program alone too large is
\* past helping by any spacing.
Granted(a) == fits(a, Grain)

Hopeless(a) == a.segments * IR_BYTES_PER_SEGMENT > a.limit

StartSearch(a) ==
  /\ search = "idle"
  /\ ask' = a
  /\ suggestion' = None /\ lo' = Grain /\ hi' = Grain /\ tries' = 0
  /\ search' = IF Hopeless(a) THEN "idle" ELSE "double"

Double ==
  /\ search = "double" /\ tries < Doublings
  /\ hi' = 2 * hi
  /\ IF fits(ask, 2 * hi)
     THEN search' = "bisect" /\ tries' = 0
     ELSE search' = search /\ tries' = tries + 1
  /\ UNCHANGED <<ask, lo, suggestion>>

GiveUp ==
  /\ search = "double" /\ tries = Doublings
  /\ search' = "idle"
  /\ UNCHANGED <<ask, lo, hi, tries, suggestion>>

\* Slip: until the ends meet.
BisectUntilMet ==
  /\ search = "bisect" /\ lo # hi
  /\ LET mid == (lo + hi) \div 2
     IN  IF fits(ask, mid) THEN hi' = mid /\ UNCHANGED lo ELSE lo' = mid /\ UNCHANGED hi
  /\ UNCHANGED <<ask, search, tries, suggestion>>

\* Slip: the ends change places.
BisectAcross ==
  /\ search = "bisect" /\ tries < Halvings
  /\ LET mid == (lo + hi) \div 2
     IN  IF fits(ask, mid) THEN lo' = mid /\ UNCHANGED hi ELSE hi' = mid /\ UNCHANGED lo
  /\ tries' = tries + 1
  /\ UNCHANGED <<ask, search, suggestion>>

Bisect ==
  /\ search = "bisect" /\ tries < Halvings
  /\ LET mid == (lo + hi) \div 2
     IN  IF fits(ask, mid) THEN hi' = mid /\ UNCHANGED lo ELSE lo' = mid /\ UNCHANGED hi
  /\ tries' = tries + 1
  /\ UNCHANGED <<ask, search, suggestion>>

Name ==
  /\ search = "bisect" /\ tries = Halvings
  /\ suggestion' = Named(ask, hi) /\ search' = "idle"
  /\ UNCHANGED <<ask, lo, hi, tries>>

\* The call that searched has returned.
Forget ==
  /\ search = "idle" /\ ask # None
  /\ ask' = None /\ suggestion' = None
  /\ UNCHANGED <<search, lo, hi, tries>>

SearchStep == Double \/ GiveUp \/ Bisect \/ Name

BudgetNext ==
  \/ \E a \in Asks : ~Granted(a) /\ StartSearch(a)
  \/ SearchStep
  \/ Forget

BudgetSpec == BudgetInit /\ [][BudgetNext]_budgetVars
-------------------------------------------------------------------------------
\* A suggestion fits: whoever runs the refused job again at the spacing the
\* refusal names is not refused again. It is rounded on each axis by itself,
\* and what was tried was another spacing than the one that is named. About
\* `coarsest_that_fits`, budget.rs:522-582, and the sentence of TooLarge.
SuggestionFits ==
  suggestion # None => TotalBytes(ask, suggestion, Grain) <= ask.limit

\* And it is the finest of those as round: no scale at which the spacing would
\* have fitted rounds to anything finer on any axis. Where none is named the
\* program alone is too large, or no scale within the doublings would do. The
\* search finds that although it looks at a few scales only, because what fits
\* at one fits at every coarser one. About budget.rs:522-582.
SuggestionIsFinest ==
  ask # None /\ search = "idle" =>
    \A k \in Grain .. Grain * Power2[Doublings] :
      fits(ask, k) =>
        /\ suggestion # None
        /\ LET rounded == round_up_significant(Scaled(ask, k), 2)
           IN  \A i \in Axes : suggestion[i] <= rounded[i]
===============================================================================
