------------------------------- MODULE Cutting -------------------------------
(***************************************************************************)
(* What one motion does to one ray, and what cutting a motion list one      *)
(* motion at a time does to a field: crates/chipbreaker-core/src/sweep/     *)
(* cut.rs, with split_runs of batch.rs. ParallelCut and CutDriver extend    *)
(* it, share its variables - a cut in progress - and are compared with the  *)
(* definitions below `Sequential`.                                          *)
(*                                                                         *)
(* A field has bundles of parallel rays. A ray's material is a set of       *)
(* cells; a cell of weight zero stands for a cut that rearranges a ray's    *)
(* spans without changing their measure. A motion sweeps some cells of some *)
(* rays and has, per bundle, a box of ray indices outside which it sweeps   *)
(* nothing. Volumes are floats: addition rounds, so it does not associate.  *)
(***************************************************************************)
EXTENDS Integers, Sequences, FiniteSets, SequencesExt

CONSTANTS
  Bundles,    \* how many bundles the field has (AXES, in order)
  Rays,       \* rays per bundle
  Cell,       \* the pieces of material a ray can hold
  Weight,     \* the volume of each cell
  Precision   \* significant bits of the volumes' floating point type

Bundle == 1 .. Bundles
Ray == 0 .. Rays - 1

Fields == [Bundle -> [Ray -> SUBSET Cell]]

ASSUME CuttingAssumption ==
  /\ Bundles \in Nat \ {0}
  /\ Rays \in Nat
  /\ Weight \in [Cell -> Nat]
  /\ Precision \in Nat \ {0}

VARIABLES
  motions,   \* the motion list
  stock,     \* the field as it was read
  field,     \* the field
  lo,        \* the first motion of the current run
  removed,   \* per motion and bundle, the volume removed so far
  pc         \* where the cut is
-----------------------------------------------------------------------------
\* A sum rounded to Precision significant bits, ties to even.
Rounded[sum \in Nat] ==
  IF sum < 2^Precision
  THEN sum
  ELSE LET e == CHOOSE e \in 1 .. sum :
                  2^(Precision - 1) <= sum \div 2^e /\ sum \div 2^e < 2^Precision
           q == sum \div 2^e
           rest == sum % 2^e
           up == 2 * rest > 2^e \/ (2 * rest = 2^e /\ q % 2 = 1)
       IN  (IF up THEN q + 1 ELSE q) * 2^e

FAdd(x, y) == Rounded[x + y]

\* A sum accumulated from zero, left to right.
FSum(values) == FoldLeft(FAdd, 0, values)

Measure(cells) == MapThenSumSet(LAMBDA c : Weight[c], cells)

\* A ray's cell could meet the box; the half-cell slack is in the box.
transverse_overlaps(box, r) == box[1] <= r /\ r <= box[2]

\* The hull of a set of boxes.
BoxUnion(boxes) == << Min({box[1] : box \in boxes}), Max({box[2] : box \in boxes}) >>

\* A motion's kind (exact or sub-stepped), tool, swept cells, and a box that
\* holds every ray it sweeps anything of.
Motions ==
  {m \in [exact : BOOLEAN, tool : Nat, box : [Bundle -> Ray \X Ray],
          swept : [Bundle -> [Ray -> SUBSET Cell]]] :
     \A b \in Bundle, r \in Ray :
       m.swept[b][r] # {} => transverse_overlaps(m.box[b], r)}

\* Material left of a ray, and the volume that goes: apply_swept.
Remainder(material, swept) == material \ swept
Cut(material, swept) == Measure(material) - Measure(Remainder(material, swept))

\* The end of the run that starts at `start`: at most `size` motions that share
\* what `kinds` says of them. split_runs is the succession of these.
RunEnd(kinds, start, size) ==
  LET limit == IF start + size - 1 < Len(kinds) THEN start + size - 1 ELSE Len(kinds)
  IN  CHOOSE e \in start .. limit :
        /\ \A i \in start .. e : kinds[i] = kinds[start]
        /\ e = limit \/ kinds[e + 1] # kinds[start]
-----------------------------------------------------------------------------
(* Sequential: each motion walks every ray of every bundle before the next. *)

\* What is left of ray r of bundle b after each prefix of the motion list.
MaterialAfter(list, read, b, r) ==
  LET after[k \in 0 .. Len(list)] ==
        IF k = 0 THEN read[b][r]
        ELSE Remainder(after[k - 1], list[k].swept[b][r])
  IN  after

SequentialField(list, read) ==
  [b \in Bundle |-> [r \in Ray |-> MaterialAfter(list, read, b, r)[Len(list)]]]

\* Every ray every motion is offered, and those its guards let through.
Offers(list) == Bundle \X Ray \X (1 .. Len(list))

IsTested(list, read, b, r, k) ==
  /\ transverse_overlaps(list[k].box[b], r)
  /\ MaterialAfter(list, read, b, r)[k - 1] # {}

CutBy(list, read, b, r, k) ==
  Cut(MaterialAfter(list, read, b, r)[k - 1], list[k].swept[b][r])

IsChanged(list, read, b, r, k) ==
  IsTested(list, read, b, r, k) /\ CutBy(list, read, b, r, k) > 0

\* cut_bundle_motion's statistics, added up over bundles and motions.
SequentialCounters(list, read) ==
  LET tested == {o \in Offers(list) : IsTested(list, read, o[1], o[2], o[3])}
      changed == {o \in Offers(list) : IsChanged(list, read, o[1], o[2], o[3])}
  IN  [tested |-> Cardinality(tested),
       rejected |-> Cardinality(Offers(list)) - Cardinality(tested),
       changed |-> Cardinality(changed)]

\* What motion k removed from bundle b, rays ascending; a ray that loses nothing
\* adds nothing.
RemovedBy(list, read, b, k) ==
  LET sum[n \in 0 .. Rays] ==
        IF n = 0 THEN 0
        ELSE IF IsChanged(list, read, b, n - 1, k)
             THEN FAdd(sum[n - 1], CutBy(list, read, b, n - 1, k))
             ELSE sum[n - 1]
  IN  sum[Rays]

\* The reported volume, per bundle: the motions' volumes in motion order.
SequentialVolume(list, read) ==
  [b \in Bundle |-> FSum([k \in 1 .. Len(list) |-> RemovedBy(list, read, b, k)])]
=============================================================================
