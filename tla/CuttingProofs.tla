-------------------------- MODULE CuttingProofs -------------------------------
(***************************************************************************)
(* Proofs about cutting, in parallel, in the loop of `run`, and in sessions  *)
(* of commands.                                                             *)
(*                                                                         *)
(* ParallelCut: what run_chunk finds is compared with the motion list cut   *)
(* one motion at a time, by induction over the motions of a run; the        *)
(* invariant then follows each chunk from the shared counter to the shared  *)
(* list, and the write-back needs only that every chunk is there once. The  *)
(* totals need the order as well: the chunks, put in order, are chunks 0, 1 *)
(* and so on, and their contributions to a motion are those of the rays,    *)
(* ascending, which is how one motion at a time adds them up.               *)
(*                                                                         *)
(* CutDriver: in the middle of a run every ray is as the motions it has     *)
(* been offered leave it, and the counters and volumes are theirs.          *)
(*                                                                         *)
(* Commands: files are known - a field is what its cuts make of what it was *)
(* built from - and every verb answers honestly; a run in progress cuts     *)
(* what it was asked for.                                                   *)
(***************************************************************************)
EXTENDS ParallelCut, Commands, SharedLemmas, SequenceTheorems

-----------------------------------------------------------------------------
(* Cutting: runs, hulls, and what a motion list leaves of a ray.             *)

(* split_runs: a run is not empty and stays inside the motion list.          *)
LEMMA RunEndBetween ==
  ASSUME NEW K, NEW kinds \in Seq(K), NEW start \in 1 .. Len(kinds), NEW size \in Nat \ {0}
  PROVE  RunEnd(kinds, start, size) \in start .. Len(kinds)
<1> DEFINE limit == IF start + size - 1 < Len(kinds) THEN start + size - 1 ELSE Len(kinds)
           Stops(e) == e = limit \/ kinds[e + 1] # kinds[start]
           Ends == {e \in start .. limit : Stops(e)}
<1>1. limit \in start .. Len(kinds)
  OBVIOUS
<1>2. Ends \in SUBSET Nat /\ Ends # {}
  BY <1>1
<1>3. PICK e \in Ends : \A d \in Ends : e <= d
  <2> HIDE DEF Ends
  <2> QED BY <1>2, NatMin
<1>4. ASSUME NEW i \in start .. e PROVE kinds[i] = kinds[start]
  <2>1. CASE i = start
    BY <2>1
  <2>2. CASE i # start
    <3>1. i - 1 \in start .. limit /\ ~(e <= i - 1)
      BY <1>1, <1>3, <2>2
    <3>2. ~Stops(i - 1)
      BY <1>3, <3>1
    <3> QED BY <3>1, <3>2
  <2> QED BY <2>1, <2>2
<1>5. \E x \in start .. limit : (\A i \in start .. x : kinds[i] = kinds[start]) /\ Stops(x)
  BY <1>3, <1>4
<1>6. RunEnd(kinds, start, size) \in start .. limit
  <2> HIDE DEF limit
  <2> QED BY <1>5 DEF RunEnd, limit
<1> QED BY <1>1, <1>6

(* The hull of a run's boxes holds every ray that one of them holds.         *)
LEMMA HullHolds ==
  ASSUME NEW boxes \in SUBSET (Ray \X Ray), NEW box \in boxes, NEW r \in Ray,
         transverse_overlaps(box, r)
  PROVE  transverse_overlaps(BoxUnion(boxes), r)
<1> DEFINE Lows == {x[1] : x \in boxes}
           Highs == {x[2] : x \in boxes}
<1>1. Rays \in Nat
  BY CuttingAssumption
<1>2. Lows \in SUBSET Nat /\ Highs \in SUBSET (0 .. Rays) /\ box[1] \in Lows /\ box[2] \in Highs
  BY <1>1 DEF Ray
<1>3. Min(Lows) <= box[1]
  <2>1. \E x \in Lows : \A y \in Lows : x <= y
    BY <1>2, NatMin
  <2> QED BY <1>2, <2>1 DEF Min
<1>4. box[2] <= Max(Highs)
  <2>1. \E x \in Highs : \A y \in Highs : y <= x
    BY <1>1, <1>2, NatMax
  <2>2. \E x \in Highs : \A y \in Highs : x >= y
    BY <1>2, <2>1
  <2> QED BY <1>2, <2>2 DEF Max
<1>5. Min(Lows) \in Nat /\ Max(Highs) \in Nat
  <2>1. \E x \in Lows : \A y \in Lows : x <= y
    BY <1>2, NatMin
  <2>2. \E x \in Highs : \A y \in Highs : y <= x
    BY <1>1, <1>2, NatMax
  <2>3. \E x \in Highs : \A y \in Highs : x >= y
    BY <1>2, <2>2
  <2> QED BY <1>2, <2>1, <2>3 DEF Min, Max
<1>6. box[1] \in Nat /\ box[2] \in Nat /\ r \in Nat
  BY <1>1, <1>2 DEF Ray
<1>7. BoxUnion(boxes) = <<Min(Lows), Max(Highs)>>
  BY DEF BoxUnion
<1> HIDE DEF Lows, Highs
<1> QED BY <1>3, <1>4, <1>5, <1>6, <1>7 DEF transverse_overlaps

(* What cut_all leaves of a ray, motion by motion.                           *)
LEMMA MaterialSteps ==
  ASSUME NEW ms \in Seq(Motions), NEW f \in Fields, NEW b \in Bundle, NEW r \in Ray
  PROVE  /\ MaterialAfter(ms, f, b, r)[0] = f[b][r]
         /\ \A k \in 1 .. Len(ms) :
              MaterialAfter(ms, f, b, r)[k] = MaterialAfter(ms, f, b, r)[k - 1] \ ms[k].swept[b][r]
<1> DEFINE swept(k) == UNION {ms[j].swept[b][r] : j \in 1 .. k}
           g == [k \in 0 .. Len(ms) |-> f[b][r] \ swept(k)]
           Step(h) == [k \in 0 .. Len(ms) |->
                         IF k = 0 THEN f[b][r] ELSE Remainder(h[k - 1], ms[k].swept[b][r])]
<1>1. \A k \in 0 .. Len(ms) :
        g[k] = IF k = 0 THEN f[b][r] ELSE Remainder(g[k - 1], ms[k].swept[b][r])
  <2>0. Len(ms) \in Nat
    OBVIOUS
  <2>1. g[0] = f[b][r]
    <3>1. swept(0) = {}
      OBVIOUS
    <3>2. g[0] = f[b][r] \ swept(0)
      BY <2>0
    <3> HIDE DEF swept, g
    <3> QED BY <3>1, <3>2
  <2>2. ASSUME NEW k \in 1 .. Len(ms) PROVE g[k] = g[k - 1] \ ms[k].swept[b][r]
    <3>1. swept(k) = swept(k - 1) \union ms[k].swept[b][r]
      <4>1. 1 .. k = (1 .. k - 1) \union {k}
        OBVIOUS
      <4> QED BY <4>1
    <3>2. k \in 0 .. Len(ms) /\ k - 1 \in 0 .. Len(ms)
      OBVIOUS
    <3> HIDE DEF swept
    <3> QED BY <3>1, <3>2
  <2>3. ASSUME NEW k \in 0 .. Len(ms)
        PROVE  g[k] = IF k = 0 THEN f[b][r] ELSE Remainder(g[k - 1], ms[k].swept[b][r])
    <3> HIDE DEF g
    <3>1. CASE k = 0
      BY <3>1, <2>1
    <3>2. CASE k # 0
      <4>1. k \in 1 .. Len(ms)
        BY <3>2, <2>0
      <4> QED BY <4>1, <3>2, <2>2 DEF Remainder
    <3> QED BY <3>1, <3>2
  <2> HIDE DEF g
  <2> QED BY <2>3
<1>2. g = Step(g)
  BY <1>1
<1>3. MaterialAfter(ms, f, b, r) = CHOOSE h : h = Step(h)
  BY DEF MaterialAfter
<1>4. MaterialAfter(ms, f, b, r) = Step(MaterialAfter(ms, f, b, r))
  <2> HIDE DEF g, Step
  <2> QED BY <1>2, <1>3
<1> DEFINE A == MaterialAfter(ms, f, b, r)
<1>5. \A k \in 0 .. Len(ms) : A[k] = IF k = 0 THEN f[b][r] ELSE Remainder(A[k - 1], ms[k].swept[b][r])
  BY <1>4
<1> HIDE DEF A
<1>6. A[0] = f[b][r]
  <2>1. 0 \in 0 .. Len(ms)
    OBVIOUS
  <2> QED BY <2>1, <1>5
<1>7. ASSUME NEW k \in 1 .. Len(ms) PROVE A[k] = A[k - 1] \ ms[k].swept[b][r]
  <2>1. k \in 0 .. Len(ms) /\ k # 0
    OBVIOUS
  <2> QED BY <2>1, <1>5 DEF Remainder
<1> QED BY <1>6, <1>7 DEF A

-----------------------------------------------------------------------------
(* run_chunk.                                                                *)

(* One motion against one ray: whether its box passes the ray by or the ray  *)
(* is empty, the material left is what the motion leaves, and a ray that was *)
(* not touched has not changed.                                              *)
LEMMA MotionTurnCuts ==
  ASSUME NEW batch \in Seq(Motions), NEW b \in Bundle, NEW r \in Ray,
         NEW k \in 1 .. Len(batch), NEW ray \in RayState
  PROVE  LET t == MotionTurn(batch, b, r, k)[ray]
         IN  /\ t \in RayState
             /\ t.material = ray.material \ batch[k].swept[b][r]
             /\ ~t.touched => ~ray.touched /\ t.material = ray.material
<1> DEFINE sweep == batch[k].swept[b][r]
           rest == Remainder(ray.material, sweep)
           cuts == Cut(ray.material, sweep) > 0
           passed == [ray EXCEPT !.stats["rejected"] = @ + 1]
           tested == [material |-> rest,
                      touched |-> ray.touched \/ rest # ray.material,
                      stats |-> [ray.stats EXCEPT !["tested"] = @ + 1,
                                                  !["changed"] = IF cuts THEN @ + 1 ELSE @],
                      found |-> IF cuts
                                THEN Append(ray.found, [motion |-> k, before |-> ray.material, after |-> rest])
                                ELSE ray.found]
           t == MotionTurn(batch, b, r, k)[ray]
<1>1. t = IF ~transverse_overlaps(batch[k].box[b], r) \/ ray.material = {} THEN passed ELSE tested
  BY DEF MotionTurn
<1>2. batch[k] \in Motions
  OBVIOUS
<1>3. sweep \in SUBSET Cell /\ (sweep # {} => transverse_overlaps(batch[k].box[b], r))
  BY <1>2 DEF Motions
<1>4. ray.material \in SUBSET Cell /\ ray.touched \in BOOLEAN /\ ray.stats \in [Counters -> Nat]
      /\ ray.found \in Seq(Contribution)
  BY DEF RayState
<1>5. CASE ~transverse_overlaps(batch[k].box[b], r) \/ ray.material = {}
  <2>1. t = passed
    BY <1>1, <1>5
  <2>2. [ray.stats EXCEPT !["rejected"] = @ + 1] \in [Counters -> Nat]
    BY <1>4 DEF Counters
  <2>3. passed \in RayState /\ passed.material = ray.material /\ passed.touched = ray.touched
    BY <2>2 DEF RayState
  <2>4. ray.material = ray.material \ sweep
    BY <1>3, <1>5
  <2> HIDE DEF passed, t
  <2>5. t \in RayState /\ t.material = ray.material /\ t.touched = ray.touched
    BY <2>1, <2>3
  <2> QED BY <2>4, <2>5 DEF t
<1>6. CASE transverse_overlaps(batch[k].box[b], r) /\ ray.material # {}
  <2>1. t = tested
    BY <1>1, <1>6
  <2>2. tested.stats \in [Counters -> Nat]
    <3> HIDE DEF cuts, rest
    <3> QED BY <1>4, SMTT(30) DEF Counters
  <2>3. rest = ray.material \ sweep /\ rest \in SUBSET Cell
    BY <1>4 DEF Remainder
  <2>4. tested.found \in Seq(Contribution)
    <3>1. [motion |-> k, before |-> ray.material, after |-> rest] \in Contribution
      BY <1>4, <2>3 DEF Contribution
    <3> HIDE DEF cuts, rest
    <3> QED BY <1>4, <3>1
  <2>5. tested.touched \in BOOLEAN /\ (~tested.touched => ~ray.touched /\ rest = ray.material)
    BY <1>4
  <2>6. tested = [material |-> rest, touched |-> tested.touched, stats |-> tested.stats, found |-> tested.found]
    OBVIOUS
  <2>7. tested \in RayState /\ tested.material = rest
    <3> HIDE DEF rest
    <3> QED BY <2>2, <2>3, <2>4, <2>5, <2>6 DEF RayState
  <2> HIDE DEF tested, t, rest
  <2> QED BY <2>1, <2>3, <2>5, <2>7 DEF t
<1> QED BY <1>5, <1>6

\* What is carried of a ray with `before` on it tells that `after` is left.
Tells(t, before, after) ==
  /\ t \in RayState
  /\ t.touched => t.material = after
  /\ ~t.touched => before = after

\* A chunk's result is enough to tell what is left of its rays.
Finds(result, start, size, before, after) ==
  /\ result.start = start
  /\ \A r \in DOMAIN result.changed : r \in Ray /\ result.changed[r] = after[r]
  /\ \A r \in Ray : start <= r /\ r < start + size /\ r \notin DOMAIN result.changed
                   => before[r] = after[r]

\* What run_chunk knows of a ray before the first motion.
Fresh(rays, r) ==
  [material |-> rays[r], touched |-> FALSE, stats |-> NoCounters, found |-> <<>>]

\* `after` carries ray r through the run, motion by motion; a ray the hull of the
\* run's boxes passes by is not carried at all.
Carries(after, batch, b, rays, r) ==
  /\ after[0] = Fresh(rays, r)
  /\ \A k \in 1 .. Len(batch) : after[k] = MotionTurn(batch, b, r, k)[after[k - 1]]
  /\ RayTurn(batch, b, rays, r)
       = IF ~transverse_overlaps(UnionBox(batch, b), r)
         THEN [Fresh(rays, r) EXCEPT !.stats["rejected"] = Len(batch)]
         ELSE after[Len(batch)]

(* A ray's turn is its motions', one after the other.                       *)
LEMMA RayTurnSteps ==
  ASSUME NEW batch \in Seq(Motions), NEW b \in Bundle, NEW r \in Ray,
         NEW rays \in [Ray -> SUBSET Cell]
  PROVE  /\ Fresh(rays, r) \in RayState
         /\ \E after : Carries(after, batch, b, rays, r)
<1> DEFINE fresh == Fresh(rays, r)
           passed == [fresh EXCEPT !.stats["rejected"] = Len(batch)]
           T == [k \in 1 .. Len(batch) |-> MotionTurn(batch, b, r, k)]
           Step(h) == [k \in 0 .. Len(batch) |->
                         IF k = 0 THEN fresh ELSE MotionTurn(batch, b, r, k)[h[k - 1]]]
           t == RayTurn(batch, b, rays, r)
<1>0. Len(batch) \in Nat
  OBVIOUS
<1>1. fresh \in RayState
  BY DEF RayState, NoCounters, Counters, Fresh
<1>2. \E h : h = Step(h)
  <2>1. \A k \in 1 .. Len(batch) : \A y \in RayState : T[k][y] \in RayState
    BY MotionTurnCuts
  <2>2. PICK h : Iterates(h, Len(batch), fresh, T)
    <3> HIDE DEF T, fresh
    <3> QED BY <1>0, <1>1, <2>1, IterationExists
  <2>3. h = [k \in 0 .. Len(batch) |-> IF k = 0 THEN fresh ELSE T[k][h[k - 1]]]
    <3> HIDE DEF T, fresh
    <3> QED BY <2>2 DEF Iterates
  <2>4. ASSUME NEW k \in 0 .. Len(batch)
        PROVE  h[k] = IF k = 0 THEN fresh ELSE MotionTurn(batch, b, r, k)[h[k - 1]]
    <3> HIDE DEF fresh
    <3>1. k # 0 => k \in 1 .. Len(batch)
      OBVIOUS
    <3>2. k # 0 => T[k] = MotionTurn(batch, b, r, k)
      BY <3>1
    <3> HIDE DEF T
    <3> QED BY <2>3, <3>2
  <2>5. h = Step(h)
    <3> HIDE DEF fresh, T
    <3> QED BY <2>3, <2>4
  <2> QED BY <2>5
<1> DEFINE after == CHOOSE h : h = Step(h)
<1>3. after = Step(after)
  <2> HIDE DEF Step
  <2> QED BY <1>2
<1>4. t = IF ~transverse_overlaps(UnionBox(batch, b), r) THEN passed ELSE after[Len(batch)]
  BY DEF RayTurn, Fresh
<1>5. after[0] = fresh /\ \A k \in 1 .. Len(batch) : after[k] = MotionTurn(batch, b, r, k)[after[k - 1]]
  <2> HIDE DEF after, fresh
  <2>1. 0 \in 0 .. Len(batch) /\ \A k \in 1 .. Len(batch) : k \in 0 .. Len(batch) /\ k # 0
    BY <1>0
  <2> QED BY <1>3, <2>1
<1> HIDE DEF after
<1>6. Carries(after, batch, b, rays, r)
  BY <1>4, <1>5 DEF Carries
<1> QED BY <1>1, <1>6

(* A ray the hull of the run's boxes passes by, each box passes by.          *)
LEMMA HullMisses ==
  ASSUME NEW batch \in Seq(Motions), NEW b \in Bundle, NEW r \in Ray,
         ~transverse_overlaps(UnionBox(batch, b), r), NEW k \in 1 .. Len(batch)
  PROVE  ~transverse_overlaps(batch[k].box[b], r) /\ batch[k].swept[b][r] = {}
<1>1. batch[k] \in Motions /\ k \in DOMAIN batch
  OBVIOUS
<1> DEFINE boxes == {batch[j].box[b] : j \in DOMAIN batch}
<1>2. \A j \in DOMAIN batch : batch[j] \in Motions
  OBVIOUS
<1>3. boxes \in SUBSET (Ray \X Ray) /\ batch[k].box[b] \in boxes
  BY <1>1, <1>2 DEF Motions
<1>4. ~transverse_overlaps(batch[k].box[b], r)
  <2> HIDE DEF boxes
  <2>1. UnionBox(batch, b) = BoxUnion(boxes)
    BY DEF UnionBox, boxes
  <2> QED BY <2>1, <1>3, HullHolds
<1> QED BY <1>1, <1>4 DEF Motions

(* The material carried along is what the motions leave, and a ray that was  *)
(* not touched is as it was.                                                 *)
LEMMA CarriedMaterial ==
  ASSUME NEW batch \in Seq(Motions), NEW b \in Bundle, NEW r \in Ray,
         NEW rays \in [Ray -> SUBSET Cell], NEW A, A[0] = rays[r],
         \A k \in 1 .. Len(batch) : A[k] = A[k - 1] \ batch[k].swept[b][r],
         NEW after, Carries(after, batch, b, rays, r)
  PROVE  \A k \in 0 .. Len(batch) : /\ after[k] \in RayState
                                    /\ after[k].material = A[k]
                                    /\ ~after[k].touched => A[k] = rays[r]
<1> DEFINE fresh == Fresh(rays, r)
<1>0. Len(batch) \in Nat
  OBVIOUS
<1>1. fresh \in RayState /\ fresh.material = rays[r]
  BY RayTurnSteps DEF Fresh
<1>2. after[0] = fresh /\ \A k \in 1 .. Len(batch) : after[k] = MotionTurn(batch, b, r, k)[after[k - 1]]
  BY DEF Carries
<1> HIDE DEF fresh
<1> DEFINE Good(k) == /\ after[k] \in RayState
                      /\ after[k].material = A[k]
                      /\ ~after[k].touched => A[k] = rays[r]
           Holds == {k \in 0 .. Len(batch) : Good(k)}
<1>3. 0 \in Holds
  BY <1>0, <1>1, <1>2
<1>4. ASSUME NEW k \in 0 .. Len(batch) - 1, k \in Holds PROVE k + 1 \in Holds
  <2>1. k + 1 \in 1 .. Len(batch) /\ k + 1 \in 0 .. Len(batch) /\ (k + 1) - 1 = k
    BY <1>0
  <2>2. A[k + 1] = A[k] \ batch[k + 1].swept[b][r] /\ after[k + 1] = MotionTurn(batch, b, r, k + 1)[after[k]]
    BY <2>1, <1>2
  <2>3. after[k] \in RayState /\ after[k].material = A[k] /\ (~after[k].touched => A[k] = rays[r])
    <3>1. Good(k)
      <4> HIDE DEF Good
      <4> QED BY <1>4
    <3> QED BY <3>1
  <2>4. /\ after[k + 1] \in RayState
        /\ after[k + 1].material = after[k].material \ batch[k + 1].swept[b][r]
        /\ ~after[k + 1].touched => ~after[k].touched /\ after[k + 1].material = after[k].material
    BY <2>1, <2>2, <2>3, MotionTurnCuts
  <2>5. Good(k + 1)
    BY <2>2, <2>3, <2>4, Zenon
  <2> HIDE DEF Good
  <2> QED BY <2>1, <2>5
<1>5. \A k \in 0 .. Len(batch) : k \in Holds
  <2> HIDE DEF Holds
  <2>1. \A k \in 0 .. Len(batch) - 1 : k \in Holds => k + 1 \in Holds
    BY <1>4
  <2> QED BY <1>0, <1>3, <2>1, Induction
<1>6. \A k \in 0 .. Len(batch) : Good(k)
  <2> HIDE DEF Good
  <2> QED BY <1>5
<1> QED BY <1>6

(* Every motion of the run against one ray, also one the hull of the run's   *)
(* boxes passes by.                                                          *)
LEMMA RayTurnCuts ==
  ASSUME NEW batch \in Seq(Motions), NEW b \in Bundle, NEW r \in Ray,
         NEW rays \in [Ray -> SUBSET Cell], NEW A, A[0] = rays[r],
         \A k \in 1 .. Len(batch) : A[k] = A[k - 1] \ batch[k].swept[b][r]
  PROVE  Tells(RayTurn(batch, b, rays, r), rays[r], A[Len(batch)])
<1> DEFINE fresh == Fresh(rays, r)
           passed == [fresh EXCEPT !.stats["rejected"] = Len(batch)]
           t == RayTurn(batch, b, rays, r)
<1>0. Len(batch) \in Nat
  OBVIOUS
<1>1. PICK after : Carries(after, batch, b, rays, r)
  BY RayTurnSteps
<1>2. fresh \in RayState
  BY RayTurnSteps
<1>3. fresh.material = rays[r] /\ fresh.touched = FALSE
  BY DEF Fresh
<1>4. t = IF ~transverse_overlaps(UnionBox(batch, b), r) THEN passed ELSE after[Len(batch)]
  BY <1>1 DEF Carries
<1>5. \A k \in 0 .. Len(batch) : /\ after[k] \in RayState
                                 /\ after[k].material = A[k]
                                 /\ ~after[k].touched => A[k] = rays[r]
  BY <1>1, CarriedMaterial
<1> HIDE DEF fresh
<1>6. CASE transverse_overlaps(UnionBox(batch, b), r)
  <2>1. Len(batch) \in 0 .. Len(batch)
    BY <1>0
  <2>2. t = after[Len(batch)]
    BY <1>4, <1>6
  <2> HIDE DEF t
  <2> QED BY <1>5, <2>1, <2>2, Zenon DEF t, Tells
<1>7. CASE ~transverse_overlaps(UnionBox(batch, b), r)
  <2> DEFINE Same == {k \in 0 .. Len(batch) : A[k] = rays[r]}
  <2>1. \A k \in 1 .. Len(batch) : batch[k].swept[b][r] = {}
    BY <1>7, HullMisses
  <2>2. 0 \in Same
    BY <1>0
  <2>3. ASSUME NEW k \in 0 .. Len(batch) - 1, k \in Same PROVE k + 1 \in Same
    <3>1. k + 1 \in 1 .. Len(batch) /\ k + 1 \in 0 .. Len(batch) /\ (k + 1) - 1 = k
      BY <1>0
    <3> QED BY <2>1, <2>3, <3>1, ZenonT(60)
  <2>4. Len(batch) \in Same
    <3> HIDE DEF Same
    <3>1. \A k \in 0 .. Len(batch) - 1 : k \in Same => k + 1 \in Same
      BY <2>3
    <3>2. \A k \in 0 .. Len(batch) : k \in Same
      BY <1>0, <2>2, <3>1, Induction
    <3> QED BY <1>0, <3>2
  <2>5. passed \in RayState /\ passed.touched = FALSE
    <3>1. [NoCounters EXCEPT !["rejected"] = Len(batch)] \in [Counters -> Nat]
      BY <1>0 DEF NoCounters, Counters
    <3>2. fresh.stats = NoCounters
      BY DEF fresh, Fresh
    <3>3. passed = [fresh EXCEPT !.stats = [NoCounters EXCEPT !["rejected"] = Len(batch)]]
      BY <3>2
    <3> HIDE DEF passed
    <3> QED BY <1>2, <1>3, <3>1, <3>3 DEF RayState, fresh, Fresh
  <2>6. t = passed
    BY <1>4, <1>7
  <2> HIDE DEF passed, t
  <2> QED BY <2>4, <2>5, <2>6 DEF t, Tells
<1> QED BY <1>6, <1>7

(* The products the chunks are laid out by.                                  *)
LEMMA ProductIsNat ==
  ASSUME NEW a \in Nat, NEW b \in Nat
  PROVE  a * b \in Nat
OBVIOUS

(* A chunk's result: every ray it lists is a ray, with the material the      *)
(* motions leave of it, and of the chunk's rays it does not list they leave  *)
(* everything. The last chunk may be shorter than the others.                *)
LEMMA ChunkCuts ==
  ASSUME NEW batch \in Seq(Motions), NEW b \in Bundle, NEW rays \in [Ray -> SUBSET Cell],
         NEW size \in Nat, NEW c \in Nat, NEW kept,
         \A r \in Ray : Tells(RayTurn(batch, b, rays, r), rays[r], kept[r])
  PROVE  Finds(run_chunk(batch, b, rays, size, c), c * size, size, rays, kept)
<1> DEFINE start == c * size
           end == IF start + size <= Rays THEN start + size ELSE Rays
           mine == ChunkRays(size, c)
           turn == [i \in DOMAIN mine |-> RayTurn(batch, b, rays, mine[i])]
           collected == {mine[i] : i \in {j \in DOMAIN turn : turn[j].touched}}
           changed == [r \in collected |-> turn[r - start + 1].material]
           result == run_chunk(batch, b, rays, size, c)
<1>1. start \in Nat /\ Rays \in Nat /\ end \in Nat
  BY ProductIsNat, CuttingAssumption
<1>2. mine = [i \in 1 .. end - start |-> start + i - 1]
  BY DEF ChunkRays
<1> HIDE DEF start, mine
<1>3. \A i \in DOMAIN mine : mine[i] \in Ray /\ mine[i] = start + i - 1
  BY <1>1, <1>2 DEF Ray
<1>4. turn \in Seq(RayState)
  <2> DEFINE n == IF start <= end THEN end - start ELSE 0
  <2>1. n \in Nat /\ DOMAIN mine = 1 .. n
    BY <1>1, <1>2
  <2>2. \A i \in 1 .. n : turn[i] \in RayState
    BY <1>3, <2>1 DEF Tells
  <2>3. turn = [i \in 1 .. n |-> turn[i]]
    BY <2>1
  <2> HIDE DEF turn, n
  <2> QED BY <2>1, <2>2, <2>3
<1>5. result.start = start /\ result.changed = changed
  <2> HIDE DEF collected, turn
  <2> QED BY <1>4 DEF run_chunk, start, mine, turn, collected
<1>6. ASSUME NEW r \in collected PROVE r \in Ray /\ changed[r] = kept[r]
  <2>1. PICK i \in DOMAIN mine : turn[i].touched /\ r = mine[i]
    OBVIOUS
  <2>2. i \in Int
    BY <1>1, <1>2
  <2>3. r \in Ray /\ r - start + 1 = i
    BY <1>1, <1>3, <2>1, <2>2
  <2>4. turn[i] = RayTurn(batch, b, rays, r)
    BY <2>1
  <2>5. changed[r] = turn[i].material
    <3> HIDE DEF collected, turn
    <3> QED BY <2>3
  <2> HIDE DEF turn, changed
  <2> QED BY <2>1, <2>3, <2>4, <2>5, Zenon DEF Tells
<1>7. ASSUME NEW r \in Ray, start <= r, r < start + size, r \notin collected PROVE rays[r] = kept[r]
  <2> DEFINE i == r - start + 1
  <2>1. i \in DOMAIN mine
    BY <1>1, <1>2, <1>7 DEF Ray
  <2>2. mine[i] = r
    BY <1>1, <1>3, <2>1, <1>7 DEF Ray
  <2> HIDE DEF i
  <2>3. ~turn[i].touched /\ turn[i] = RayTurn(batch, b, rays, r)
    BY <2>1, <2>2, <1>7
  <2> HIDE DEF turn
  <2> QED BY <2>3, Zenon DEF Tells
<1>8. DOMAIN changed = collected
  OBVIOUS
<1> HIDE DEF changed, collected, result
<1> QED BY <1>5, <1>6, <1>7, <1>8 DEF result, start, Finds
-----------------------------------------------------------------------------
(* The invariant.                                                            *)

Results == {Result(c) : c \in Chunk}

WorkerState ==
  [at : {"claim", "run", "flush", "joined"}, index : Nat, mine : Seq(Results)]

\* What the variables are; nothing of a bundle is kept between two bundles.
TypeOK ==
  /\ motions \in Seq(Motions) /\ stock \in Fields /\ schedule \in Schedule
  /\ field \in Fields
  /\ bundle \in Bundle
  /\ pc \in {"bundle", "workers", "done"}
  /\ lo \in Nat /\ (pc # "done" => lo \in 1 .. Len(motions))
  /\ next \in Nat
  /\ pc # "workers" => DOMAIN worker = {}
  /\ pc = "workers" => out \in Seq(Results) /\ worker \in [DOMAIN worker -> WorkerState]

\* A hand-out order: every chunk, once.
EachOnce(o) ==
  /\ o \in [1 .. Chunks -> Chunk]
  /\ \A i, j \in 1 .. Chunks : i # j => o[i] # o[j]
  /\ \A c \in Chunk : \E i \in 1 .. Chunks : o[i] = c

Starts(results) == {results[i].start : i \in DOMAIN results}
Apart(results) == \A i, j \in DOMAIN results : i # j => results[i].start # results[j].start

Running == {w \in DOMAIN worker : worker[w].at = "run"}

\* The first ray of the chunk a running worker is at.
StartOf(w) == order[worker[w].index + 1] * ChunkSize

\* The first rays of the chunks handed out so far.
Claimed == {order[j] * ChunkSize : j \in {i \in 1 .. Chunks : i <= next}}

\* Every chunk that was claimed is in one place: a worker is at it, or keeps its
\* result, or has handed it in.
Ledger ==
  /\ Apart(out) /\ \A w \in DOMAIN worker : Apart(worker[w].mine)
  /\ \A w \in DOMAIN worker : Starts(worker[w].mine) \cap Starts(out) = {}
  /\ \A w, v \in DOMAIN worker : w # v => Starts(worker[w].mine) \cap Starts(worker[v].mine) = {}
  /\ \A w \in Running : /\ worker[w].index < Chunks
                        /\ StartOf(w) \notin Starts(out)
                        /\ \A v \in DOMAIN worker : StartOf(w) \notin Starts(worker[v].mine)
                        /\ \A v \in Running : v # w => StartOf(v) # StartOf(w)
  /\ Claimed = Starts(out) \union (UNION {Starts(worker[w].mine) : w \in DOMAIN worker})
                 \union {StartOf(w) : w \in Running}

\* A worker leaves once no chunk is left, and is joined once it has handed in.
Leaving ==
  \A w \in DOMAIN worker : /\ worker[w].at \in {"flush", "joined"} => next >= Chunks
                           /\ worker[w].at = "joined" => worker[w].mine = <<>>

\* Every chunk of the bundle, once.
AllHandedIn == Apart(out) /\ Starts(out) = {c * ChunkSize : c \in Chunk}

Sharing ==
  pc = "workers" =>
    /\ EachOnce(order)
    /\ DOMAIN worker = {} => AllHandedIn
    /\ DOMAIN worker # {} => Ledger /\ Leaving

Inv == TypeOK /\ Sharing /\ FieldIsSequential
-----------------------------------------------------------------------------
(* Lists of results.                                                         *)

(* One result more adds its own first ray.                                  *)
LEMMA StartsOfAppend ==
  ASSUME NEW S, NEW s \in Seq(S), NEW e \in S
  PROVE  /\ Starts(Append(s, e)) = Starts(s) \union {e.start}
         /\ Apart(s) /\ e.start \notin Starts(s) => Apart(Append(s, e))
<1> DEFINE t == Append(s, e)
<1>1. Len(s) \in Nat /\ DOMAIN s = 1 .. Len(s) /\ DOMAIN t = 1 .. Len(s) + 1
  OBVIOUS
<1>2. t[Len(s) + 1] = e /\ \A i \in 1 .. Len(s) : t[i] = s[i]
  OBVIOUS
<1> HIDE DEF t
<1>3. DOMAIN t = DOMAIN s \union {Len(s) + 1} /\ Len(s) + 1 \notin DOMAIN s
  BY <1>1
<1>4. Starts(t) = Starts(s) \union {e.start}
  BY <1>1, <1>2, <1>3 DEF Starts
<1>5. Apart(s) /\ e.start \notin Starts(s) => Apart(t)
  BY <1>1, <1>2, <1>3 DEF Apart, Starts
<1> QED BY <1>4, <1>5 DEF t

(* Handing in a worker's results adds theirs.                               *)
LEMMA StartsOfConcat ==
  ASSUME NEW S, NEW s \in Seq(S), NEW t \in Seq(S)
  PROVE  /\ Starts(s \o t) = Starts(s) \union Starts(t)
         /\ Apart(s) /\ Apart(t) /\ Starts(s) \cap Starts(t) = {} => Apart(s \o t)
<1> DEFINE u == s \o t
<1>1. /\ Len(s) \in Nat /\ Len(t) \in Nat /\ DOMAIN s = 1 .. Len(s) /\ DOMAIN t = 1 .. Len(t)
      /\ DOMAIN u = 1 .. Len(s) + Len(t)
  OBVIOUS
<1>2. /\ \A i \in 1 .. Len(s) : u[i] = s[i]
      /\ \A i \in 1 .. Len(t) : u[Len(s) + i] = t[i]
  OBVIOUS
<1> HIDE DEF u
<1>3. ASSUME NEW i \in DOMAIN u
      PROVE  \/ i \in DOMAIN s /\ u[i] = s[i]
             \/ i - Len(s) \in DOMAIN t /\ u[i] = t[i - Len(s)]
  <2>1. CASE i <= Len(s)
    BY <2>1, <1>1, <1>2
  <2>2. CASE ~(i <= Len(s))
    <3>1. i - Len(s) \in 1 .. Len(t) /\ Len(s) + (i - Len(s)) = i
      BY <2>2, <1>1
    <3> QED BY <3>1, <1>1, <1>2
  <2> QED BY <2>1, <2>2
<1>4. Starts(u) \subseteq Starts(s) \union Starts(t)
  BY <1>3 DEF Starts
<1>5. Starts(s) \subseteq Starts(u)
  BY <1>1, <1>2 DEF Starts
<1>6. Starts(t) \subseteq Starts(u)
  <2>1. \A i \in DOMAIN t : Len(s) + i \in DOMAIN u /\ u[Len(s) + i] = t[i]
    BY <1>1, <1>2
  <2> QED BY <2>1 DEF Starts
<1>7. ASSUME Apart(s), Apart(t), Starts(s) \cap Starts(t) = {} PROVE Apart(u)
  <2> SUFFICES ASSUME NEW i \in DOMAIN u, NEW j \in DOMAIN u, i # j
               PROVE  u[i].start # u[j].start
    BY DEF Apart
  <2>1. CASE i \in DOMAIN s /\ u[i] = s[i] /\ j \in DOMAIN s /\ u[j] = s[j]
    BY <2>1, <1>7 DEF Apart
  <2>2. CASE /\ i - Len(s) \in DOMAIN t /\ u[i] = t[i - Len(s)]
             /\ j - Len(s) \in DOMAIN t /\ u[j] = t[j - Len(s)]
    <3>1. i - Len(s) # j - Len(s)
      BY <1>1
    <3> QED BY <2>2, <3>1, <1>7 DEF Apart
  <2>3. CASE i \in DOMAIN s /\ u[i] = s[i] /\ j - Len(s) \in DOMAIN t /\ u[j] = t[j - Len(s)]
    BY <2>3, <1>7 DEF Starts
  <2>4. CASE i - Len(s) \in DOMAIN t /\ u[i] = t[i - Len(s)] /\ j \in DOMAIN s /\ u[j] = s[j]
    BY <2>4, <1>7 DEF Starts
  <2> QED BY <1>3, <2>1, <2>2, <2>3, <2>4
<1> QED BY <1>4, <1>5, <1>6, <1>7 DEF u

(* The order of a multiplication by a chunk size.                            *)
LEMMA ProductRises ==
  ASSUME NEW a \in Nat, NEW b \in Nat, NEW d \in Nat \ {0}, a < b
  PROVE  a * d < b * d
<1>1. a * d + d <= b * d
  <2>1. b * d = a * d + (b - a) * d
    OBVIOUS
  <2>2. b - a \in Nat /\ b - a >= 1
    OBVIOUS
  <2>3. (b - a) * d >= d
    BY <2>2
  <2> QED BY <2>1, <2>3, ProductIsNat
<1> QED BY <1>1, ProductIsNat

(* Results of n chunks that are all there, once each, can be put in the      *)
(* order of the rays, and none is lost.                                      *)
LEMMA OrderedKeeps ==
  ASSUME NEW S, NEW results \in Seq(S), NEW n \in Nat, NEW size \in Nat \ {0},
         Apart(results), Starts(results) = {c * size : c \in 0 .. n - 1}
  PROVE  /\ DOMAIN Ordered(results) = DOMAIN results
         /\ \A i \in DOMAIN results : Ordered(results)[i] \in {results[j] : j \in DOMAIN results}
         /\ \A j \in DOMAIN results : \E i \in DOMAIN results : Ordered(results)[i] = results[j]
         /\ Len(results) = n
         /\ \A i, j \in DOMAIN results :
              i < j => Ordered(results)[i].start < Ordered(results)[j].start
<1> DEFINE D == DOMAIN results
           C == 0 .. n - 1
<1>1. D = 1 .. Len(results) /\ Len(results) \in Nat
  OBVIOUS
<1>2. IsFiniteSet(D) /\ IsFiniteSet(C) /\ Cardinality(D) = Len(results) /\ Cardinality(C) = n
  <2>1. IsFiniteSet(1 .. Len(results)) /\ Cardinality(1 .. Len(results)) = Len(results)
    BY <1>1, FS_Interval
  <2>2. IsFiniteSet(0 .. n - 1) /\ Cardinality(0 .. n - 1) = n
    BY FS_Interval
  <2> QED BY <1>1, <2>1, <2>2
<1>3. \A c, d \in C : c * size = d * size => c = d
  <2> SUFFICES ASSUME NEW c \in C, NEW d \in C, c # d PROVE c * size # d * size
    OBVIOUS
  <2>1. c * size < d * size \/ d * size < c * size
    BY ProductRises
  <2> QED BY <2>1, ProductIsNat
<1>4. \A i \in D : \E c \in C : results[i].start = c * size
  BY DEF Starts
<1>5. \A c \in C : \E i \in D : results[i].start = c * size
  <2> SUFFICES ASSUME NEW c \in C PROVE \E i \in D : results[i].start = c * size
    OBVIOUS
  <2>1. c * size \in Starts(results)
    OBVIOUS
  <2> QED BY <2>1 DEF Starts
<1>6. Len(results) = n
  <2> DEFINE f == [i \in D |-> CHOOSE c \in C : results[i].start = c * size]
  <2>1. \A i \in D : f[i] \in C /\ results[i].start = f[i] * size
    BY <1>4
  <2> HIDE DEF D, C
  <2>2. f \in [D -> C]
    BY <2>1
  <2> HIDE DEF f
  <2>3. \A i, j \in D : f[i] = f[j] => i = j
    BY <2>1 DEF Apart, D
  <2>4. \A c \in C : \E i \in D : f[i] = c
    BY <1>3, <1>5, <2>1
  <2>5. f \in Bijection(D, C)
    BY <2>2, <2>3, <2>4 DEF Bijection, Injection, IsInjective, Surjection
  <2>6. Cardinality(C) = Cardinality(D)
    BY <2>5, <1>2, FS_Bijection DEF ExistsBijection
  <2> QED BY <2>6, <1>2
<1> DEFINE Sorts(p) == \A i, j \in DOMAIN p : i < j => results[p[i]].start < results[p[j]].start
           P == {p \in [D -> D] : \A i, j \in D : i # j => p[i] # p[j]}
<1>7. SetToSeqs(D) = P
  <2>1. 1 .. Cardinality(D) = D
    BY <1>1, <1>2
  <2> HIDE DEF D
  <2> QED BY <2>1 DEF SetToSeqs
<1>8. \E p \in P : Sorts(p)
  <2> DEFINE p == [i \in D |-> CHOOSE j \in D : results[j].start = (i - 1) * size]
  <2>1. \A i \in D : i - 1 \in C
    BY <1>1, <1>6
  <2>2. \A i \in D : p[i] \in D /\ results[p[i]].start = (i - 1) * size
    BY <2>1, <1>5
  <2>3. p \in [D -> D]
    BY <2>2
  <2>4. DOMAIN p = D
    OBVIOUS
  <2> HIDE DEF p
  <2>5. ASSUME NEW i \in D, NEW j \in D, i < j PROVE results[p[i]].start < results[p[j]].start
    <3>1. i - 1 \in Nat /\ j - 1 \in Nat /\ i - 1 < j - 1
      BY <1>1, <2>5
    <3>2. (i - 1) * size < (j - 1) * size
      BY <3>1, ProductRises
    <3> QED BY <2>2, <3>2
  <2>6. ASSUME NEW i \in D, NEW j \in D, i # j PROVE p[i] # p[j]
    <3>1. (i - 1) * size # (j - 1) * size
      <4>1. i - 1 \in C /\ j - 1 \in C /\ i - 1 # j - 1
        BY <2>1, <2>6, <1>1
      <4> QED BY <4>1, <1>3
    <3> QED BY <2>2, <3>1
  <2>7. Sorts(p)
    BY <2>4, <2>5
  <2> HIDE DEF Sorts, D
  <2> QED BY <2>3, <2>6, <2>7
<1> DEFINE q == CHOOSE p \in SetToSeqs(D) : Sorts(p)
<1>9. q \in P /\ Sorts(q)
  <2> HIDE DEF P, Sorts, D
  <2> QED BY <1>7, <1>8
<1>10. Ordered(results) = [i \in D |-> results[q[i]]]
  BY DEF Ordered
<1> HIDE DEF q, D
<1>11. \A j \in D : \E i \in D : q[i] = j
  <2>1. q \in Injection(D, D)
    BY <1>9 DEF Injection, IsInjective
  <2>2. q \in Surjection(D, D)
    BY <2>1, <1>2, FS_Injection
  <2> QED BY <2>2 DEF Surjection
<1>12. DOMAIN Ordered(results) = D /\ \A i \in D : Ordered(results)[i] = results[q[i]] /\ q[i] \in D
  BY <1>9, <1>10
<1>13. \A i, j \in D : i < j => Ordered(results)[i].start < Ordered(results)[j].start
  <2>1. DOMAIN q = D
    BY <1>9
  <2> QED BY <1>9, <1>12, <2>1
<1>14. \A i \in D : Ordered(results)[i] \in {results[j] : j \in D}
  BY <1>12
<1>15. \A j \in D : \E i \in D : Ordered(results)[i] = results[j]
  BY <1>11, <1>12
<1>16. DOMAIN Ordered(results) = D
  BY <1>12
<1> QED BY <1>6, <1>13, <1>14, <1>15, <1>16 DEF D
-----------------------------------------------------------------------------
(* The current run, its chunks and what they find.                           *)

(* What rounding down a quotient leaves.                                    *)
LEMMA Division ==
  ASSUME NEW a \in Nat, NEW d \in Nat \ {0}
  PROVE  /\ a \div d \in Nat
         /\ (a \div d) * d <= a
         /\ a < (a \div d) * d + d
OBVIOUS

(* Chunks are not empty, and every ray is in one.                            *)
LEMMA ChunksCover ==
  ASSUME TypeOK
  PROVE  /\ ChunkSize \in Nat \ {0} /\ Chunks \in Nat
         /\ \A r \in Ray : \E c \in Chunk : c * ChunkSize <= r /\ r < c * ChunkSize + ChunkSize
<1>1. ChunkSize \in Nat \ {0}
  BY DEF TypeOK, Schedule, ChunkSize
<1>2. Rays \in Nat /\ Rays + ChunkSize - 1 \in Nat
  BY <1>1, CuttingAssumption
<1>3. /\ Chunks \in Nat
      /\ Rays + ChunkSize - 1 < Chunks * ChunkSize + ChunkSize
  BY <1>1, <1>2, Division DEF Chunks
<1>4. ASSUME NEW r \in Ray
      PROVE  \E c \in Chunk : c * ChunkSize <= r /\ r < c * ChunkSize + ChunkSize
  <2>1. r \in Nat /\ r <= Rays - 1
    BY <1>2 DEF Ray
  <2> DEFINE c == r \div ChunkSize
  <2>2. c \in Nat /\ c * ChunkSize <= r /\ r < c * ChunkSize + ChunkSize
    BY <1>1, <2>1, Division
  <2> HIDE DEF c
  <2>3. ASSUME Chunks <= c PROVE FALSE
    <3>1. Chunks * ChunkSize <= c * ChunkSize
      <4>1. CASE Chunks = c
        BY <4>1, <2>2, <1>1, ProductIsNat
      <4>2. CASE Chunks < c
        <5>1. Chunks * ChunkSize < c * ChunkSize
          BY <4>2, <1>1, <1>3, <2>2, ProductRises
        <5> QED BY <5>1, <1>1, <1>3, <2>2, ProductIsNat
      <4> QED BY <4>1, <4>2, <2>3, <1>3, <2>2
    <3>2. Chunks * ChunkSize \in Nat /\ c * ChunkSize \in Nat
      BY <1>1, <1>3, <2>2, ProductIsNat
    <3> QED BY <3>1, <3>2, <1>1, <1>2, <1>3, <2>1, <2>2
  <2>4. c \in Chunk
    BY <1>3, <2>2, <2>3 DEF Chunk
  <2> QED BY <2>2, <2>4
<1> QED BY <1>1, <1>3, <1>4

(* The run lies in the motion list and is not empty.                         *)
LEMMA RunBetween ==
  ASSUME TypeOK, pc # "done"
  PROVE  /\ hi \in lo .. Len(motions)
         /\ Run \in Seq(Motions) /\ Len(Run) = hi - lo + 1
         /\ \A k \in 1 .. Len(Run) : Run[k] = motions[lo - 1 + k]
<1>1. motions \in Seq(Motions) /\ lo \in 1 .. Len(motions)
  BY DEF TypeOK
<1> DEFINE kinds == [k \in DOMAIN motions |-> motions[k].exact]
<1>2. kinds \in Seq(BOOLEAN) /\ Len(kinds) = Len(motions)
  <2>1. \A k \in DOMAIN motions : motions[k] \in Motions
    BY <1>1
  <2>2. \A k \in DOMAIN motions : motions[k].exact \in BOOLEAN
    BY <2>1 DEF Motions
  <2>3. DOMAIN motions = 1 .. Len(motions) /\ Len(motions) \in Nat
    BY <1>1
  <2>4. kinds \in [1 .. Len(motions) -> BOOLEAN]
    BY <2>2, <2>3
  <2> HIDE DEF kinds
  <2> QED BY <2>3, <2>4
<1>3. BatchSize \in Nat \ {0}
  <2>1. schedule.size \in Nat /\ schedule.threads \in Nat /\ PARALLEL_BATCH \in Nat
    BY ParallelAssumption DEF TypeOK, Schedule
  <2> QED BY <2>1 DEF BatchSize
<1>4. hi \in lo .. Len(motions)
  <2> HIDE DEF kinds
  <2>1. RunEnd(kinds, lo, BatchSize) \in lo .. Len(kinds)
    BY <1>1, <1>2, <1>3, RunEndBetween
  <2> QED BY <1>2, <2>1 DEF hi, kinds
<1> HIDE DEF kinds
<1>5. Run \in Seq(Motions) /\ Len(Run) = hi - lo + 1
      /\ \A k \in 1 .. Len(Run) : Run[k] = motions[lo - 1 + k]
  BY <1>1, <1>4 DEF Run
<1> QED BY <1>4, <1>5

\* The run is motions low .. high of the list, and the rays are bundle b after
\* the motions before it.
Follows(batch, b, rays, ms, f, low, high) ==
  /\ ms \in Seq(Motions) /\ f \in Fields /\ b \in Bundle /\ batch \in Seq(Motions)
  /\ low \in 1 .. Len(ms) /\ high \in low .. Len(ms) /\ Len(batch) = high - low + 1
  /\ \A k \in 1 .. Len(batch) : batch[k] = ms[low - 1 + k]
  /\ rays \in [Ray -> SUBSET Cell]
  /\ \A r \in Ray : rays[r] = MaterialAfter(ms, f, b, r)[low - 1]

(* The current run and bundle are such.                                     *)
LEMMA RunFollows ==
  ASSUME TypeOK, FieldIsSequential, pc # "done"
  PROVE  Follows(Run, bundle, field[bundle], motions, stock, lo, hi)
<1>1. /\ motions \in Seq(Motions) /\ stock \in Fields /\ bundle \in Bundle /\ lo \in 1 .. Len(motions)
      /\ field[bundle] \in [Ray -> SUBSET Cell]
  BY DEF TypeOK, Fields
<1>2. /\ hi \in lo .. Len(motions) /\ Run \in Seq(Motions) /\ Len(Run) = hi - lo + 1
      /\ \A k \in 1 .. Len(Run) : Run[k] = motions[lo - 1 + k]
  BY RunBetween
<1>3. ASSUME NEW r \in Ray PROVE field[bundle][r] = MaterialAfter(motions, stock, bundle, r)[lo - 1]
  <2>1. bundle \in Bundle /\ ~(bundle < bundle)
    BY <1>1 DEF Bundle
  <2>2. CutUpTo(bundle) = lo - 1
    BY <2>1 DEF CutUpTo
  <2> QED BY <1>1, <2>2 DEF FieldIsSequential
<1> QED BY <1>1, <1>2, <1>3 DEF Follows

\* A is what the run leaves of ray r, motion by motion.
Leaves(A, batch, b, rays, r, ms, f, low) ==
  /\ A[0] = rays[r]
  /\ \A k \in 1 .. Len(batch) : A[k] = A[k - 1] \ batch[k].swept[b][r]
  /\ \A k \in 0 .. Len(batch) : A[k] = MaterialAfter(ms, f, b, r)[low - 1 + k]

(* The material of a ray after each motion of the run.                      *)
LEMMA RunLeaves ==
  ASSUME NEW batch, NEW b, NEW rays, NEW ms, NEW f, NEW low, NEW high, NEW r \in Ray,
         Follows(batch, b, rays, ms, f, low, high)
  PROVE  \E A : Leaves(A, batch, b, rays, r, ms, f, low)
<1> DEFINE M == MaterialAfter(ms, f, b, r)
           A == [k \in 0 .. Len(batch) |-> M[low - 1 + k]]
<1>1. /\ ms \in Seq(Motions) /\ f \in Fields /\ b \in Bundle
      /\ low \in 1 .. Len(ms) /\ high \in low .. Len(ms) /\ Len(batch) = high - low + 1
      /\ \A k \in 1 .. Len(batch) : batch[k] = ms[low - 1 + k]
      /\ M[low - 1] = rays[r]
  BY DEF Follows
<1>2. \A k \in 1 .. Len(ms) : M[k] = M[k - 1] \ ms[k].swept[b][r]
  BY <1>1, MaterialSteps
<1> HIDE DEF M
<1>3. A[0] = rays[r]
  <2>1. 0 \in 0 .. Len(batch) /\ low - 1 + 0 = low - 1
    BY <1>1
  <2> QED BY <1>1, <2>1
<1>4. ASSUME NEW k \in 1 .. Len(batch) PROVE A[k] = A[k - 1] \ batch[k].swept[b][r]
  <2>1. /\ low - 1 + k \in 1 .. Len(ms) /\ (low - 1 + k) - 1 = low - 1 + (k - 1)
        /\ k \in 0 .. Len(batch) /\ k - 1 \in 0 .. Len(batch)
    BY <1>1
  <2>2. M[low - 1 + k] = M[low - 1 + (k - 1)] \ batch[k].swept[b][r]
    BY <1>1, <1>2, <2>1
  <2> QED BY <2>1, <2>2
<1>5. \A k \in 0 .. Len(batch) : A[k] = M[low - 1 + k]
  OBVIOUS
<1> HIDE DEF A
<1> QED BY <1>3, <1>4, <1>5 DEF Leaves, M

(* A chunk of the current bundle finds what the run leaves of its rays.      *)
LEMMA ResultCuts ==
  ASSUME TypeOK, FieldIsSequential, pc # "done", NEW c \in Chunk
  PROVE  Finds(Result(c), c * ChunkSize, ChunkSize, field[bundle],
               [r \in Ray |-> MaterialAfter(motions, stock, bundle, r)[hi]])
<1> DEFINE kept == [r \in Ray |-> MaterialAfter(motions, stock, bundle, r)[hi]]
           rays == field[bundle]
<1>1. Follows(Run, bundle, rays, motions, stock, lo, hi)
  BY RunFollows
<1>2. /\ Run \in Seq(Motions) /\ bundle \in Bundle /\ rays \in [Ray -> SUBSET Cell]
      /\ lo \in 1 .. Len(motions) /\ hi \in lo .. Len(motions) /\ Len(Run) = hi - lo + 1
  BY <1>1 DEF Follows
<1> HIDE DEF rays
<1>3. ASSUME NEW r \in Ray
      PROVE  Tells(RayTurn(Run, bundle, rays, r), rays[r], kept[r])
  <2>1. PICK A : Leaves(A, Run, bundle, rays, r, motions, stock, lo)
    BY <1>1, RunLeaves
  <2>2. Tells(RayTurn(Run, bundle, rays, r), rays[r], A[Len(Run)])
    BY <1>2, <2>1, RayTurnCuts DEF Leaves
  <2>3. Len(Run) \in 0 .. Len(Run) /\ lo - 1 + Len(Run) = hi
    BY <1>2
  <2>4. A[Len(Run)] = kept[r]
    BY <2>1, <2>3 DEF Leaves
  <2> HIDE DEF kept
  <2> QED BY <2>2, <2>4
<1>4. ChunkSize \in Nat /\ c \in Nat
  BY ChunksCover DEF Chunk
<1>5. Result(c) = run_chunk(Run, bundle, rays, ChunkSize, c)
  BY DEF Result, rays
<1> HIDE DEF kept
<1>6. Finds(run_chunk(Run, bundle, rays, ChunkSize, c), c * ChunkSize, ChunkSize, rays, kept)
  BY <1>2, <1>3, <1>4, ChunkCuts
<1> QED BY <1>5, <1>6 DEF rays, kept
-----------------------------------------------------------------------------
(* What every step but the reduction leaves alone.                           *)

(* Nothing a result is made of changes.                                     *)
LEMMA SameRun ==
  ASSUME UNCHANGED <<motions, schedule, lo, bundle, field>>
  PROVE  /\ hi' = hi /\ ChunkSize' = ChunkSize /\ Chunks' = Chunks /\ Chunk' = Chunk
         /\ \A c \in Chunk : Result(c)' = Result(c)
         /\ Results' = Results
         /\ WorkerState' = WorkerState
<1>1. hi' = hi
  BY DEF hi, BatchSize
<1>2. ChunkSize' = ChunkSize /\ Chunks' = Chunks /\ Chunk' = Chunk
  BY DEF ChunkSize, Chunks, Chunk
<1>3. Run' = Run
  BY <1>1 DEF Run
<1>4. ASSUME NEW c PROVE Result(c)' = Result(c)
  BY <1>2, <1>3 DEF Result
<1>5. Results' = Results
  BY <1>2, <1>4 DEF Results
<1> QED BY <1>1, <1>2, <1>4, <1>5 DEF WorkerState

(* Nobody writes the field between two reductions.                           *)
LEMMA Unwritten ==
  ASSUME FieldIsSequential, pc # "done", pc' # "done",
         UNCHANGED <<motions, stock, schedule, lo, bundle, field>>
  PROVE  FieldIsSequential'
<1>1. hi' = hi
  BY SameRun
<1> QED BY <1>1 DEF FieldIsSequential, CutUpTo

(* Chunks start at different rays, and a chunk's result says where.          *)
LEMMA ResultStarts ==
  ASSUME TypeOK, FieldIsSequential, pc # "done"
  PROVE  /\ \A c \in Chunk : Result(c) \in Results /\ Result(c).start = c * ChunkSize
         /\ \A c, d \in Chunk : c # d => c * ChunkSize # d * ChunkSize
<1>1. \A c \in Chunk : Result(c).start = c * ChunkSize
  BY ResultCuts DEF Finds
<1>2. ASSUME NEW c \in Chunk, NEW d \in Chunk, c # d PROVE c * ChunkSize # d * ChunkSize
  <2>1. c \in Nat /\ d \in Nat /\ ChunkSize \in Nat \ {0}
    BY ChunksCover DEF Chunk
  <2>2. c * ChunkSize < d * ChunkSize \/ d * ChunkSize < c * ChunkSize
    BY <1>2, <2>1, ProductRises
  <2> QED BY <2>1, <2>2, ProductIsNat
<1> QED BY <1>1, <1>2 DEF Results

(* Under a chaos seed or not, the hand-out order is of every chunk, once.    *)
LEMMA OrdersAreEachOnce ==
  ASSUME TypeOK, NEW o \in Orders
  PROVE  EachOnce(o)
<1>1. Chunks \in Nat
  BY ChunksCover
<1>2. /\ IsFiniteSet(Chunk) /\ Cardinality(Chunk) = Chunks
      /\ IsFiniteSet(1 .. Chunks) /\ Cardinality(1 .. Chunks) = Chunks
  <2>1. IsFiniteSet(0 .. Chunks - 1) /\ Cardinality(0 .. Chunks - 1) = Chunks
    BY <1>1, FS_Interval
  <2>2. IsFiniteSet(1 .. Chunks) /\ Cardinality(1 .. Chunks) = Chunks
    BY <1>1, FS_Interval
  <2> QED BY <2>1, <2>2 DEF Chunk
<1>3. CASE schedule.chaos
  <2>1. o \in {f \in [1 .. Chunks -> Chunk] : \A i, j \in 1 .. Chunks : i # j => f[i] # f[j]}
    BY <1>2, <1>3 DEF Orders, SetToSeqs
  <2>2. o \in Injection(1 .. Chunks, Chunk)
    BY <2>1 DEF Injection, IsInjective
  <2>3. o \in Surjection(1 .. Chunks, Chunk)
    BY <2>2, <1>2, FS_Injection
  <2> QED BY <2>1, <2>3 DEF EachOnce, Surjection
<1>4. CASE ~schedule.chaos
  <2>1. o = [i \in 1 .. Chunks |-> i - 1]
    BY <1>4 DEF Orders
  <2>2. \A c \in Chunk : c + 1 \in 1 .. Chunks /\ o[c + 1] = c
    BY <1>1, <2>1 DEF Chunk
  <2>3. \A i \in 1 .. Chunks : o[i] = i - 1 /\ i - 1 \in Chunk
    BY <1>1, <2>1 DEF Chunk
  <2>4. o \in [1 .. Chunks -> Chunk]
    BY <2>1, <2>3
  <2>5. \A i, j \in 1 .. Chunks : i # j => o[i] # o[j]
    BY <2>3
  <2> HIDE DEF EachOnce
  <2> QED BY <2>2, <2>4, <2>5 DEF EachOnce
<1> QED BY <1>3, <1>4
-----------------------------------------------------------------------------
(* The steps.                                                                *)

(* The invariant holds at first ...                                         *)
LEMMA InitHolds == Init => Inv
<1> SUFFICES ASSUME Init PROVE Inv
  OBVIOUS
<1>1. motions \in Seq(Motions) /\ stock \in Fields /\ schedule \in Schedule
  BY ParallelAssumption DEF Init
<1>2. pc = "done" => motions = <<>>
  BY DEF Init
<1>3. pc # "done" => 1 \in 1 .. Len(motions)
  <2>1. motions # <<>> => Len(motions) \in Nat /\ Len(motions) # 0
    BY <1>1
  <2> QED BY <2>1 DEF Init
<1>4. bundle \in Bundle
  BY CuttingAssumption DEF Init, Bundle
<1>5. TypeOK
  BY <1>1, <1>3, <1>4 DEF Init, TypeOK
<1>6. Sharing
  BY DEF Init, Sharing
<1>7. FieldIsSequential
  <2> SUFFICES ASSUME NEW b \in Bundle, NEW r \in Ray
               PROVE  field[b][r] = MaterialAfter(motions, stock, b, r)[CutUpTo(b)]
    BY DEF FieldIsSequential
  <2>1. MaterialAfter(motions, stock, b, r)[0] = stock[b][r]
    BY <1>1, MaterialSteps
  <2>2. CutUpTo(b) = 0
    <3>1. CASE pc = "done"
      <4>1. Len(motions) = 0
        BY <1>2, <3>1
      <4> QED BY <3>1, <4>1 DEF CutUpTo
    <3>2. CASE pc # "done"
      <4>1. ~(b < bundle) /\ lo - 1 = 0
        BY CuttingAssumption DEF Init, Bundle
      <4> QED BY <3>2, <4>1 DEF CutUpTo
    <3> QED BY <3>1, <3>2
  <2> QED BY <2>1, <2>2 DEF Init
<1> QED BY <1>5, <1>6, <1>7 DEF Inv

(* ... and each step keeps it: starting on a bundle,                        *)
LEMMA StartBundleKeeps == Inv /\ StartBundle => Inv'
<1> SUFFICES ASSUME Inv, StartBundle PROVE Inv'
  OBVIOUS
<1> USE DEF Inv
<1>0. /\ UNCHANGED <<motions, stock, schedule, lo, bundle, field>>
      /\ pc = "bundle" /\ pc' = "workers" /\ next' = 0
  BY DEF StartBundle
<1>1. /\ Chunks' = Chunks /\ Chunk' = Chunk /\ ChunkSize' = ChunkSize
      /\ Results' = Results /\ WorkerState' = WorkerState
  BY <1>0, SameRun
<1>2. EachOnce(order')
  BY OrdersAreEachOnce DEF StartBundle
<1>3. EachOnce(order)'
  BY <1>1, <1>2 DEF EachOnce
<1>4. Chunks \in Nat
  BY ChunksCover
<1>5. FieldIsSequential'
  BY <1>0, Unwritten
<1>6. /\ \A c \in Chunk : Result(c) \in Results /\ Result(c).start = c * ChunkSize
      /\ \A c, d \in Chunk : c # d => c * ChunkSize # d * ChunkSize
  BY <1>0, ResultStarts
<1>7. CASE Cardinality(Workers) = 1
  <2>1. worker' = <<>> /\ out' = [i \in 1 .. Chunks |-> Result(order'[i])]
    BY <1>7 DEF StartBundle
  <2>2. \A i \in 1 .. Chunks : order'[i] \in Chunk
    BY <1>2 DEF EachOnce
  <2>3. \A i \in 1 .. Chunks : out'[i] \in Results /\ out'[i].start = order'[i] * ChunkSize
    BY <1>6, <2>1, <2>2
  <2>4. DOMAIN out' = 1 .. Chunks /\ out' \in [1 .. Chunks -> Results]
    BY <2>1, <2>3
  <2>5. out' \in Seq(Results)
    BY <1>4, <2>4
  <2>6. DOMAIN worker' = {} /\ worker' \in [DOMAIN worker' -> WorkerState]
    BY <2>1
  <2>7. Apart(out')
    BY <1>2, <1>6, <2>2, <2>3, <2>4 DEF Apart, EachOnce
  <2>8. Starts(out') = {c * ChunkSize : c \in Chunk}
    BY <1>2, <2>2, <2>3, <2>4 DEF Starts, EachOnce
  <2>9. TypeOK'
    BY <1>0, <1>1, <2>5, <2>6 DEF TypeOK
  <2>10. AllHandedIn'
    BY <1>1, <2>7, <2>8 DEF AllHandedIn, Apart, Starts
  <2>11. Sharing'
    BY <1>0, <1>3, <2>6, <2>10 DEF Sharing
  <2> QED BY <1>5, <2>9, <2>11
<1>8. CASE Cardinality(Workers) # 1
  <2>1. worker' = [w \in Workers |-> Resting] /\ out' = <<>>
    BY <1>8 DEF StartBundle
  <2>2. DOMAIN worker' = Workers /\ \A w \in Workers : worker'[w] = Resting
    BY <2>1
  <2>3. Resting \in WorkerState /\ Resting.at = "claim" /\ Resting.mine = <<>>
    BY DEF Resting, WorkerState
  <2>4. worker' \in [DOMAIN worker' -> WorkerState]
    BY <2>1, <2>2, <2>3
  <2>5. TypeOK'
    BY <1>0, <1>1, <2>1, <2>4 DEF TypeOK
  <2>6. Apart(<<>>) /\ Starts(<<>>) = {}
    BY DEF Apart, Starts
  <2>7. Running' = {}
    BY <2>2, <2>3 DEF Running
  <2>8. Claimed' = {}
    BY <1>0, <1>1 DEF Claimed
  <2>9. \A w \in DOMAIN worker' : worker'[w].mine = <<>> /\ worker'[w].at = "claim"
    BY <2>2, <2>3
  <2>10. Ledger'
    BY <2>1, <2>6, <2>7, <2>8, <2>9 DEF Ledger, Apart, Starts
  <2>11. Leaving'
    BY <2>9 DEF Leaving
  <2>12. DOMAIN worker' # {}
    <3>1. 1 \in Workers
      BY <1>4 DEF Workers, TypeOK, Schedule
    <3> QED BY <2>2, <3>1
  <2>13. Sharing'
    BY <1>0, <1>3, <2>10, <2>11, <2>12 DEF Sharing
  <2> QED BY <1>5, <2>5, <2>13
<1> QED BY <1>7, <1>8

(* claiming a chunk,                                                        *)
LEMMA ClaimKeeps ==
  ASSUME Inv, NEW w \in DOMAIN worker, pc = "workers", Claim(w)
  PROVE  Inv'
<1> USE DEF Inv
<1>0. /\ UNCHANGED <<motions, stock, schedule, lo, bundle, field, order, out, pc>>
      /\ next' = next + 1 /\ next \in Nat
  BY DEF Claim, TypeOK
<1>1. /\ Chunks' = Chunks /\ Chunk' = Chunk /\ ChunkSize' = ChunkSize
      /\ Results' = Results /\ WorkerState' = WorkerState
  BY <1>0, SameRun
<1>2. FieldIsSequential'
  BY <1>0, Unwritten
<1>3. EachOnce(order) /\ EachOnce(order)' /\ Ledger /\ Leaving
  BY <1>0, <1>1 DEF Sharing, EachOnce
<1>4. Chunks \in Nat
  BY ChunksCover
<1>5. worker \in [DOMAIN worker -> WorkerState] /\ worker[w] \in WorkerState /\ worker[w].at = "claim"
  BY DEF TypeOK, Claim
<1>6. /\ DOMAIN worker' = DOMAIN worker
      /\ \A v \in DOMAIN worker : v # w => worker'[v] = worker[v]
      /\ worker'[w] = [at |-> IF next < Chunks THEN "run" ELSE "flush", index |-> next,
                       mine |-> worker[w].mine]
  BY <1>5 DEF Claim, WorkerState
<1>7. \A v \in DOMAIN worker : worker'[v].mine = worker[v].mine
  BY <1>6
<1>8. worker'[w] \in WorkerState
  BY <1>0, <1>5, <1>6 DEF WorkerState
<1>9. worker' \in [DOMAIN worker' -> WorkerState]
  <2>1. \A v \in DOMAIN worker : worker'[v] \in WorkerState
    BY <1>5, <1>6, <1>8
  <2>2. worker' = [v \in DOMAIN worker |-> worker'[v]]
    BY DEF Claim
  <2> QED BY <1>6, <2>1, <2>2
<1>10. TypeOK'
  BY <1>0, <1>1, <1>9 DEF TypeOK
<1>11. w \notin Running
  BY <1>5 DEF Running
<1>12. \A v \in Running : v # w /\ StartOf(v)' = StartOf(v)
  BY <1>0, <1>1, <1>6, <1>11 DEF Running, StartOf
<1>13. Leaving'
  <2> SUFFICES ASSUME NEW v \in DOMAIN worker
               PROVE  /\ worker'[v].at \in {"flush", "joined"} => next + 1 >= Chunks
                      /\ worker'[v].at = "joined" => worker'[v].mine = <<>>
    BY <1>0, <1>1, <1>6 DEF Leaving
  <2>1. CASE v = w
    BY <2>1, <1>0, <1>4, <1>6
  <2>2. CASE v # w
    BY <2>2, <1>0, <1>3, <1>4, <1>6 DEF Leaving
  <2> QED BY <2>1, <2>2
<1>14. Ledger'
  <2>1. CASE next < Chunks
    <3> DEFINE s == order[next + 1] * ChunkSize
    <3>1. next + 1 \in 1 .. Chunks /\ order[next + 1] \in Chunk
      BY <2>1, <1>0, <1>3, <1>4 DEF EachOnce
    <3>2. Running' = Running \union {w}
      BY <2>1, <1>6 DEF Running
    <3>3. StartOf(w)' = s
      BY <1>0, <1>1, <1>6 DEF StartOf
    <3>4. s \notin Claimed
      <4>1. \A i \in 1 .. Chunks : i <= next => order[i] \in Chunk /\ order[i] # order[next + 1]
        BY <3>1, <1>0, <1>3 DEF EachOnce
      <4>2. \A c, d \in Chunk : c # d => c * ChunkSize # d * ChunkSize
        BY ResultStarts
      <4> QED BY <3>1, <4>1, <4>2 DEF Claimed
    <3>5. Claimed' = Claimed \union {s}
      <4>1. {i \in 1 .. Chunks : i <= next + 1} = {i \in 1 .. Chunks : i <= next} \union {next + 1}
        BY <3>1, <1>0, <1>4
      <4> QED BY <4>1, <1>0, <1>1 DEF Claimed
    <3> HIDE DEF s
    <3>6. s \notin Starts(out) /\ \A v \in DOMAIN worker : s \notin Starts(worker[v].mine)
      BY <3>4, <1>3 DEF Ledger
    <3>7. \A v \in Running : s # StartOf(v)
      <4>1. {StartOf(v) : v \in Running} \subseteq Claimed
        BY <1>3 DEF Ledger
      <4> QED BY <3>4, <4>1
    <3>8. /\ Apart(out') /\ \A v \in DOMAIN worker' : Apart(worker'[v].mine)
          /\ \A v \in DOMAIN worker' : Starts(worker'[v].mine) \cap Starts(out') = {}
          /\ \A u, v \in DOMAIN worker' : u # v => Starts(worker'[u].mine) \cap Starts(worker'[v].mine) = {}
      BY <1>0, <1>3, <1>6, <1>7 DEF Ledger
    <3>9. ASSUME NEW u \in Running'
          PROVE  /\ worker'[u].index < Chunks
                 /\ StartOf(u)' \notin Starts(out')
                 /\ \A v \in DOMAIN worker' : StartOf(u)' \notin Starts(worker'[v].mine)
                 /\ \A v \in Running' : v # u => StartOf(v)' # StartOf(u)'
      <4>1. CASE u = w
        BY <4>1, <2>1, <3>2, <3>3, <3>6, <3>7, <1>0, <1>6, <1>7, <1>12
      <4>2. CASE u # w
        <5>1. u \in Running /\ u \in DOMAIN worker
          BY <4>2, <3>2 DEF Running
        <5> QED BY <4>2, <5>1, <3>2, <3>3, <3>7, <1>0, <1>3, <1>6, <1>7, <1>12 DEF Ledger
      <4> QED BY <4>1, <4>2
    <3>10. Claimed' = Starts(out') \union (UNION {Starts(worker'[v].mine) : v \in DOMAIN worker'})
                        \union {StartOf(v)' : v \in Running'}
      <4>1. {Starts(worker'[v].mine) : v \in DOMAIN worker'} = {Starts(worker[v].mine) : v \in DOMAIN worker}
        BY <1>6, <1>7
      <4>2. {StartOf(v)' : v \in Running'} = {StartOf(v) : v \in Running} \union {s}
        BY <3>2, <3>3, <1>12
      <4> QED BY <4>1, <4>2, <3>5, <1>0, <1>3 DEF Ledger
    <3> QED BY <3>8, <3>9, <3>10, <1>1 DEF Ledger, Starts, Apart
  <2>2. CASE ~(next < Chunks)
    <3>1. Running' = Running
      BY <2>2, <1>6, <1>11 DEF Running
    <3>2. Claimed' = Claimed
      <4>1. {i \in 1 .. Chunks : i <= next + 1} = {i \in 1 .. Chunks : i <= next}
        BY <2>2, <1>0, <1>4
      <4> QED BY <4>1, <1>0, <1>1 DEF Claimed
    <3>3. /\ Apart(out') /\ \A v \in DOMAIN worker' : Apart(worker'[v].mine)
          /\ \A v \in DOMAIN worker' : Starts(worker'[v].mine) \cap Starts(out') = {}
          /\ \A u, v \in DOMAIN worker' : u # v => Starts(worker'[u].mine) \cap Starts(worker'[v].mine) = {}
      BY <1>0, <1>3, <1>6, <1>7 DEF Ledger
    <3>4. ASSUME NEW u \in Running'
          PROVE  /\ worker'[u].index < Chunks
                 /\ StartOf(u)' \notin Starts(out')
                 /\ \A v \in DOMAIN worker' : StartOf(u)' \notin Starts(worker'[v].mine)
                 /\ \A v \in Running' : v # u => StartOf(v)' # StartOf(u)'
      <4>1. u \in Running /\ u \in DOMAIN worker
        BY <3>1 DEF Running
      <4> QED BY <4>1, <3>1, <1>0, <1>3, <1>6, <1>7, <1>12 DEF Ledger
    <3>5. Claimed' = Starts(out') \union (UNION {Starts(worker'[v].mine) : v \in DOMAIN worker'})
                       \union {StartOf(v)' : v \in Running'}
      <4>1. {Starts(worker'[v].mine) : v \in DOMAIN worker'} = {Starts(worker[v].mine) : v \in DOMAIN worker}
        BY <1>6, <1>7
      <4>2. {StartOf(v)' : v \in Running'} = {StartOf(v) : v \in Running}
        BY <3>1, <1>12
      <4> QED BY <4>1, <4>2, <3>2, <1>0, <1>3 DEF Ledger
    <3> QED BY <3>3, <3>4, <3>5, <1>1 DEF Ledger, Starts, Apart
  <2> QED BY <2>1, <2>2
<1>15. Sharing'
  BY <1>0, <1>3, <1>6, <1>13, <1>14 DEF Sharing
<1> QED BY <1>2, <1>10, <1>15

(* computing it,                                                            *)
LEMMA RunChunkKeeps ==
  ASSUME Inv, NEW w \in DOMAIN worker, pc = "workers", RunChunk(w)
  PROVE  Inv'
<1> USE DEF Inv
<1>0. UNCHANGED <<motions, stock, schedule, lo, bundle, field, order, next, out, pc>>
  BY DEF RunChunk
<1>1. /\ Chunks' = Chunks /\ Chunk' = Chunk /\ ChunkSize' = ChunkSize
      /\ Results' = Results /\ WorkerState' = WorkerState
  BY <1>0, SameRun
<1>2. FieldIsSequential'
  BY <1>0, Unwritten
<1>3. EachOnce(order) /\ EachOnce(order)' /\ Ledger /\ Leaving
  BY <1>0, <1>1 DEF Sharing, EachOnce
<1>4. Chunks \in Nat
  BY ChunksCover
<1>5. /\ worker \in [DOMAIN worker -> WorkerState] /\ worker[w] \in WorkerState
      /\ worker[w].at = "run" /\ w \in Running
  BY DEF TypeOK, RunChunk, Running
<1> DEFINE c == order[worker[w].index + 1]
           s == StartOf(w)
<1>6. /\ worker[w].index \in Nat /\ worker[w].index < Chunks /\ worker[w].mine \in Seq(Results)
      /\ c \in Chunk
  <2>1. worker[w].index \in Nat /\ worker[w].index < Chunks /\ worker[w].mine \in Seq(Results)
    BY <1>3, <1>5 DEF Ledger, WorkerState
  <2> QED BY <2>1, <1>3, <1>4 DEF EachOnce
<1>7. Result(c) \in Results /\ Result(c).start = s
  BY <1>6, ResultStarts DEF StartOf
<1>8. /\ DOMAIN worker' = DOMAIN worker
      /\ \A v \in DOMAIN worker : v # w => worker'[v] = worker[v]
      /\ worker'[w] = [at |-> "claim", index |-> worker[w].index,
                       mine |-> Append(worker[w].mine, Result(c))]
  BY <1>5 DEF RunChunk, WorkerState
<1>9. /\ Starts(worker'[w].mine) = Starts(worker[w].mine) \union {s}
      /\ Apart(worker'[w].mine)
  <2>1. Apart(worker[w].mine) /\ s \notin Starts(worker[w].mine)
    BY <1>3, <1>5 DEF Ledger
  <2>2. worker'[w].mine = Append(worker[w].mine, Result(c))
    BY <1>8
  <2> HIDE DEF c, s
  <2> QED BY <2>1, <2>2, <1>6, <1>7, StartsOfAppend
<1>10. worker'[w] \in WorkerState
  <2>1. Append(worker[w].mine, Result(c)) \in Seq(Results)
    BY <1>6, <1>7
  <2> HIDE DEF c
  <2> QED BY <2>1, <1>6, <1>8 DEF WorkerState
<1>11. worker' \in [DOMAIN worker' -> WorkerState]
  <2>1. \A v \in DOMAIN worker : worker'[v] \in WorkerState
    BY <1>5, <1>8, <1>10
  <2>2. worker' = [v \in DOMAIN worker |-> worker'[v]]
    BY DEF RunChunk
  <2> QED BY <1>8, <2>1, <2>2
<1>12. TypeOK'
  BY <1>0, <1>1, <1>11 DEF TypeOK
<1>13. Leaving'
  <2> SUFFICES ASSUME NEW v \in DOMAIN worker
               PROVE  /\ worker'[v].at \in {"flush", "joined"} => next >= Chunks
                      /\ worker'[v].at = "joined" => worker'[v].mine = <<>>
    BY <1>0, <1>1, <1>8 DEF Leaving
  <2> QED BY <1>3, <1>8 DEF Leaving
<1>14. Running' = Running \ {w}
  BY <1>8 DEF Running
<1>15. \A v \in Running' : v \in Running /\ v # w /\ StartOf(v)' = StartOf(v)
                           /\ worker'[v].index = worker[v].index
  BY <1>0, <1>1, <1>8, <1>14 DEF Running, StartOf
<1> HIDE DEF s
<1>16. Ledger'
  <2>1. s \notin Starts(out) /\ \A v \in DOMAIN worker : s \notin Starts(worker[v].mine)
    BY <1>3, <1>5 DEF Ledger, s
  <2>2. \A v \in Running' : StartOf(v) # s
    BY <1>3, <1>5, <1>15 DEF Ledger, s
  <2>3. \A v \in DOMAIN worker' : Starts(worker'[v].mine) = IF v = w THEN Starts(worker[w].mine) \union {s}
                                                            ELSE Starts(worker[v].mine)
    BY <1>8, <1>9
  <2>4. Apart(out') /\ \A v \in DOMAIN worker' : Apart(worker'[v].mine)
    BY <1>0, <1>3, <1>8, <1>9 DEF Ledger
  <2>5. \A v \in DOMAIN worker' : Starts(worker'[v].mine) \cap Starts(out') = {}
    BY <1>0, <1>3, <1>8, <2>1, <2>3 DEF Ledger
  <2>6. ASSUME NEW u \in DOMAIN worker', NEW v \in DOMAIN worker', u # v
        PROVE  Starts(worker'[u].mine) \cap Starts(worker'[v].mine) = {}
    <3>1. Starts(worker[u].mine) \cap Starts(worker[v].mine) = {}
      BY <1>3, <1>8, <2>6 DEF Ledger
    <3> QED BY <3>1, <1>8, <2>1, <2>3, <2>6
  <2>7. ASSUME NEW u \in Running'
        PROVE  /\ worker'[u].index < Chunks
               /\ StartOf(u)' \notin Starts(out')
               /\ \A v \in DOMAIN worker' : StartOf(u)' \notin Starts(worker'[v].mine)
               /\ \A v \in Running' : v # u => StartOf(v)' # StartOf(u)'
    <3>1. u \in Running /\ StartOf(u)' = StartOf(u) /\ StartOf(u) # s /\ worker'[u].index = worker[u].index
      BY <1>15, <2>2
    <3>2. worker[u].index < Chunks /\ StartOf(u) \notin Starts(out)
      BY <3>1, <1>3 DEF Ledger
    <3>3. \A v \in DOMAIN worker' : StartOf(u) \notin Starts(worker'[v].mine)
      BY <3>1, <1>3, <1>8, <2>3 DEF Ledger
    <3>4. \A v \in Running' : v # u => StartOf(v)' # StartOf(u)
      BY <3>1, <1>3, <1>15 DEF Ledger
    <3> QED BY <3>1, <3>2, <3>3, <3>4, <1>0
  <2>8. Claimed' = Starts(out') \union (UNION {Starts(worker'[v].mine) : v \in DOMAIN worker'})
                     \union {StartOf(v)' : v \in Running'}
    <3>1. (UNION {Starts(worker'[v].mine) : v \in DOMAIN worker'})
            = (UNION {Starts(worker[v].mine) : v \in DOMAIN worker}) \union {s}
      BY <1>8, <2>3
    <3>2. {StartOf(v) : v \in Running} = {StartOf(v)' : v \in Running'} \union {s}
      <4>1. \A v \in Running : v = w \/ v \in Running'
        BY <1>14
      <4>2. StartOf(w) = s /\ w \in Running
        BY <1>5 DEF s
      <4> QED BY <4>1, <4>2, <1>15
    <3>3. Claimed' = Claimed
      BY <1>0, <1>1 DEF Claimed
    <3>4. Claimed = Starts(out) \union (UNION {Starts(worker[v].mine) : v \in DOMAIN worker})
                      \union {StartOf(v) : v \in Running}
      BY <1>3 DEF Ledger
    <3> QED BY <3>1, <3>2, <3>3, <3>4, <1>0
  <2> QED BY <2>4, <2>5, <2>6, <2>7, <2>8, <1>1 DEF Ledger, Starts, Apart
<1>17. Sharing'
  BY <1>0, <1>3, <1>8, <1>13, <1>16 DEF Sharing
<1> QED BY <1>2, <1>12, <1>17

(* handing in,                                                              *)
LEMMA FlushKeeps ==
  ASSUME Inv, NEW w \in DOMAIN worker, pc = "workers", Flush(w)
  PROVE  Inv'
<1> USE DEF Inv
<1>0. UNCHANGED <<motions, stock, schedule, lo, bundle, field, order, next, pc>>
  BY DEF Flush
<1>1. /\ Chunks' = Chunks /\ Chunk' = Chunk /\ ChunkSize' = ChunkSize
      /\ Results' = Results /\ WorkerState' = WorkerState
  BY <1>0, SameRun
<1>2. FieldIsSequential'
  BY <1>0, Unwritten
<1>3. EachOnce(order) /\ EachOnce(order)' /\ Ledger /\ Leaving
  BY <1>0, <1>1 DEF Sharing, EachOnce
<1>4. /\ worker \in [DOMAIN worker -> WorkerState] /\ worker[w] \in WorkerState
      /\ worker[w].at = "flush" /\ w \notin Running /\ out \in Seq(Results)
  BY DEF TypeOK, Flush, Running
<1>5. /\ worker[w].index \in Nat /\ worker[w].mine \in Seq(Results)
      /\ out' = out \o worker[w].mine
  BY <1>4 DEF WorkerState, Flush
<1>6. /\ DOMAIN worker' = DOMAIN worker
      /\ \A v \in DOMAIN worker : v # w => worker'[v] = worker[v]
      /\ worker'[w] = [at |-> "joined", index |-> worker[w].index, mine |-> <<>>]
  BY <1>4 DEF Flush, WorkerState
<1>7. Starts(out') = Starts(out) \union Starts(worker[w].mine) /\ Apart(out')
  <2>1. Apart(out) /\ Apart(worker[w].mine) /\ Starts(out) \cap Starts(worker[w].mine) = {}
    BY <1>3 DEF Ledger
  <2> QED BY <2>1, <1>4, <1>5, StartsOfConcat
<1>8. out' \in Seq(Results)
  BY <1>4, <1>5
<1>9. worker'[w] \in WorkerState
  BY <1>5, <1>6 DEF WorkerState
<1>10. worker' \in [DOMAIN worker' -> WorkerState]
  <2>1. \A v \in DOMAIN worker : worker'[v] \in WorkerState
    BY <1>4, <1>6, <1>9
  <2>2. worker' = [v \in DOMAIN worker |-> worker'[v]]
    BY DEF Flush
  <2> QED BY <1>6, <2>1, <2>2
<1>11. TypeOK'
  BY <1>0, <1>1, <1>8, <1>10 DEF TypeOK
<1>12. Leaving'
  <2> SUFFICES ASSUME NEW v \in DOMAIN worker
               PROVE  /\ worker'[v].at \in {"flush", "joined"} => next >= Chunks
                      /\ worker'[v].at = "joined" => worker'[v].mine = <<>>
    BY <1>0, <1>1, <1>6 DEF Leaving
  <2> QED BY <1>3, <1>4, <1>6 DEF Leaving
<1>13. Running' = Running
  BY <1>4, <1>6 DEF Running
<1>14. \A v \in Running : v # w /\ StartOf(v)' = StartOf(v) /\ worker'[v].index = worker[v].index
  BY <1>0, <1>1, <1>4, <1>6 DEF Running, StartOf
<1>15. Ledger'
  <2>1. Apart(<<>>) /\ Starts(<<>>) = {}
    BY DEF Apart, Starts
  <2>2. \A v \in DOMAIN worker' : Starts(worker'[v].mine) = IF v = w THEN {} ELSE Starts(worker[v].mine)
    <3>1. worker'[w].mine = <<>>
      BY <1>6
    <3>2. Starts(worker'[w].mine) = {}
      BY <3>1, <2>1
    <3> QED BY <3>2, <1>6
  <2>3. Apart(out') /\ \A v \in DOMAIN worker' : Apart(worker'[v].mine)
    BY <1>3, <1>6, <1>7, <2>1 DEF Ledger
  <2>4. \A v \in DOMAIN worker' : Starts(worker'[v].mine) \cap Starts(out') = {}
    BY <1>3, <1>6, <1>7, <2>2 DEF Ledger
  <2>5. \A u, v \in DOMAIN worker' : u # v => Starts(worker'[u].mine) \cap Starts(worker'[v].mine) = {}
    BY <1>3, <1>6, <2>2 DEF Ledger
  <2>6. ASSUME NEW u \in Running'
        PROVE  /\ worker'[u].index < Chunks
               /\ StartOf(u)' \notin Starts(out')
               /\ \A v \in DOMAIN worker' : StartOf(u)' \notin Starts(worker'[v].mine)
               /\ \A v \in Running' : v # u => StartOf(v)' # StartOf(u)'
    <3>1. u \in Running /\ StartOf(u)' = StartOf(u) /\ worker'[u].index = worker[u].index
      BY <1>13, <1>14
    <3>2. worker[u].index < Chunks /\ StartOf(u) \notin Starts(out')
      BY <3>1, <1>3, <1>7 DEF Ledger
    <3>3. \A v \in DOMAIN worker' : StartOf(u) \notin Starts(worker'[v].mine)
      BY <3>1, <1>3, <1>6, <2>2 DEF Ledger
    <3>4. \A v \in Running' : v # u => StartOf(v)' # StartOf(u)
      BY <3>1, <1>3, <1>13, <1>14 DEF Ledger
    <3> QED BY <3>1, <3>2, <3>3, <3>4
  <2>7. Claimed' = Starts(out') \union (UNION {Starts(worker'[v].mine) : v \in DOMAIN worker'})
                     \union {StartOf(v)' : v \in Running'}
    <3>1. (UNION {Starts(worker[v].mine) : v \in DOMAIN worker})
            = (UNION {Starts(worker'[v].mine) : v \in DOMAIN worker'}) \union Starts(worker[w].mine)
      BY <1>6, <2>2
    <3>2. {StartOf(v)' : v \in Running'} = {StartOf(v) : v \in Running}
      BY <1>13, <1>14
    <3>3. Claimed' = Claimed
      BY <1>0, <1>1 DEF Claimed
    <3>4. Claimed = Starts(out) \union (UNION {Starts(worker[v].mine) : v \in DOMAIN worker})
                      \union {StartOf(v) : v \in Running}
      BY <1>3 DEF Ledger
    <3> QED BY <3>1, <3>2, <3>3, <3>4, <1>7
  <2> QED BY <2>3, <2>4, <2>5, <2>6, <2>7, <1>1 DEF Ledger, Starts, Apart
<1>16. Sharing'
  BY <1>0, <1>3, <1>6, <1>12, <1>15 DEF Sharing
<1> QED BY <1>2, <1>11, <1>16

(* What is left of a ray is made of cells.                                   *)
LEMMA MaterialIsCells ==
  ASSUME NEW ms \in Seq(Motions), NEW f \in Fields, NEW b \in Bundle, NEW r \in Ray
  PROVE  \A k \in 0 .. Len(ms) : MaterialAfter(ms, f, b, r)[k] \in SUBSET Cell
<1> DEFINE M == MaterialAfter(ms, f, b, r)
           T == {k \in 0 .. Len(ms) : M[k] \in SUBSET Cell}
<1>1. M[0] = f[b][r] /\ \A k \in 1 .. Len(ms) : M[k] = M[k - 1] \ ms[k].swept[b][r]
  BY MaterialSteps
<1> HIDE DEF M
<1>2. Len(ms) \in Nat
  OBVIOUS
<1>3. 0 \in T
  BY <1>1, <1>2 DEF Fields
<1>4. ASSUME NEW k \in 0 .. Len(ms) - 1, k \in T PROVE k + 1 \in T
  <2>1. k + 1 \in 1 .. Len(ms) /\ (k + 1) - 1 = k /\ k + 1 \in 0 .. Len(ms)
    BY <1>2
  <2>2. M[k + 1] = M[k] \ ms[k + 1].swept[b][r]
    BY <1>1, <2>1
  <2> QED BY <2>1, <2>2, <1>4
<1>5. \A k \in 0 .. Len(ms) : k \in T
  <2> HIDE DEF T
  <2> QED BY <1>2, <1>3, <1>4, Induction
<1> QED BY <1>5 DEF M

(* When every worker has been joined, every chunk has handed in its result.  *)
LEMMA JoinedIsComplete ==
  ASSUME Inv, pc = "workers", \A w \in DOMAIN worker : worker[w].at = "joined"
  PROVE  AllHandedIn
<1> USE DEF Inv
<1>1. CASE DOMAIN worker = {}
  BY <1>1 DEF Sharing
<1>2. CASE DOMAIN worker # {}
  <2>1. Ledger /\ Leaving /\ EachOnce(order)
    BY <1>2 DEF Sharing
  <2>2. next >= Chunks /\ next \in Nat /\ Chunks \in Nat
    BY <1>2, <2>1, ChunksCover DEF Leaving, TypeOK
  <2>3. \A w \in DOMAIN worker : Starts(worker[w].mine) = {}
    BY <2>1 DEF Leaving, Starts
  <2>4. Running = {}
    BY DEF Running
  <2>5. Claimed = Starts(out)
    BY <2>1, <2>3, <2>4 DEF Ledger
  <2>6. Claimed = {c * ChunkSize : c \in Chunk}
    <3>1. {i \in 1 .. Chunks : i <= next} = 1 .. Chunks
      BY <2>2
    <3>2. Claimed = {order[j] * ChunkSize : j \in 1 .. Chunks}
      BY <3>1 DEF Claimed
    <3> QED BY <3>2, <2>1 DEF EachOnce
  <2> QED BY <2>1, <2>5, <2>6 DEF AllHandedIn, Ledger
<1> QED BY <1>1, <1>2

(* Then the write-back leaves of every ray of the bundle what the run leaves *)
(* of it, whichever order the results came in.                               *)
LEMMA WriteBackIsSequential ==
  ASSUME Inv, pc = "workers", AllHandedIn
  PROVE  WriteBack(Ordered(out))
           = [field EXCEPT ![bundle] =
                [r \in Ray |-> MaterialAfter(motions, stock, bundle, r)[hi]]]
<1> USE DEF Inv
<1> DEFINE results == Ordered(out)
           kept == [r \in Ray |-> MaterialAfter(motions, stock, bundle, r)[hi]]
           writers(r) == {i \in DOMAIN results : r \in DOMAIN results[i].changed}
           written(r) == IF writers(r) = {} THEN field[bundle][r]
                         ELSE results[CHOOSE i \in writers(r) : \A j \in writers(r) : j <= i].changed[r]
<1>1. /\ out \in Seq(Results) /\ field \in Fields /\ bundle \in Bundle
      /\ field[bundle] \in [Ray -> SUBSET Cell]
  BY DEF TypeOK, Fields
<1>2. Chunks \in Nat /\ ChunkSize \in Nat \ {0}
  BY ChunksCover
<1>3. Apart(out) /\ Starts(out) = {c * ChunkSize : c \in 0 .. Chunks - 1}
  BY DEF AllHandedIn, Chunk
<1>4. /\ DOMAIN results = DOMAIN out
      /\ \A i \in DOMAIN out : results[i] \in {out[j] : j \in DOMAIN out}
      /\ \A j \in DOMAIN out : \E i \in DOMAIN out : results[i] = out[j]
  <2> HIDE DEF results
  <2>1. /\ DOMAIN Ordered(out) = DOMAIN out
        /\ \A i \in DOMAIN out : Ordered(out)[i] \in {out[j] : j \in DOMAIN out}
        /\ \A j \in DOMAIN out : \E i \in DOMAIN out : Ordered(out)[i] = out[j]
    BY <1>1, <1>2, <1>3, OrderedKeeps
  <2> QED BY <2>1 DEF results
<1>5. DOMAIN out \subseteq 0 .. Len(out) /\ Len(out) \in Nat
  BY <1>1
<1> HIDE DEF results
<1>6. \A c \in Chunk : Finds(Result(c), c * ChunkSize, ChunkSize, field[bundle], kept)
  BY ResultCuts
<1> HIDE DEF kept
<1>7. \A i \in DOMAIN results : \E c \in Chunk : results[i] = Result(c)
  <2>1. \A j \in DOMAIN out : out[j] \in Results
    BY <1>1
  <2>2. \A i \in DOMAIN results : results[i] \in Results
    BY <1>4, <2>1
  <2> QED BY <2>2 DEF Results
<1>8. \A c \in Chunk : \E i \in DOMAIN results : results[i] = Result(c)
  <2> SUFFICES ASSUME NEW c \in Chunk PROVE \E i \in DOMAIN results : results[i] = Result(c)
    OBVIOUS
  <2>1. c * ChunkSize \in Starts(out)
    BY DEF AllHandedIn
  <2>2. PICK j \in DOMAIN out : out[j].start = c * ChunkSize
    BY <2>1 DEF Starts
  <2>3. PICK i \in DOMAIN results : results[i] = out[j]
    BY <1>4
  <2>4. PICK d \in Chunk : results[i] = Result(d)
    BY <1>7
  <2>5. d = c
    BY <2>2, <2>3, <2>4, ResultStarts
  <2> QED BY <2>4, <2>5
<1>9. ASSUME NEW r \in Ray PROVE written(r) = kept[r]
  <2>1. CASE writers(r) = {}
    <3>1. PICK c \in Chunk : c * ChunkSize <= r /\ r < c * ChunkSize + ChunkSize
      BY ChunksCover
    <3>2. PICK i \in DOMAIN results : results[i] = Result(c)
      BY <1>8
    <3>3. r \notin DOMAIN results[i].changed
      BY <2>1, <3>2
    <3>4. field[bundle][r] = kept[r]
      BY <1>6, <3>1, <3>2, <3>3 DEF Finds
    <3> QED BY <2>1, <3>4
  <2>2. CASE writers(r) # {}
    <3>1. writers(r) \subseteq 0 .. Len(out)
      BY <1>4, <1>5
    <3>2. \E i \in writers(r) : \A j \in writers(r) : j <= i
      <4> HIDE DEF writers
      <4> QED BY <2>2, <3>1, <1>5, NatMax
    <3> DEFINE w == CHOOSE i \in writers(r) : \A j \in writers(r) : j <= i
    <3>3. w \in writers(r)
      <4> HIDE DEF writers
      <4> QED BY <3>2
    <3> HIDE DEF w
    <3>4. w \in DOMAIN results /\ r \in DOMAIN results[w].changed
      BY <3>3
    <3>5. PICK c \in Chunk : results[w] = Result(c)
      BY <1>7, <3>4
    <3>6. results[w].changed[r] = kept[r]
      BY <1>6, <3>4, <3>5 DEF Finds
    <3> HIDE DEF writers
    <3> QED BY <2>2, <3>6 DEF w
  <2> HIDE DEF written, writers
  <2> QED BY <2>1, <2>2
<1>10. WriteBack(results) = [field EXCEPT ![bundle] = [r \in Ray |-> written(r)]]
  BY <1>1 DEF WriteBack, Fields
<1>11. [r \in Ray |-> written(r)] = kept
  <2> HIDE DEF written
  <2> QED BY <1>9 DEF kept
<1> HIDE DEF written
<1> QED BY <1>10, <1>11 DEF results, kept

(* The reduction brings the bundle forward by the run.                       *)
LEMMA ReduceCutsOn ==
  ASSUME TypeOK, Reduce
  PROVE  \A b \in Bundle : /\ CutUpTo(b) = IF b < bundle THEN hi ELSE lo - 1
                           /\ CutUpTo(b)' = IF b <= bundle THEN hi ELSE lo - 1
<1> DEFINE ends == bundle = Bundles /\ hi = Len(motions)
<1>0. /\ UNCHANGED <<motions, stock, schedule>> /\ pc = "workers"
      /\ bundle' = IF bundle < Bundles THEN bundle + 1 ELSE IF ends THEN bundle ELSE 1
      /\ lo' = IF bundle = Bundles /\ ~ends THEN hi + 1 ELSE lo
      /\ pc' = IF ends THEN "done" ELSE "bundle"
  BY DEF Reduce
<1>1. /\ motions \in Seq(Motions) /\ bundle \in 1 .. Bundles /\ Bundles \in Nat \ {0}
      /\ lo \in 1 .. Len(motions)
  BY <1>0, CuttingAssumption DEF TypeOK, Bundle
<1>2. hi \in lo .. Len(motions)
  BY <1>0, RunBetween
<1>3. \A b \in Bundle : CutUpTo(b) = IF b < bundle THEN hi ELSE lo - 1
  BY <1>0 DEF CutUpTo
<1>4. \A b \in Bundle : CutUpTo(b)' = IF b <= bundle THEN hi ELSE lo - 1
  <2> SUFFICES ASSUME NEW b \in Bundle
               PROVE  CutUpTo(b)' = IF b <= bundle THEN hi ELSE lo - 1
    OBVIOUS
  <2>1. CASE ends
    <3>1. CutUpTo(b)' = Len(motions)
      BY <2>1, <1>0 DEF CutUpTo
    <3> QED BY <2>1, <3>1, <1>1 DEF Bundle
  <2>2. CASE ~ends /\ bundle < Bundles
    <3>1. hi' = hi /\ lo' = lo /\ bundle' = bundle + 1 /\ pc' = "bundle"
      BY <2>2, <1>0, <1>1 DEF hi, BatchSize
    <3>2. CutUpTo(b)' = IF b < bundle + 1 THEN hi ELSE lo - 1
      BY <3>1 DEF CutUpTo
    <3> QED BY <3>2, <1>1 DEF Bundle
  <2>3. CASE ~ends /\ bundle = Bundles
    <3>1. lo' = hi + 1 /\ bundle' = 1 /\ pc' = "bundle"
      BY <2>3, <1>0, <1>1
    <3>2. ~(b < 1) /\ b <= bundle
      BY <2>3, <1>1 DEF Bundle
    <3>3. CutUpTo(b)' = lo' - 1
      BY <3>1, <3>2 DEF CutUpTo
    <3> QED BY <3>1, <3>2, <3>3, <1>1, <1>2
  <2> QED BY <2>1, <2>2, <2>3, <1>1
<1> QED BY <1>3, <1>4

(* the reduction,                                                           *)
LEMMA ReduceKeeps == Inv /\ Reduce => Inv'
<1> SUFFICES ASSUME Inv, Reduce PROVE Inv'
  OBVIOUS
<1> USE DEF Inv
<1> DEFINE ends == bundle = Bundles /\ hi = Len(motions)
           M(b, r) == MaterialAfter(motions, stock, b, r)
           kept == [r \in Ray |-> M(bundle, r)[hi]]
<1>0. /\ UNCHANGED <<motions, stock, schedule>> /\ pc = "workers" /\ next' = 0
      /\ bundle' = IF bundle < Bundles THEN bundle + 1 ELSE IF ends THEN bundle ELSE 1
      /\ lo' = IF bundle = Bundles /\ ~ends THEN hi + 1 ELSE lo
      /\ pc' = IF ends THEN "done" ELSE "bundle"
  BY DEF Reduce
<1>1. /\ motions \in Seq(Motions) /\ stock \in Fields /\ schedule \in Schedule /\ field \in Fields
      /\ bundle \in 1 .. Bundles /\ Bundles \in Nat \ {0} /\ lo \in 1 .. Len(motions)
  BY <1>0, CuttingAssumption DEF TypeOK, Bundle
<1>2. hi \in lo .. Len(motions)
  BY <1>0, RunBetween
<1>3. field' = [field EXCEPT ![bundle] = kept]
  <2>1. AllHandedIn
    BY JoinedIsComplete DEF Reduce
  <2>2. field' = WriteBack(Ordered(out))
    BY DEF Reduce
  <2> QED BY <1>0, <2>1, <2>2, WriteBackIsSequential
<1>4. kept \in [Ray -> SUBSET Cell]
  <2>1. \A r \in Ray : M(bundle, r)[hi] \in SUBSET Cell
    <3>1. hi \in 0 .. Len(motions)
      BY <1>1, <1>2
    <3> QED BY <1>1, <3>1, MaterialIsCells DEF Bundle
  <2> HIDE DEF M
  <2> QED BY <2>1
<1> HIDE DEF M, kept
<1>5. field' \in Fields
  BY <1>1, <1>3, <1>4 DEF Fields
<1>6. bundle' \in Bundle
  BY <1>0, <1>1 DEF Bundle
<1>7. lo' \in Nat /\ (pc' # "done" => lo' \in 1 .. Len(motions))
  BY <1>0, <1>1, <1>2
<1>8. TypeOK'
  <2>1. DOMAIN worker' = {} /\ pc' # "workers"
    BY <1>0 DEF Reduce
  <2> QED BY <2>1, <1>0, <1>1, <1>5, <1>6, <1>7 DEF TypeOK
<1>9. Sharing'
  BY <1>0 DEF Sharing
<1>10. ASSUME NEW b \in Bundle, NEW r \in Ray
       PROVE  field'[b][r] = M(b, r)[IF b <= bundle THEN hi ELSE lo - 1]
  <2>1. CASE b = bundle
    <3>1. field'[b] = kept
      BY <2>1, <1>1, <1>3 DEF Fields, Bundle
    <3> QED BY <2>1, <3>1, <1>1 DEF kept
  <2>2. CASE b # bundle
    <3>1. field'[b] = field[b]
      BY <2>2, <1>1, <1>3 DEF Fields, Bundle
    <3>2. field[b][r] = M(b, r)[CutUpTo(b)]
      BY DEF FieldIsSequential, M
    <3>3. CutUpTo(b) = IF b < bundle THEN hi ELSE lo - 1
      BY <1>0 DEF CutUpTo
    <3>4. (b < bundle) <=> (b <= bundle)
      BY <2>2, <1>1 DEF Bundle
    <3> QED BY <3>1, <3>2, <3>3, <3>4
  <2> QED BY <2>1, <2>2
<1>11. \A b \in Bundle : CutUpTo(b)' = IF b <= bundle THEN hi ELSE lo - 1
  BY ReduceCutsOn
<1>12. FieldIsSequential'
  <2> SUFFICES ASSUME NEW b \in Bundle, NEW r \in Ray
               PROVE  field'[b][r] = MaterialAfter(motions, stock, b, r)[CutUpTo(b)']
    BY <1>0 DEF FieldIsSequential
  <2> QED BY <1>10, <1>11 DEF M
<1> QED BY <1>8, <1>9, <1>12

(* and a step that does nothing.                                            *)
LEMMA StutterKeeps == Inv /\ UNCHANGED vars => Inv'
<1> SUFFICES ASSUME Inv, UNCHANGED vars PROVE Inv'
  OBVIOUS
<1>1. /\ UNCHANGED <<motions, stock, schedule, field, lo, bundle, order, next, worker, out, pc>>
  BY DEF vars
<1>2. /\ hi' = hi /\ Chunks' = Chunks /\ Chunk' = Chunk /\ ChunkSize' = ChunkSize
      /\ Results' = Results /\ WorkerState' = WorkerState
  BY <1>1, SameRun
<1>3. TypeOK'
  BY <1>1, <1>2 DEF Inv, TypeOK
<1>4. EachOnce(order)' <=> EachOnce(order)
  BY <1>1, <1>2 DEF EachOnce
<1>5. AllHandedIn' <=> AllHandedIn
  BY <1>1, <1>2 DEF AllHandedIn, Apart, Starts
<1>6. Running' = Running /\ Claimed' = Claimed /\ \A w : StartOf(w)' = StartOf(w)
  BY <1>1, <1>2 DEF Running, Claimed, StartOf
<1>7. ASSUME Ledger PROVE Ledger'
  <2>1. /\ Apart(out') /\ \A w \in DOMAIN worker' : Apart(worker'[w].mine)
        /\ \A w \in DOMAIN worker' : Starts(worker'[w].mine) \cap Starts(out') = {}
        /\ \A w, v \in DOMAIN worker' : w # v => Starts(worker'[w].mine) \cap Starts(worker'[v].mine) = {}
    BY <1>1, <1>7 DEF Ledger
  <2>2. \A w \in Running' : /\ worker'[w].index < Chunks'
                            /\ StartOf(w)' \notin Starts(out')
                            /\ \A v \in DOMAIN worker' : StartOf(w)' \notin Starts(worker'[v].mine)
                            /\ \A v \in Running' : v # w => StartOf(v)' # StartOf(w)'
    BY <1>1, <1>2, <1>6, <1>7 DEF Ledger
  <2>3. Claimed' = Starts(out') \union (UNION {Starts(worker'[w].mine) : w \in DOMAIN worker'})
                     \union {StartOf(w)' : w \in Running'}
    <3>1. {StartOf(w)' : w \in Running'} = {StartOf(w) : w \in Running}
      BY <1>6
    <3> QED BY <3>1, <1>1, <1>6, <1>7 DEF Ledger
  <2> QED BY <2>1, <2>2, <2>3 DEF Ledger, Starts, Apart
<1>8. ASSUME Leaving PROVE Leaving'
  BY <1>1, <1>2, <1>8 DEF Leaving
<1>9. Sharing'
  BY <1>1, <1>4, <1>5, <1>7, <1>8 DEF Inv, Sharing
<1>10. FieldIsSequential'
  BY <1>1, <1>2 DEF Inv, FieldIsSequential, CutUpTo
<1> QED BY <1>3, <1>9, <1>10 DEF Inv

(* So every step keeps it.                                                  *)
LEMMA NextKeeps == Inv /\ [Next]_vars => Inv'
<1> SUFFICES ASSUME Inv, [Next]_vars PROVE Inv'
  OBVIOUS
<1>1. CASE StartBundle
  BY <1>1, StartBundleKeeps
<1>2. CASE \E w \in DOMAIN worker : Claim(w) \/ RunChunk(w) \/ Flush(w)
  <2>1. PICK w \in DOMAIN worker : Claim(w) \/ RunChunk(w) \/ Flush(w)
    BY <1>2
  <2>2. pc = "workers"
    BY <2>1 DEF Inv, TypeOK
  <2> QED BY <2>1, <2>2, ClaimKeeps, RunChunkKeeps, FlushKeeps
<1>3. CASE Reduce
  BY <1>3, ReduceKeeps
<1>4. CASE Finished \/ UNCHANGED vars
  BY <1>4, StutterKeeps DEF Finished
<1> QED BY <1>1, <1>2, <1>3, <1>4 DEF Next

(* The inductive invariant: what the variables are, where every chunk of the *)
(* bundle is, and the field.                                                 *)
THEOREM InvHolds == Spec => []Inv
<1> QED BY InitHolds, NextKeeps, PTL DEF Spec

(* cut_all_parallel: at every moment every ray of every bundle is what the   *)
(* motions cut so far leave of it one at a time, however many threads, of    *)
(* whatever chunks and batches, finish in whichever order.                   *)
THEOREM FieldIsSequentialHolds == Spec => []FieldIsSequential
<1>1. Inv => FieldIsSequential
  BY DEF Inv
<1> QED BY <1>1, InvHolds, PTL

(* compute_bundle: a claimed chunk is with one worker, kept or handed in,    *)
(* never two of these and never lost; when all have been joined the shared   *)
(* list has every chunk of the bundle, once.                                 *)
EachChunkOnce ==
  pc = "workers" =>
    /\ DOMAIN worker # {} => Ledger
    /\ (\A w \in DOMAIN worker : worker[w].at = "joined") => AllHandedIn

(* compute_bundle: whatever the order in which the threads claim and finish, *)
(* no chunk is in two hands and none is dropped before the join.             *)
THEOREM EachChunkOnceHolds == Spec => []EachChunkOnce
<1>1. Inv => EachChunkOnce
  BY JoinedIsComplete DEF Inv, Sharing, EachChunkOnce
<1> QED BY <1>1, InvHolds, PTL

-----------------------------------------------------------------------------
(* Sums accumulated step by step: the float volumes and the counters.        *)

\* h accumulates into v, at each index in `some`, that index's amount.
Accumulates(h, n, v, some, amount) ==
  h = [j \in 0 .. n |-> IF j = 0 THEN v
                        ELSE IF j \in some THEN FAdd(h[j - 1], amount[j]) ELSE h[j - 1]]

(* Such a sum exists, whatever the rounding makes of its terms.              *)
LEMMA AccumulationExists ==
  ASSUME NEW n \in Nat, NEW v, NEW some, NEW amount
  PROVE  \E h : Accumulates(h, n, v, some, amount)
<1> DEFINE Good == {m \in 0 .. n : \E h : Accumulates(h, m, v, some, amount)}
<1>1. 0 \in Good
  <2> DEFINE h == [j \in 0 .. 0 |-> v]
  <2>1. Accumulates(h, 0, v, some, amount)
    <3>1. \A j \in 0 .. 0 : j = 0
      OBVIOUS
    <3> QED BY <3>1 DEF Accumulates
  <2> HIDE DEF h
  <2> QED BY <2>1
<1>2. ASSUME NEW m \in 0 .. n - 1, m \in Good PROVE m + 1 \in Good
  <2>1. PICK h : Accumulates(h, m, v, some, amount)
    BY <1>2
  <2> DEFINE Onto(x, j) == IF j \in some THEN FAdd(x, amount[j]) ELSE x
             g == [j \in 0 .. m + 1 |-> IF j = m + 1 THEN Onto(h[m], m + 1) ELSE h[j]]
  <2>2. ASSUME NEW j \in 0 .. m + 1 PROVE g[j] = IF j = 0 THEN v ELSE Onto(g[j - 1], j)
    <3>1. h = [i \in 0 .. m |-> IF i = 0 THEN v ELSE Onto(h[i - 1], i)]
      BY <2>1 DEF Accumulates
    <3>2. \A i \in 0 .. m : h[i] = IF i = 0 THEN v ELSE Onto(h[i - 1], i)
      BY <3>1
    <3> HIDE DEF Onto
    <3>3. CASE j = m + 1
      <4>1. g[j] = Onto(h[m], j) /\ g[j - 1] = h[m] /\ j # 0
        BY <3>3
      <4> QED BY <4>1
    <3>4. CASE j # m + 1 /\ j # 0
      <4>1. j \in 0 .. m /\ j - 1 \in 0 .. m
        BY <3>4
      <4>2. g[j] = h[j] /\ g[j - 1] = h[j - 1]
        BY <4>1
      <4> HIDE DEF g
      <4> QED BY <4>1, <4>2, <3>2, <3>4
    <3>5. CASE j = 0
      <4>1. 0 \in 0 .. m /\ 0 # m + 1
        OBVIOUS
      <4>2. g[0] = h[0]
        BY <4>1
      <4> HIDE DEF g
      <4> QED BY <4>1, <4>2, <3>2, <3>5
    <3> QED BY <3>3, <3>4, <3>5
  <2>3. g = [j \in 0 .. m + 1 |-> g[j]]
    OBVIOUS
  <2> HIDE DEF g
  <2>4. g = [j \in 0 .. m + 1 |-> IF j = 0 THEN v ELSE Onto(g[j - 1], j)]
    <3> HIDE DEF Onto
    <3> QED BY <2>2, <2>3
  <2>5. Accumulates(g, m + 1, v, some, amount)
    BY <2>4 DEF Accumulates
  <2>6. m + 1 \in 0 .. n
    OBVIOUS
  <2> QED BY <2>5, <2>6
<1>3. n \in Good
  <2> HIDE DEF Good
  <2>1. \A m \in 0 .. n - 1 : m \in Good => m + 1 \in Good
    BY <1>2
  <2>2. \A m \in 0 .. n : m \in Good
    BY <1>1, <2>1, Induction
  <2> QED BY <2>2
<1> QED BY <1>3

\* h is what replaying motion k of the contributions makes of v, one by one.
Replays(h, contributions, k, v) ==
  /\ h[0] = v
  /\ \A j \in 1 .. Len(contributions) :
       h[j] = IF contributions[j].motion = k
              THEN FAdd(h[j - 1], Measure(contributions[j].before) - Measure(contributions[j].after))
              ELSE h[j - 1]

(* Replaying is such a sum.                                                 *)
LEMMA ReplaySteps ==
  ASSUME NEW S, NEW cs \in Seq(S), NEW k, NEW v
  PROVE  \E h : Replays(h, cs, k, v) /\ Replayed(cs, k, v) = h[Len(cs)]
<1> DEFINE n == Len(cs)
           some == {j \in 1 .. n : cs[j].motion = k}
           amount == [j \in 1 .. n |-> Measure(cs[j].before) - Measure(cs[j].after)]
           Step(h) == [j \in 0 .. n |->
                         IF j = 0 THEN v
                         ELSE IF cs[j].motion = k
                              THEN FAdd(h[j - 1], Measure(cs[j].before) - Measure(cs[j].after))
                              ELSE h[j - 1]]
           sum == CHOOSE h : h = Step(h)
<1>1. n \in Nat
  OBVIOUS
<1>2. \E h : h = Step(h)
  <2>1. PICK h : Accumulates(h, n, v, some, amount)
    <3> HIDE DEF n, some, amount
    <3> QED BY <1>1, AccumulationExists
  <2>2. h = [j \in 0 .. n |-> IF j = 0 THEN v
                              ELSE IF j \in some THEN FAdd(h[j - 1], amount[j]) ELSE h[j - 1]]
    <3> HIDE DEF some, amount
    <3> QED BY <2>1 DEF Accumulates
  <2>3. \A j \in 0 .. n : j # 0 => j \in 1 .. n
    BY <1>1
  <2>4. \A j \in 1 .. n : (j \in some <=> cs[j].motion = k)
                          /\ amount[j] = Measure(cs[j].before) - Measure(cs[j].after)
    OBVIOUS
  <2>5. h = Step(h)
    <3> HIDE DEF n, some, amount
    <3> QED BY <2>2, <2>3, <2>4
  <2> QED BY <2>5
<1>3. sum = Step(sum)
  <2> HIDE DEF Step
  <2> QED BY <1>2
<1>4. Replayed(cs, k, v) = sum[n]
  BY DEF Replayed
<1> HIDE DEF sum
<1>5. 0 \in 0 .. n /\ \A j \in 1 .. n : j \in 0 .. n /\ j # 0
  BY <1>1
<1>6. Replays(sum, cs, k, v)
  BY <1>3, <1>5 DEF Replays
<1> QED BY <1>4, <1>6

(* There is one way to replay.                                               *)
LEMMA ReplayUnique ==
  ASSUME NEW S, NEW cs \in Seq(S), NEW k, NEW v, NEW h, Replays(h, cs, k, v)
  PROVE  Replayed(cs, k, v) = h[Len(cs)]
<1>1. PICK g : Replays(g, cs, k, v) /\ Replayed(cs, k, v) = g[Len(cs)]
  BY ReplaySteps
<1> DEFINE n == Len(cs)
           Same == {j \in 0 .. n : g[j] = h[j]}
<1>2. n \in Nat
  OBVIOUS
<1>3. 0 \in Same
  BY <1>1, <1>2 DEF Replays
<1>4. ASSUME NEW j \in 0 .. n - 1, j \in Same PROVE j + 1 \in Same
  <2>1. j + 1 \in 1 .. n /\ (j + 1) - 1 = j /\ j + 1 \in 0 .. n
    BY <1>2
  <2> QED BY <1>1, <1>4, <2>1 DEF Replays
<1>5. n \in Same
  <2> HIDE DEF Same, n
  <2>1. \A j \in 0 .. n : j \in Same
    BY <1>2, <1>3, <1>4, Induction
  <2> QED BY <1>2, <2>1
<1> QED BY <1>1, <1>5

(* No contributions add nothing.                                            *)
LEMMA ReplayOfNone == \A k, v : Replayed(<<>>, k, v) = v
<1> TAKE k, v
<1>1. <<>> \in Seq({}) /\ Len(<<>>) = 0
  OBVIOUS
<1>2. PICK h : Replays(h, <<>>, k, v) /\ Replayed(<<>>, k, v) = h[Len(<<>>)]
  BY <1>1, ReplaySteps
<1> QED BY <1>1, <1>2 DEF Replays

(* Contributions after contributions are added to what those made of it.     *)
LEMMA ReplayOfConcat ==
  ASSUME NEW S, NEW s \in Seq(S), NEW t \in Seq(S), NEW k, NEW v
  PROVE  Replayed(s \o t, k, v) = Replayed(t, k, Replayed(s, k, v))
<1> DEFINE u == s \o t
<1>1. /\ u \in Seq(S) /\ Len(u) = Len(s) + Len(t) /\ Len(s) \in Nat /\ Len(t) \in Nat
      /\ \A i \in 1 .. Len(s) : u[i] = s[i]
      /\ \A i \in 1 .. Len(t) : u[Len(s) + i] = t[i]
  OBVIOUS
<1> HIDE DEF u
<1>2. PICK h : Replays(h, u, k, v) /\ Replayed(u, k, v) = h[Len(u)]
  BY <1>1, ReplaySteps, SMTT(30)
<1>3. Replayed(s, k, v) = h[Len(s)]
  <2>1. \A j \in 1 .. Len(s) : j \in 1 .. Len(u)
    BY <1>1
  <2>2. Replays(h, s, k, v)
    BY <1>1, <1>2, <2>1 DEF Replays
  <2> QED BY <2>2, ReplayUnique
<1> DEFINE g == [j \in 0 .. Len(t) |-> h[Len(s) + j]]
<1>4. Replays(g, t, k, h[Len(s)])
  <2>1. g[0] = h[Len(s)]
    BY <1>1
  <2>2. ASSUME NEW j \in 1 .. Len(t)
        PROVE  g[j] = IF t[j].motion = k
                      THEN FAdd(g[j - 1], Measure(t[j].before) - Measure(t[j].after))
                      ELSE g[j - 1]
    <3>1. Len(s) + j \in 1 .. Len(u) /\ (Len(s) + j) - 1 = Len(s) + (j - 1)
      BY <1>1
    <3>2. g[j] = h[Len(s) + j] /\ g[j - 1] = h[Len(s) + (j - 1)]
      BY <1>1
    <3> HIDE DEF g
    <3> QED BY <1>1, <1>2, <3>1, <3>2, SMTT(30) DEF Replays
  <2> HIDE DEF g
  <2> QED BY <2>1, <2>2 DEF Replays
<1>5. Replayed(t, k, h[Len(s)]) = g[Len(t)]
  <2> HIDE DEF g
  <2> QED BY <1>4, ReplayUnique
<1>6. g[Len(t)] = h[Len(u)]
  BY <1>1
<1> HIDE DEF g
<1> QED BY <1>2, <1>3, <1>5, <1>6 DEF u

(* One contribution more is added last.                                     *)
LEMMA ReplayOfAppend ==
  ASSUME NEW S, NEW s \in Seq(S), NEW c \in S, NEW k, NEW v
  PROVE  Replayed(Append(s, c), k, v)
           = IF c.motion = k
             THEN FAdd(Replayed(s, k, v), Measure(c.before) - Measure(c.after))
             ELSE Replayed(s, k, v)
<1> DEFINE t == <<c>>
           w == Replayed(s, k, v)
<1>1. t \in Seq(S) /\ Len(t) = 1 /\ t[1] = c /\ Append(s, c) = s \o t
  OBVIOUS
<1> HIDE DEF t
<1>2. Replayed(Append(s, c), k, v) = Replayed(t, k, w)
  BY <1>1, ReplayOfConcat
<1> HIDE DEF w
<1>3. PICK h : Replays(h, t, k, w) /\ Replayed(t, k, w) = h[Len(t)]
  BY <1>1, ReplaySteps
<1>4. h[1] = IF c.motion = k THEN FAdd(w, Measure(c.before) - Measure(c.after)) ELSE w
  <2>1. 1 \in 1 .. Len(t) /\ 1 - 1 = 0
    BY <1>1
  <2> QED BY <1>1, <1>3, <2>1 DEF Replays
<1> QED BY <1>1, <1>2, <1>3, <1>4 DEF w

\* sum[n] is what motion k removes from the first n rays of bundle b.
RayByRay(sum, ms, f, b, k) ==
  /\ sum[0] = 0
  /\ \A n \in 1 .. Rays : sum[n] = IF IsChanged(ms, f, b, n - 1, k)
                                   THEN FAdd(sum[n - 1], CutBy(ms, f, b, n - 1, k))
                                   ELSE sum[n - 1]
  /\ RemovedBy(ms, f, b, k) = sum[Rays]

(* What a motion removed is such a sum too, over the rays.                  *)
LEMMA RemovedRayByRay ==
  ASSUME NEW ms, NEW f, NEW b, NEW k
  PROVE  \E sum : RayByRay(sum, ms, f, b, k)
<1> DEFINE some == {n \in 1 .. Rays : IsChanged(ms, f, b, n - 1, k)}
           amount == [n \in 1 .. Rays |-> CutBy(ms, f, b, n - 1, k)]
           Step(h) == [n \in 0 .. Rays |->
                         IF n = 0 THEN 0
                         ELSE IF IsChanged(ms, f, b, n - 1, k)
                              THEN FAdd(h[n - 1], CutBy(ms, f, b, n - 1, k))
                              ELSE h[n - 1]]
           sum == CHOOSE h : h = Step(h)
<1>1. Rays \in Nat
  BY CuttingAssumption
<1>2. \E h : h = Step(h)
  <2>1. PICK h : Accumulates(h, Rays, 0, some, amount)
    <3> HIDE DEF some, amount
    <3> QED BY <1>1, AccumulationExists
  <2>2. h = [n \in 0 .. Rays |-> IF n = 0 THEN 0
                                 ELSE IF n \in some THEN FAdd(h[n - 1], amount[n]) ELSE h[n - 1]]
    <3> HIDE DEF some, amount
    <3> QED BY <2>1 DEF Accumulates
  <2>3. \A n \in 0 .. Rays : n # 0 => n \in 1 .. Rays
    BY <1>1
  <2>4. \A n \in 1 .. Rays : (n \in some <=> IsChanged(ms, f, b, n - 1, k))
                             /\ amount[n] = CutBy(ms, f, b, n - 1, k)
    OBVIOUS
  <2>5. h = Step(h)
    <3> HIDE DEF some, amount
    <3> QED BY <2>2, <2>3, <2>4
  <2> QED BY <2>5
<1>3. sum = Step(sum)
  <2> HIDE DEF Step
  <2> QED BY <1>2
<1>4. RemovedBy(ms, f, b, k) = sum[Rays]
  BY DEF RemovedBy
<1> HIDE DEF sum
<1>5. 0 \in 0 .. Rays /\ \A n \in 1 .. Rays : n \in 0 .. Rays /\ n # 0
  BY <1>1
<1>6. RayByRay(sum, ms, f, b, k)
  BY <1>3, <1>4, <1>5 DEF RayByRay
<1> QED BY <1>6

(* Merging counters, result by result.                                       *)
LEMMA MergedSteps ==
  ASSUME NEW S, NEW results \in Seq(S), NEW c \in Counters,
         \A i \in 1 .. Len(results) : results[i].stats[c] \in Nat
  PROVE  \E h : /\ h[0] = 0
                /\ \A i \in 1 .. Len(results) : h[i] = h[i - 1] + results[i].stats[c]
                /\ Merged(results)[c] = h[Len(results)]
<1> DEFINE n == Len(results)
           T == [i \in 1 .. n |-> [y \in Nat |-> y + results[i].stats[c]]]
           Step(h) == [i \in 0 .. n |-> IF i = 0 THEN 0 ELSE h[i - 1] + results[i].stats[c]]
           sum == CHOOSE h : h = Step(h)
           Good(h, m) == h \in [0 .. m -> Nat] /\ \A i \in 0 .. m : h[i] = IF i = 0 THEN 0 ELSE h[i - 1] + results[i].stats[c]
           G == {m \in 0 .. n : \E h : Good(h, m)}
<1>1. n \in Nat
  OBVIOUS
<1>2. \E h : h = Step(h)
  <2>1. 0 \in G
    <3> DEFINE h == [i \in 0 .. 0 |-> 0]
    <3>1. h \in [0 .. 0 -> Nat] /\ \A i \in 0 .. 0 : i = 0 /\ h[i] = 0
      OBVIOUS
    <3> HIDE DEF h, n
    <3>2. Good(h, 0) /\ 0 \in 0 .. n
      BY <1>1, <3>1
    <3> QED BY <3>2
  <2>2. ASSUME NEW m \in 0 .. n - 1, m \in G PROVE m + 1 \in G
    <3>1. PICK h : Good(h, m)
      BY <2>2
    <3> DEFINE g == [i \in 0 .. m + 1 |-> IF i = m + 1 THEN h[m] + results[m + 1].stats[c] ELSE h[i]]
    <3>2. m + 1 \in 1 .. n /\ m \in 0 .. m /\ m \in Nat /\ m + 1 \in 0 .. n
      BY <1>1
    <3>3. h[m] + results[m + 1].stats[c] \in Nat
      BY <3>1, <3>2
    <3>4. \A i \in 0 .. m + 1 : i # m + 1 => i \in 0 .. m
      BY <3>2
    <3>5. g \in [0 .. m + 1 -> Nat]
      BY <3>1, <3>3, <3>4
    <3>6. ASSUME NEW i \in 0 .. m + 1 PROVE g[i] = IF i = 0 THEN 0 ELSE g[i - 1] + results[i].stats[c]
      <4>1. CASE i = m + 1
        <5>1. g[i] = h[m] + results[i].stats[c] /\ g[i - 1] = h[m] /\ i # 0
          BY <3>2, <4>1
        <5> QED BY <5>1
      <4>2. CASE i # m + 1 /\ i # 0
        <5>1. i \in 0 .. m /\ i - 1 \in 0 .. m
          BY <4>2
        <5>2. g[i] = h[i] /\ g[i - 1] = h[i - 1]
          BY <5>1
        <5> HIDE DEF g
        <5> QED BY <5>1, <5>2, <3>1, <4>2
      <4>3. CASE i = 0
        <5>1. 0 \in 0 .. m /\ g[0] = h[0]
          BY <3>2
        <5> HIDE DEF g
        <5> QED BY <5>1, <3>1, <4>3
      <4> QED BY <4>1, <4>2, <4>3
    <3> HIDE DEF g
    <3>7. Good(g, m + 1)
      BY <3>5, <3>6
    <3> QED BY <3>2, <3>7
  <2>3. n \in G
    <3> HIDE DEF G, n
    <3>1. \A m \in 0 .. n : m \in G
      BY <1>1, <2>1, <2>2, Induction
    <3> QED BY <1>1, <3>1
  <2>4. PICK h : Good(h, n)
    BY <2>3
  <2>5. h = Step(h)
    <3> HIDE DEF n
    <3> QED BY <2>4
  <2> QED BY <2>5
<1>3. sum = Step(sum)
  <2> HIDE DEF Step
  <2> QED BY <1>2
<1>4. Merged(results)[c] = sum[n]
  BY DEF Merged
<1> HIDE DEF sum
<1>5. 0 \in 0 .. n /\ \A i \in 1 .. n : i \in 0 .. n /\ i # 0
  BY <1>1
<1>6. sum[0] = 0 /\ \A i \in 1 .. n : sum[i] = sum[i - 1] + results[i].stats[c]
  <2> HIDE DEF n
  <2> QED BY <1>3, <1>5
<1> QED BY <1>4, <1>6

\* What is in one of the first n sets.
AllOf(X, n) == UNION {X[i] : i \in 1 .. n}

(* If each result counts a set of things, and no thing is counted by two,    *)
(* the merged counter counts all of them.                                    *)
LEMMA MergedCounts ==
  ASSUME NEW S, NEW results \in Seq(S), NEW c \in Counters, NEW X,
         \A i \in 1 .. Len(results) : IsFiniteSet(X[i]) /\ results[i].stats[c] = Cardinality(X[i]),
         \A i, j \in 1 .. Len(results) : i # j => X[i] \cap X[j] = {}
  PROVE  /\ IsFiniteSet(AllOf(X, Len(results)))
         /\ Merged(results)[c] = Cardinality(AllOf(X, Len(results)))
<1> DEFINE n == Len(results)
           U(m) == UNION {X[i] : i \in 1 .. m}
<1>1. n \in Nat /\ \A i \in 1 .. n : results[i].stats[c] \in Nat
  BY FS_CardinalityType
<1>2. PICK h : /\ h[0] = 0
               /\ \A i \in 1 .. n : h[i] = h[i - 1] + results[i].stats[c]
               /\ Merged(results)[c] = h[n]
  BY <1>1, MergedSteps
<1> DEFINE G == {m \in 0 .. n : IsFiniteSet(U(m)) /\ h[m] = Cardinality(U(m))}
<1>3. 0 \in G
  <2>1. U(0) = {}
    OBVIOUS
  <2> HIDE DEF U, n
  <2>2. 0 \in 0 .. n /\ IsFiniteSet(U(0)) /\ h[0] = Cardinality(U(0))
    <3>1. 0 \in 0 .. n /\ h[0] = 0
      BY <1>1, <1>2
    <3>2. IsFiniteSet({}) /\ Cardinality({}) = 0
      BY FS_EmptySet
    <3> QED BY <2>1, <3>1, <3>2
  <2> QED BY <2>2
<1>4. ASSUME NEW m \in 0 .. n - 1, m \in G PROVE m + 1 \in G
  <2>1. m + 1 \in 1 .. n /\ (m + 1) - 1 = m /\ m + 1 \in 0 .. n
    BY <1>1
  <2>2. U(m + 1) = U(m) \union X[m + 1]
    <3>1. 1 .. m + 1 = (1 .. m) \union {m + 1}
      BY <2>1
    <3> QED BY <3>1
  <2>3. U(m) \cap X[m + 1] = {}
    <3>1. \A i \in 1 .. m : i \in 1 .. n /\ i # m + 1
      BY <2>1
    <3> QED BY <2>1, <3>1
  <2>4. IsFiniteSet(U(m)) /\ h[m] = Cardinality(U(m))
    BY <1>4
  <2>5. IsFiniteSet(X[m + 1]) /\ results[m + 1].stats[c] = Cardinality(X[m + 1])
    BY <2>1
  <2>6. h[m + 1] = h[m] + results[m + 1].stats[c]
    BY <1>2, <2>1
  <2> HIDE DEF U
  <2> DEFINE Old == U(m)
             New == X[m + 1]
  <2>7. IsFiniteSet(Old) /\ IsFiniteSet(New) /\ Old \cap New = {}
    BY <2>3, <2>4, <2>5
  <2> HIDE DEF Old, New
  <2>8. IsFiniteSet(Old \union New) /\ Cardinality(Old \union New) = Cardinality(Old) + Cardinality(New)
    <3>1. /\ IsFiniteSet(Old \union New)
          /\ Cardinality(Old \union New) = Cardinality(Old) + Cardinality(New) - Cardinality(Old \cap New)
      BY <2>7, FS_Union
    <3>2. Cardinality(Old \cap New) = 0 /\ Cardinality(Old) \in Nat /\ Cardinality(New) \in Nat
      BY <2>7, FS_EmptySet, FS_CardinalityType
    <3> QED BY <3>1, <3>2
  <2> QED BY <2>1, <2>2, <2>4, <2>5, <2>6, <2>8 DEF Old, New
<1>5. n \in G
  <2> HIDE DEF G, n
  <2>1. \A m \in 0 .. n : m \in G
    BY <1>1, <1>3, <1>4, Induction
  <2> QED BY <1>1, <2>1
<1> QED BY <1>2, <1>5 DEF AllOf
-----------------------------------------------------------------------------
(* What a motion counts and contributes.                                     *)

\* Whether a ray that was tested, and changed, or not, counts for counter c.
CountsFor(c, tested, changed) ==
  \/ c = "tested" /\ tested
  \/ c = "rejected" /\ ~tested
  \/ c = "changed" /\ changed

\* A count that goes up by one, or stays.
Adds(new, old, yes) == (yes => new = old + 1) /\ (~yes => new = old)

(* What a motion's turn at a ray counts, and what it finds.                 *)
LEMMA MotionTurnCounts ==
  ASSUME NEW batch \in Seq(Motions), NEW b \in Bundle, NEW r \in Ray,
         NEW k \in 1 .. Len(batch), NEW ray \in RayState, NEW c \in Counters
  PROVE  LET t == MotionTurn(batch, b, r, k)[ray]
             tested == transverse_overlaps(batch[k].box[b], r) /\ ray.material # {}
             changed == tested /\ Cut(ray.material, batch[k].swept[b][r]) > 0
         IN  /\ Adds(t.stats[c], ray.stats[c], CountsFor(c, tested, changed))
             /\ t.found = IF changed
                          THEN Append(ray.found, [motion |-> k, before |-> ray.material,
                                                  after |-> Remainder(ray.material, batch[k].swept[b][r])])
                          ELSE ray.found
<1> DEFINE sweep == batch[k].swept[b][r]
           rest == Remainder(ray.material, sweep)
           cuts == Cut(ray.material, sweep) > 0
           passed == [ray EXCEPT !.stats["rejected"] = @ + 1]
           counted == [ray.stats EXCEPT !["tested"] = @ + 1, !["changed"] = IF cuts THEN @ + 1 ELSE @]
           tested == [material |-> rest,
                      touched |-> ray.touched \/ rest # ray.material,
                      stats |-> counted,
                      found |-> IF cuts
                                THEN Append(ray.found, [motion |-> k, before |-> ray.material, after |-> rest])
                                ELSE ray.found]
           t == MotionTurn(batch, b, r, k)[ray]
           isTested == transverse_overlaps(batch[k].box[b], r) /\ ray.material # {}
           isChanged == isTested /\ cuts
<1>1. t = IF ~transverse_overlaps(batch[k].box[b], r) \/ ray.material = {} THEN passed ELSE tested
  BY DEF MotionTurn
<1>2. ray.stats \in [Counters -> Nat] /\ ray = [material |-> ray.material, touched |-> ray.touched,
                                               stats |-> ray.stats, found |-> ray.found]
  BY DEF RayState
<1>3. c = "tested" \/ c = "rejected" \/ c = "changed"
  BY DEF Counters
<1>4. /\ Adds(t.stats[c], ray.stats[c], CountsFor(c, isTested, isChanged))
      /\ t.found = IF isChanged THEN Append(ray.found, [motion |-> k, before |-> ray.material, after |-> rest])
                   ELSE ray.found
  <2> HIDE DEF cuts, rest
  <2>1. CASE ~isTested
    <3>1. t = passed
      BY <1>1, <2>1
    <3>2. passed.stats = [ray.stats EXCEPT !["rejected"] = @ + 1] /\ passed.found = ray.found
      BY <1>2
    <3> HIDE DEF t, passed
    <3>3. passed.stats[c] = ray.stats[c] + (IF c = "rejected" THEN 1 ELSE 0)
      BY <1>2, <1>3, <3>2 DEF Counters
    <3> QED BY <1>3, <2>1, <3>1, <3>2, <3>3 DEF CountsFor, Adds
  <2>2. CASE isTested
    <3>1. t = tested
      BY <1>1, <2>2
    <3>2. tested.stats = counted
          /\ tested.found = IF cuts THEN Append(ray.found, [motion |-> k, before |-> ray.material, after |-> rest])
                            ELSE ray.found
      OBVIOUS
    <3> HIDE DEF t, tested
    <3>3. counted[c] = ray.stats[c] + (IF c = "tested" \/ (c = "changed" /\ cuts) THEN 1 ELSE 0)
      BY <1>2, <1>3 DEF Counters
    <3> HIDE DEF counted
    <3>4. Adds(counted[c], ray.stats[c], CountsFor(c, isTested, isChanged))
      <4>1. ray.stats[c] \in Nat
        BY <1>2
      <4>2. CountsFor(c, isTested, isChanged) <=> c = "tested" \/ (c = "changed" /\ cuts)
        BY <1>3, <2>2 DEF CountsFor
      <4> HIDE DEF isTested, isChanged
      <4> QED BY <3>3, <4>1, <4>2 DEF Adds
    <3> HIDE DEF isTested, isChanged
    <3>5. t.stats = counted
      BY <3>1, <3>2
    <3>6. t.found = IF isChanged
                    THEN Append(ray.found, [motion |-> k, before |-> ray.material, after |-> rest])
                    ELSE ray.found
      BY <2>2, <3>1, <3>2 DEF isChanged
    <3> QED BY <3>4, <3>5, <3>6
  <2> QED BY <2>1, <2>2
<1> QED BY <1>4

\* Whether an offer counts for counter c when motions are cut one at a time, and
\* the offers of rays R of bundle b to motions low .. high that do.
Counts(c, ms, f, o) ==
  CountsFor(c, IsTested(ms, f, o[1], o[2], o[3]), IsChanged(ms, f, o[1], o[2], o[3]))

Tally(c, ms, f, b, R, low, high) == {o \in {b} \X R \X (low .. high) : Counts(c, ms, f, o)}

(* Each motion more adds itself to the tally of a ray, or not.               *)
LEMMA TallyGrows ==
  ASSUME NEW c, NEW ms, NEW f, NEW b, NEW r, NEW low \in Int, NEW high \in Int, low <= high,
         IsFiniteSet(Tally(c, ms, f, b, {r}, low, high - 1))
  PROVE  /\ IsFiniteSet(Tally(c, ms, f, b, {r}, low, high))
         /\ Adds(Cardinality(Tally(c, ms, f, b, {r}, low, high)),
                 Cardinality(Tally(c, ms, f, b, {r}, low, high - 1)),
                 Counts(c, ms, f, <<b, r, high>>))
<1> DEFINE old == Tally(c, ms, f, b, {r}, low, high - 1)
           new == Tally(c, ms, f, b, {r}, low, high)
           e == <<b, r, high>>
<1>1. low .. high = (low .. high - 1) \union {high} /\ high \notin low .. high - 1
  OBVIOUS
<1>2. {b} \X {r} \X (low .. high) = ({b} \X {r} \X (low .. high - 1)) \union {e}
  BY <1>1
<1>3. e \notin {b} \X {r} \X (low .. high - 1)
  BY <1>1
<1>4. new = IF Counts(c, ms, f, e) THEN old \union {e} ELSE old
  BY <1>2 DEF Tally
<1>5. e \notin old
  BY <1>3 DEF Tally
<1> HIDE DEF e, old, new
<1>6. Cardinality(old) \in Nat
  BY FS_CardinalityType DEF old
<1>7. IsFiniteSet(old \union {e}) /\ Cardinality(old \union {e}) = Cardinality(old) + 1
  BY <1>5, FS_AddElement DEF old
<1>8. IsFiniteSet(new) /\ Adds(Cardinality(new), Cardinality(old), Counts(c, ms, f, e))
  BY <1>4, <1>6, <1>7 DEF old, Adds
<1> QED BY <1>8 DEF old, new, e

(* No motions offer nothing.                                                *)
LEMMA TallyOfNone ==
  ASSUME NEW c, NEW ms, NEW f, NEW b, NEW R, NEW low \in Int
  PROVE  /\ IsFiniteSet(Tally(c, ms, f, b, R, low, low - 1))
         /\ Cardinality(Tally(c, ms, f, b, R, low, low - 1)) = 0
<1>1. Tally(c, ms, f, b, R, low, low - 1) = {}
  BY DEF Tally
<1>2. IsFiniteSet({}) /\ Cardinality({}) = 0
  BY FS_EmptySet
<1> QED BY <1>1, <1>2

(* What a motion of the run finds of a ray is what it finds one at a time.   *)
LEMMA SameOffer ==
  ASSUME NEW batch, NEW b, NEW rays, NEW ms, NEW f, NEW low, NEW high, NEW r \in Ray, NEW A,
         Follows(batch, b, rays, ms, f, low, high), Leaves(A, batch, b, rays, r, ms, f, low),
         NEW k \in 1 .. Len(batch)
  PROVE  LET m == low - 1 + k
         IN  /\ IsTested(ms, f, b, r, m) <=> transverse_overlaps(batch[k].box[b], r) /\ A[k - 1] # {}
             /\ CutBy(ms, f, b, r, m) = Cut(A[k - 1], batch[k].swept[b][r])
<1> DEFINE m == low - 1 + k
<1>1. batch[k] = ms[m] /\ low \in Int /\ Len(batch) \in Nat
  BY DEF Follows
<1>2. k - 1 \in 0 .. Len(batch) /\ m - 1 = low - 1 + (k - 1)
  BY <1>1
<1>3. A[k - 1] = MaterialAfter(ms, f, b, r)[m - 1]
  BY <1>2 DEF Leaves
<1> HIDE DEF m
<1>4. /\ IsTested(ms, f, b, r, m) <=> transverse_overlaps(batch[k].box[b], r) /\ A[k - 1] # {}
      /\ CutBy(ms, f, b, r, m) = Cut(A[k - 1], batch[k].swept[b][r])
  BY <1>1, <1>3 DEF IsTested, CutBy
<1> QED BY <1>4 DEF m

(* A ray's counters are those of the run's motions cut one at a time.        *)
LEMMA RayTurnCounts ==
  ASSUME NEW batch, NEW b, NEW rays, NEW ms, NEW f, NEW low, NEW high, NEW r \in Ray,
         Follows(batch, b, rays, ms, f, low, high), NEW c \in Counters
  PROVE  /\ IsFiniteSet(Tally(c, ms, f, b, {r}, low, high))
         /\ RayTurn(batch, b, rays, r).stats[c] = Cardinality(Tally(c, ms, f, b, {r}, low, high))
<1> DEFINE U(k) == Tally(c, ms, f, b, {r}, low, low - 1 + k)
           n == Len(batch)
           t == RayTurn(batch, b, rays, r)
<1>1. /\ batch \in Seq(Motions) /\ b \in Bundle /\ rays \in [Ray -> SUBSET Cell] /\ n \in Nat
      /\ low \in Int /\ high \in Int /\ low - 1 + n = high
  BY DEF Follows
<1>2. PICK A : Leaves(A, batch, b, rays, r, ms, f, low)
  BY RunLeaves
<1>3. PICK after : Carries(after, batch, b, rays, r)
  BY <1>1, RayTurnSteps
<1>4. \A k \in 0 .. n : after[k] \in RayState /\ after[k].material = A[k]
  <2>1. A[0] = rays[r] /\ \A k \in 1 .. n : A[k] = A[k - 1] \ batch[k].swept[b][r]
    BY <1>2 DEF Leaves
  <2> QED BY <1>1, <1>3, <2>1, CarriedMaterial
<1>5. Fresh(rays, r).stats[c] = 0
  BY DEF Fresh, NoCounters
<1>6. CASE transverse_overlaps(UnionBox(batch, b), r)
  <2> DEFINE G == {k \in 0 .. n : IsFiniteSet(U(k)) /\ after[k].stats[c] = Cardinality(U(k))}
  <2>1. 0 \in G
    <3>1. IsFiniteSet(U(0)) /\ Cardinality(U(0)) = 0
      <4>1. low - 1 + 0 = low - 1
        BY <1>1
      <4> QED BY <1>1, <4>1, TallyOfNone
    <3>2. after[0].stats[c] = 0 /\ 0 \in 0 .. n
      BY <1>1, <1>3, <1>5 DEF Carries
    <3> HIDE DEF U, n
    <3> QED BY <3>1, <3>2
  <2>2. ASSUME NEW k \in 0 .. n - 1, k \in G PROVE k + 1 \in G
    <3> DEFINE j == k + 1
               m == low - 1 + j
    <3>1. j \in 1 .. n /\ j - 1 = k /\ j \in 0 .. n /\ k \in 0 .. n /\ m \in Int /\ low <= m
          /\ m - 1 = low - 1 + k
      BY <1>1
    <3>2. IsFiniteSet(U(k)) /\ after[k].stats[c] = Cardinality(U(k))
      BY <2>2
    <3>3. /\ IsFiniteSet(U(j))
          /\ Adds(Cardinality(U(j)), Cardinality(U(k)), Counts(c, ms, f, <<b, r, m>>))
      <4>1. U(k) = Tally(c, ms, f, b, {r}, low, m - 1) /\ U(j) = Tally(c, ms, f, b, {r}, low, m)
        BY <3>1
      <4> HIDE DEF U, m
      <4> QED BY <1>1, <3>1, <3>2, <4>1, TallyGrows, ZenonT(60)
    <3> DEFINE tested == transverse_overlaps(batch[j].box[b], r) /\ after[k].material # {}
               changed == tested /\ Cut(after[k].material, batch[j].swept[b][r]) > 0
    <3>4. after[j] = MotionTurn(batch, b, r, j)[after[k]]
      BY <1>3, <3>1 DEF Carries
    <3> HIDE DEF U, m
    <3>5. Adds(after[j].stats[c], after[k].stats[c], CountsFor(c, tested, changed))
      <4>1. after[k] \in RayState /\ j \in 1 .. Len(batch)
        BY <1>4, <3>1
      <4> HIDE DEF j
      <4> DEFINE ray == after[k]
      <4> HIDE DEF ray
      <4>2. Adds(MotionTurn(batch, b, r, j)[ray].stats[c], ray.stats[c],
                 CountsFor(c, transverse_overlaps(batch[j].box[b], r) /\ ray.material # {},
                           (transverse_overlaps(batch[j].box[b], r) /\ ray.material # {})
                             /\ Cut(ray.material, batch[j].swept[b][r]) > 0))
        BY <1>1, <4>1, MotionTurnCounts DEF ray
      <4> QED BY <3>4, <4>2 DEF ray
    <3>6. /\ IsTested(ms, f, b, r, m) <=> tested
          /\ CutBy(ms, f, b, r, m) = Cut(after[k].material, batch[j].swept[b][r])
      <4>1. after[k].material = A[j - 1]
        BY <1>4, <3>1
      <4> HIDE DEF j
      <4> QED BY <1>2, <3>1, <4>1, SameOffer DEF m
    <3>7. IsChanged(ms, f, b, r, m) <=> changed
      BY <3>6 DEF IsChanged
    <3>8. Counts(c, ms, f, <<b, r, m>>) <=> CountsFor(c, tested, changed)
      <4> HIDE DEF tested, changed
      <4> QED BY <3>6, <3>7 DEF Counts, CountsFor
    <3>9. IsFiniteSet(U(j)) /\ after[j].stats[c] = Cardinality(U(j))
      <4> HIDE DEF tested, changed
      <4> QED BY <3>2, <3>3, <3>5, <3>8 DEF Adds
    <3> HIDE DEF n
    <3> QED BY <3>1, <3>9
  <2>3. n \in G
    <3> HIDE DEF G, n
    <3>1. \A k \in 0 .. n : k \in G
      BY <1>1, <2>1, <2>2, Induction
    <3> QED BY <1>1, <3>1
  <2>4. t = after[n]
    BY <1>3, <1>6 DEF Carries
  <2>5. U(n) = Tally(c, ms, f, b, {r}, low, high)
    BY <1>1
  <2> HIDE DEF t, n, U
  <2> QED BY <2>3, <2>4, <2>5 DEF t
<1>7. CASE ~transverse_overlaps(UnionBox(batch, b), r)
  <2>1. \A k \in 1 .. n : /\ ~Counts("tested", ms, f, <<b, r, low - 1 + k>>)
                          /\ ~Counts("changed", ms, f, <<b, r, low - 1 + k>>)
                          /\ Counts("rejected", ms, f, <<b, r, low - 1 + k>>)
    <3> TAKE k \in 1 .. n
    <3>1. ~transverse_overlaps(batch[k].box[b], r)
      BY <1>1, <1>7, HullMisses
    <3>2. ~IsTested(ms, f, b, r, low - 1 + k)
      BY <1>2, <3>1, SameOffer
    <3> QED BY <3>2 DEF Counts, CountsFor, IsChanged
  <2>2. t.stats[c] = IF c = "rejected" THEN n ELSE 0
    <3>1. t = [Fresh(rays, r) EXCEPT !.stats["rejected"] = n]
      BY <1>3, <1>7 DEF Carries
    <3>2. t.stats = [NoCounters EXCEPT !["rejected"] = n]
      BY <3>1 DEF Fresh
    <3> HIDE DEF t, n
    <3> QED BY <3>2 DEF NoCounters, Counters
  <2> DEFINE G == {k \in 0 .. n : IsFiniteSet(U(k)) /\ Cardinality(U(k)) = IF c = "rejected" THEN k ELSE 0}
  <2>3. 0 \in G
    <3>1. IsFiniteSet(U(0)) /\ Cardinality(U(0)) = 0
      <4>1. low - 1 + 0 = low - 1
        BY <1>1
      <4> QED BY <1>1, <4>1, TallyOfNone
    <3>2. 0 \in 0 .. n
      BY <1>1
    <3> HIDE DEF U, n
    <3> QED BY <3>1, <3>2
  <2>4. ASSUME NEW k \in 0 .. n - 1, k \in G PROVE k + 1 \in G
    <3> DEFINE j == k + 1
               m == low - 1 + j
    <3>1. j \in 1 .. n /\ j \in 0 .. n /\ m \in Int /\ low <= m /\ m - 1 = low - 1 + k
      BY <1>1
    <3>2. IsFiniteSet(U(k)) /\ Cardinality(U(k)) = IF c = "rejected" THEN k ELSE 0
      BY <2>4
    <3>3. /\ IsFiniteSet(U(j))
          /\ Adds(Cardinality(U(j)), Cardinality(U(k)), Counts(c, ms, f, <<b, r, m>>))
      <4>1. U(k) = Tally(c, ms, f, b, {r}, low, m - 1) /\ U(j) = Tally(c, ms, f, b, {r}, low, m)
        BY <3>1
      <4> HIDE DEF U, m
      <4> QED BY <1>1, <3>1, <3>2, <4>1, TallyGrows, ZenonT(60)
    <3>4. Counts(c, ms, f, <<b, r, m>>) <=> c = "rejected"
      BY <2>1, <3>1 DEF Counters
    <3> HIDE DEF U, m, n
    <3>5. IsFiniteSet(U(j)) /\ Cardinality(U(j)) = IF c = "rejected" THEN j ELSE 0
      BY <3>2, <3>3, <3>4 DEF Adds
    <3> QED BY <3>1, <3>5
  <2>5. n \in G
    <3> HIDE DEF G, n
    <3>1. \A k \in 0 .. n : k \in G
      BY <1>1, <2>3, <2>4, Induction
    <3> QED BY <1>1, <3>1
  <2>6. U(n) = Tally(c, ms, f, b, {r}, low, high)
    BY <1>1
  <2> HIDE DEF t, n, U
  <2> QED BY <2>2, <2>5, <2>6 DEF t
<1> QED BY <1>6, <1>7

\* What motion k of the run makes of volume v at ray r, when motions are cut one
\* at a time.
Takes(ms, f, b, r, m, v) ==
  IF IsChanged(ms, f, b, r, m) THEN FAdd(v, CutBy(ms, f, b, r, m)) ELSE v

(* Of a ray, each motion that changed it contributed what it cut, once.      *)
LEMMA RayTurnReplays ==
  ASSUME NEW batch, NEW b, NEW rays, NEW ms, NEW f, NEW low, NEW high, NEW r \in Ray,
         Follows(batch, b, rays, ms, f, low, high), NEW k \in 1 .. Len(batch), NEW v
  PROVE  Replayed(RayTurn(batch, b, rays, r).found, k, v) = Takes(ms, f, b, r, low - 1 + k, v)
<1> DEFINE n == Len(batch)
           t == RayTurn(batch, b, rays, r)
           m == low - 1 + k
           took == Takes(ms, f, b, r, m, v)
<1>1. /\ batch \in Seq(Motions) /\ b \in Bundle /\ rays \in [Ray -> SUBSET Cell] /\ n \in Nat
      /\ low \in Int
  BY DEF Follows
<1>2. PICK A : Leaves(A, batch, b, rays, r, ms, f, low)
  BY RunLeaves
<1>3. PICK after : Carries(after, batch, b, rays, r)
  BY <1>1, RayTurnSteps
<1>4. \A j \in 0 .. n : after[j] \in RayState /\ after[j].material = A[j]
  <2>1. A[0] = rays[r] /\ \A j \in 1 .. n : A[j] = A[j - 1] \ batch[j].swept[b][r]
    BY <1>2 DEF Leaves
  <2> QED BY <1>1, <1>3, <2>1, CarriedMaterial
<1>5. Fresh(rays, r).found = <<>>
  BY DEF Fresh
<1>6. CASE transverse_overlaps(UnionBox(batch, b), r)
  <2> DEFINE G == {j \in 0 .. n : Replayed(after[j].found, k, v) = IF k <= j THEN took ELSE v}
  <2>1. 0 \in G
    <3>1. Replayed(after[0].found, k, v) = v
      BY <1>3, <1>5, ReplayOfNone DEF Carries
    <3>2. ~(k <= 0) /\ 0 \in 0 .. n
      BY <1>1
    <3> HIDE DEF n, took
    <3> QED BY <3>1, <3>2
  <2>2. ASSUME NEW i \in 0 .. n - 1, i \in G PROVE i + 1 \in G
    <3> DEFINE j == i + 1
               ray == after[i]
               cell == transverse_overlaps(batch[j].box[b], r) /\ ray.material # {}
               changed == cell /\ Cut(ray.material, batch[j].swept[b][r]) > 0
               rest == Remainder(ray.material, batch[j].swept[b][r])
               c == [motion |-> j, before |-> ray.material, after |-> rest]
    <3>1. j \in 1 .. n /\ j - 1 = i /\ j \in 0 .. n /\ i \in 0 .. n /\ low - 1 + j \in Int
      BY <1>1
    <3>2. Replayed(ray.found, k, v) = IF k <= i THEN took ELSE v
      BY <2>2
    <3>3. ray \in RayState /\ ray.found \in Seq(Contribution) /\ ray.material \in SUBSET Cell
      BY <1>4, <3>1 DEF RayState
    <3>4. after[j] = MotionTurn(batch, b, r, j)[ray]
      BY <1>3, <3>1 DEF Carries
    <3>5. /\ IsTested(ms, f, b, r, low - 1 + j) <=> cell
          /\ CutBy(ms, f, b, r, low - 1 + j) = Cut(ray.material, batch[j].swept[b][r])
      <4>1. ray.material = A[j - 1]
        BY <1>4, <3>1
      <4> HIDE DEF j, ray
      <4> QED BY <1>2, <3>1, <4>1, SameOffer
    <3>6. IsChanged(ms, f, b, r, low - 1 + j) <=> changed
      BY <3>5 DEF IsChanged
    <3> HIDE DEF ray, j
    <3>7. after[j].found = IF changed THEN Append(ray.found, c) ELSE ray.found
      <4>1. "tested" \in Counters
        BY DEF Counters
      <4>2. MotionTurn(batch, b, r, j)[ray].found = IF changed THEN Append(ray.found, c) ELSE ray.found
        BY <1>1, <3>1, <3>3, <4>1, MotionTurnCounts
      <4> QED BY <3>4, <4>2
    <3>8. c \in Contribution /\ c.motion = j
          /\ Measure(c.before) - Measure(c.after) = CutBy(ms, f, b, r, low - 1 + j)
      <4>1. rest \in SUBSET Cell
        BY <3>3 DEF Remainder
      <4>2. j \in Nat
        BY <3>1
      <4> QED BY <3>3, <3>5, <4>1, <4>2 DEF Contribution, Cut
    <3> HIDE DEF c, changed
    <3>9. Replayed(after[j].found, k, v) = IF k <= j THEN took ELSE v
      <4>1. ASSUME changed
            PROVE  Replayed(after[j].found, k, v)
                     = IF j = k THEN FAdd(Replayed(ray.found, k, v), CutBy(ms, f, b, r, low - 1 + j))
                       ELSE Replayed(ray.found, k, v)
        BY <3>3, <3>7, <3>8, <4>1, ReplayOfAppend
      <4>2. ASSUME ~changed PROVE Replayed(after[j].found, k, v) = Replayed(ray.found, k, v)
        BY <3>7, <4>2
      <4>3. CASE j = k
        <5>1. ~(k <= i) /\ k <= j
          BY <3>1, <4>3
        <5>2. Replayed(ray.found, k, v) = v
          BY <3>2, <5>1
        <5>3. took = IF changed THEN FAdd(v, CutBy(ms, f, b, r, low - 1 + j)) ELSE v
          BY <3>6, <4>3 DEF Takes
        <5> HIDE DEF took
        <5> QED BY <4>1, <4>2, <4>3, <5>1, <5>2, <5>3
      <4>4. CASE j # k
        <5>1. (k <= j) <=> (k <= i)
          BY <3>1, <4>4
        <5>2. Replayed(after[j].found, k, v) = Replayed(ray.found, k, v)
          BY <4>1, <4>2, <4>4
        <5> HIDE DEF took
        <5> QED BY <3>2, <5>1, <5>2
      <4> QED BY <4>3, <4>4
    <3> HIDE DEF n, took
    <3> QED BY <3>1, <3>9 DEF j
  <2>3. n \in G
    <3> HIDE DEF G, n
    <3>1. \A j \in 0 .. n : j \in G
      BY <1>1, <2>1, <2>2, Induction
    <3> QED BY <1>1, <3>1
  <2>4. t = after[n]
    BY <1>3, <1>6 DEF Carries
  <2>5. k <= n
    BY <1>1
  <2> HIDE DEF t, n, took
  <2> QED BY <2>3, <2>4, <2>5 DEF t, took
<1>7. CASE ~transverse_overlaps(UnionBox(batch, b), r)
  <2>1. ~transverse_overlaps(batch[k].box[b], r)
    BY <1>1, <1>7, HullMisses
  <2>2. ~IsTested(ms, f, b, r, m)
    BY <1>2, <2>1, SameOffer
  <2>3. took = v
    BY <2>2 DEF Takes, IsChanged
  <2>4. t = [Fresh(rays, r) EXCEPT !.stats["rejected"] = n]
    BY <1>3, <1>7 DEF Carries
  <2>5. t.found = <<>>
    BY <1>5, <2>4 DEF Fresh
  <2>6. Replayed(t.found, k, v) = v
    BY <2>5, ReplayOfNone
  <2> HIDE DEF t, took
  <2> QED BY <2>3, <2>6 DEF t, took
<1> QED BY <1>6, <1>7

(* What run_chunk makes of a ray is what it knows of it at some point.       *)
LEMMA RayTurnTyped ==
  ASSUME NEW batch, NEW b, NEW rays, NEW ms, NEW f, NEW low, NEW high, NEW r \in Ray,
         Follows(batch, b, rays, ms, f, low, high)
  PROVE  RayTurn(batch, b, rays, r) \in RayState
<1>1. batch \in Seq(Motions) /\ b \in Bundle /\ rays \in [Ray -> SUBSET Cell]
  BY DEF Follows
<1>2. PICK A : Leaves(A, batch, b, rays, r, ms, f, low)
  BY RunLeaves
<1>3. Tells(RayTurn(batch, b, rays, r), rays[r], A[Len(batch)])
  BY <1>1, <1>2, RayTurnCuts DEF Leaves
<1> QED BY <1>3 DEF Tells

\* The ray after the last of chunk c.
ChunkEnd(size, c) == IF c * size + size <= Rays THEN c * size + size ELSE Rays

\* What is made of the rays of chunk c, in order.
Turns(batch, b, rays, size, c) ==
  [i \in 1 .. ChunkEnd(size, c) - c * size |-> RayTurn(batch, b, rays, c * size + i - 1)]

\* The result of rays start .. end - 1, from what was made of each.
Told(result, turns, batch, b, rays, start, end) ==
  /\ start \in Nat /\ end \in Nat /\ start <= end /\ start .. end - 1 \subseteq Ray
  /\ turns \in Seq(RayState) /\ Len(turns) = end - start
  /\ \A i \in 1 .. end - start : /\ start + i - 1 \in Ray
                                 /\ turns[i] = RayTurn(batch, b, rays, start + i - 1)
  /\ result.stats = Merged(turns)
  /\ result.contributions = FlattenSeq([i \in 1 .. end - start |-> turns[i].found])

(* A chunk's result is put together from the turns of its rays.              *)
LEMMA ChunkOfTurns ==
  ASSUME NEW batch, NEW b, NEW rays, NEW ms, NEW f, NEW low, NEW high,
         Follows(batch, b, rays, ms, f, low, high),
         NEW size \in Nat \ {0}, NEW c \in Nat, c * size < Rays
  PROVE  Told(run_chunk(batch, b, rays, size, c), Turns(batch, b, rays, size, c),
              batch, b, rays, c * size, ChunkEnd(size, c))
<1> DEFINE start == c * size
           end == ChunkEnd(size, c)
           turns == Turns(batch, b, rays, size, c)
           mine == ChunkRays(size, c)
           turn == [i \in DOMAIN mine |-> RayTurn(batch, b, rays, mine[i])]
           result == run_chunk(batch, b, rays, size, c)
<1>1. start \in Nat /\ Rays \in Nat /\ start < Rays
  BY ProductIsNat, CuttingAssumption
<1>2. end \in Nat /\ start <= end /\ end <= Rays
  <2> HIDE DEF start
  <2>1. end = IF start + size <= Rays THEN start + size ELSE Rays
    BY DEF ChunkEnd, start
  <2> HIDE DEF end
  <2> QED BY <1>1, <2>1
<1>3. mine = [i \in 1 .. end - start |-> start + i - 1]
  BY DEF ChunkRays, ChunkEnd
<1>4. turns = [i \in 1 .. end - start |-> RayTurn(batch, b, rays, start + i - 1)]
  BY DEF Turns
<1> DEFINE n == end - start
<1> HIDE DEF start, end, mine, turns
<1>5. n \in Nat /\ \A i \in 1 .. n : start + i - 1 \in Ray
  BY <1>1, <1>2 DEF Ray
<1>6. turn = turns
  <2>1. DOMAIN mine = 1 .. n /\ \A i \in 1 .. n : mine[i] = start + i - 1
    BY <1>3
  <2> HIDE DEF n
  <2> QED BY <1>4, <2>1 DEF n
<1>7. turns \in Seq(RayState) /\ Len(turns) = n /\ DOMAIN turns = 1 .. n
  <2>1. \A i \in 1 .. n : RayTurn(batch, b, rays, start + i - 1) \in RayState
    BY <1>5, RayTurnTyped
  <2>2. turns \in [1 .. n -> RayState]
    BY <1>4, <2>1
  <2> HIDE DEF n
  <2>3. turns \in Seq(RayState)
    BY <1>5, <2>2
  <2> QED BY <1>5, <2>2, <2>3
<1>8. /\ result.stats = Merged(turn)
      /\ result.contributions = FlattenSeq([i \in DOMAIN turn |-> turn[i].found])
  <2>1. turn \in Seq(RayState)
    BY <1>6, <1>7
  <2> HIDE DEF turn
  <2> QED BY <2>1 DEF run_chunk, mine, turn
<1>9. start .. end - 1 \subseteq Ray
  BY <1>1, <1>2 DEF Ray
<1>10. /\ start \in Nat /\ end \in Nat /\ start <= end /\ start .. end - 1 \subseteq Ray
       /\ turns \in Seq(RayState) /\ Len(turns) = end - start
       /\ \A i \in 1 .. end - start : /\ start + i - 1 \in Ray
                                      /\ turns[i] = RayTurn(batch, b, rays, start + i - 1)
  BY <1>1, <1>2, <1>4, <1>5, <1>7, <1>9
<1>11. /\ result.stats = Merged(turns)
       /\ result.contributions = FlattenSeq([i \in 1 .. end - start |-> turns[i].found])
  <2> HIDE DEF turn, result
  <2> QED BY <1>6, <1>7, <1>8
<1> HIDE DEF result
<1>12. Told(result, turns, batch, b, rays, start, end)
  BY <1>10, <1>11 DEF Told
<1> QED BY <1>12 DEF start, end, turns, result

(* A chunk's counters are those of the run's motions cut one at a time.      *)
LEMMA ChunkCounts ==
  ASSUME NEW batch, NEW b, NEW rays, NEW ms, NEW f, NEW low, NEW high,
         Follows(batch, b, rays, ms, f, low, high),
         NEW size \in Nat \ {0}, NEW c \in Nat, c * size < Rays, NEW counter \in Counters
  PROVE  LET all == Tally(counter, ms, f, b, c * size .. ChunkEnd(size, c) - 1, low, high)
         IN  /\ IsFiniteSet(all)
             /\ run_chunk(batch, b, rays, size, c).stats[counter] = Cardinality(all)
<1> DEFINE start == c * size
           end == ChunkEnd(size, c)
           n == end - start
           turns == Turns(batch, b, rays, size, c)
           X == [i \in 1 .. n |-> Tally(counter, ms, f, b, {start + i - 1}, low, high)]
           all == Tally(counter, ms, f, b, start .. end - 1, low, high)
<1>1. /\ start \in Nat /\ end \in Nat /\ start <= end
      /\ turns \in Seq(RayState) /\ Len(turns) = n
      /\ \A i \in 1 .. n : start + i - 1 \in Ray /\ turns[i] = RayTurn(batch, b, rays, start + i - 1)
      /\ run_chunk(batch, b, rays, size, c).stats = Merged(turns)
  <2>1. Told(run_chunk(batch, b, rays, size, c), turns, batch, b, rays, start, end)
    BY ChunkOfTurns
  <2> HIDE DEF start, end, turns
  <2> QED BY <2>1 DEF Told
<1> HIDE DEF start, end, turns
<1>2. \A i \in 1 .. n : IsFiniteSet(X[i]) /\ turns[i].stats[counter] = Cardinality(X[i])
  <2> TAKE i \in 1 .. n
  <2>1. X[i] = Tally(counter, ms, f, b, {start + i - 1}, low, high)
    OBVIOUS
  <2>2. start + i - 1 \in Ray /\ turns[i] = RayTurn(batch, b, rays, start + i - 1)
    BY <1>1
  <2> DEFINE r == start + i - 1
  <2>4. r \in Ray
    BY <2>2
  <2> HIDE DEF X, n, r
  <2>3. IsFiniteSet(Tally(counter, ms, f, b, {r}, low, high))
        /\ RayTurn(batch, b, rays, r).stats[counter] = Cardinality(Tally(counter, ms, f, b, {r}, low, high))
    BY <2>4, RayTurnCounts
  <2> QED BY <2>1, <2>2, <2>3 DEF r
<1>3. \A i, j \in 1 .. n : i # j => X[i] \cap X[j] = {}
  <2> SUFFICES ASSUME NEW i \in 1 .. n, NEW j \in 1 .. n, i # j, NEW o \in X[i], o \in X[j] PROVE FALSE
    OBVIOUS
  <2>1. o \in {b} \X {start + i - 1} \X (low .. high) /\ o \in {b} \X {start + j - 1} \X (low .. high)
    BY DEF Tally
  <2>2. start + i - 1 = start + j - 1
    BY <2>1
  <2> QED BY <2>2, <1>1
<1>4. AllOf(X, n) = all
  <2>1. ASSUME NEW o \in all PROVE \E i \in 1 .. n : o \in X[i]
    <3>1. PICK r \in start .. end - 1, m \in low .. high : o = <<b, r, m>>
      BY DEF Tally
    <3>2. r - start + 1 \in 1 .. n /\ start + (r - start + 1) - 1 = r
      BY <1>1, <3>1
    <3>3. X[r - start + 1] = Tally(counter, ms, f, b, {r}, low, high)
      BY <3>2
    <3> HIDE DEF X
    <3>4. o \in Tally(counter, ms, f, b, {r}, low, high)
      BY <3>1 DEF Tally
    <3> QED BY <3>2, <3>3, <3>4
  <2>2. ASSUME NEW i \in 1 .. n, NEW o \in X[i] PROVE o \in all
    <3>1. start + i - 1 \in start .. end - 1
      BY <1>1
    <3> QED BY <3>1 DEF Tally
  <2> HIDE DEF X, all
  <2> QED BY <2>1, <2>2 DEF AllOf
<1> HIDE DEF X, all, n
<1>5. IsFiniteSet(AllOf(X, n)) /\ Merged(turns)[counter] = Cardinality(AllOf(X, n))
  <2>1. \A i \in 1 .. Len(turns) : IsFiniteSet(X[i]) /\ turns[i].stats[counter] = Cardinality(X[i])
    BY <1>1, <1>2
  <2>2. \A i, j \in 1 .. Len(turns) : i # j => X[i] \cap X[j] = {}
    BY <1>1, <1>3
  <2>3. turns \in Seq(RayState) /\ n = Len(turns)
    BY <1>1
  <2> HIDE DEF turns
  <2>4. /\ IsFiniteSet(AllOf(X, Len(turns)))
        /\ Merged(turns)[counter] = Cardinality(AllOf(X, Len(turns)))
    BY <2>1, <2>2, <2>3, MergedCounts
  <2> QED BY <2>3, <2>4
<1> QED BY <1>1, <1>4, <1>5 DEF start, end, all

(* A chunk's contributions, replayed, add what each motion cut of its rays,  *)
(* one ray after the other.                                                  *)
LEMMA ChunkReplays ==
  ASSUME NEW batch, NEW b, NEW rays, NEW ms, NEW f, NEW low, NEW high,
         Follows(batch, b, rays, ms, f, low, high),
         NEW size \in Nat \ {0}, NEW c \in Nat, c * size < Rays
  PROVE  LET result == run_chunk(batch, b, rays, size, c)
         IN  /\ result.contributions \in Seq(Contribution)
             /\ \A k \in 1 .. Len(batch) : \A sum :
                  RayByRay(sum, ms, f, b, low - 1 + k) =>
                    Replayed(result.contributions, k, sum[c * size]) = sum[ChunkEnd(size, c)]
<1> DEFINE start == c * size
           end == ChunkEnd(size, c)
           n == end - start
           turns == Turns(batch, b, rays, size, c)
           g == [i \in 1 .. n |-> turns[i].found]
           flat == run_chunk(batch, b, rays, size, c).contributions
<1>1. /\ start \in Nat /\ end \in Nat /\ start <= end /\ n \in Nat
      /\ turns \in Seq(RayState) /\ Len(turns) = n
      /\ \A i \in 1 .. n : start + i - 1 \in Ray /\ turns[i] = RayTurn(batch, b, rays, start + i - 1)
      /\ flat = FlattenSeq([i \in 1 .. n |-> turns[i].found])
  <2>1. Told(run_chunk(batch, b, rays, size, c), turns, batch, b, rays, start, end)
    BY ChunkOfTurns
  <2> HIDE DEF start, end, turns
  <2> QED BY <2>1 DEF Told
<1> HIDE DEF start, end, turns, flat
<1>2. g \in [1 .. n -> Seq(Contribution)]
  <2>1. \A i \in 1 .. n : turns[i] \in RayState
    BY <1>1
  <2>2. \A i \in 1 .. n : turns[i].found \in Seq(Contribution)
    BY <2>1 DEF RayState
  <2> QED BY <2>2
<1>3. \A i \in 1 .. n : g[i] = turns[i].found
  OBVIOUS
<1>4. g = [i \in 1 .. n |-> g[i]] /\ flat = FlattenSeq(g)
  BY <1>1
<1> HIDE DEF g, n
<1>5. PICK h : Flattens(h, Contribution, n, g)
  BY <1>1, <1>2, FlattenSteps
<1>6. /\ h \in [0 .. n -> Seq(Contribution)]
      /\ h[0] = <<>>
      /\ \A k \in 1 .. n : h[k] = h[k - 1] \o g[k]
      /\ flat = h[n]
  BY <1>1, <1>4, <1>5 DEF Flattens
<1>7. ASSUME NEW k \in 1 .. Len(batch), NEW sum, RayByRay(sum, ms, f, b, low - 1 + k)
      PROVE  Replayed(flat, k, sum[start]) = sum[end]
  <2> DEFINE m == low - 1 + k
             G == {i \in 0 .. n : Replayed(h[i], k, sum[start]) = sum[start + i]}
  <2>1. 0 \in G
    <3>1. Replayed(h[0], k, sum[start]) = sum[start] /\ start + 0 = start /\ 0 \in 0 .. n
      BY <1>1, <1>6, ReplayOfNone
    <3> QED BY <3>1
  <2>2. ASSUME NEW i \in 0 .. n - 1, i \in G PROVE i + 1 \in G
    <3> DEFINE j == i + 1
               r == start + j - 1
    <3>1. j \in 1 .. n /\ j - 1 = i /\ j \in 0 .. n /\ i \in 0 .. n /\ r = start + i /\ start + j = r + 1
      BY <1>1
    <3>2. r \in Ray /\ turns[j] = RayTurn(batch, b, rays, r) /\ g[j] = turns[j].found
      BY <1>1, <1>3, <3>1
    <3>3. Replayed(h[i], k, sum[start]) = sum[r]
      BY <2>2, <3>1
    <3> HIDE DEF j, r
    <3>4. h[j] = h[i] \o g[j] /\ h[i] \in Seq(Contribution) /\ g[j] \in Seq(Contribution)
      BY <1>2, <1>6, <3>1
    <3>5. Replayed(h[j], k, sum[start]) = Replayed(g[j], k, sum[r])
      BY <3>3, <3>4, ReplayOfConcat
    <3>6. Replayed(g[j], k, sum[r]) = Takes(ms, f, b, r, m, sum[r])
      BY <3>2, RayTurnReplays
    <3>7. sum[r + 1] = Takes(ms, f, b, r, m, sum[r])
      <4>1. r + 1 \in 1 .. Rays /\ (r + 1) - 1 = r
        BY <3>2, CuttingAssumption DEF Ray
      <4> QED BY <1>7, <4>1 DEF RayByRay, Takes
    <3>8. Replayed(h[j], k, sum[start]) = sum[start + j]
      BY <3>1, <3>5, <3>6, <3>7
    <3> QED BY <3>1, <3>8 DEF j
  <2>3. n \in G
    <3> HIDE DEF G
    <3>1. \A i \in 0 .. n : i \in G
      BY <1>1, <2>1, <2>2, Induction
    <3> QED BY <1>1, <3>1
  <2>4. start + n = end
    BY <1>1 DEF n
  <2> QED BY <1>6, <2>3, <2>4
<1>8. flat \in Seq(Contribution)
  BY <1>1, <1>6
<1> QED BY <1>7, <1>8 DEF start, end, flat

(* Numbers below n that rise n times are 0, 1, ... n - 1.                    *)
LEMMA RisingIsIdentity ==
  ASSUME NEW n \in Nat, NEW g \in [1 .. n -> 0 .. n - 1],
         \A i, j \in 1 .. n : i < j => g[i] < g[j]
  PROVE  \A i \in 1 .. n : g[i] = i - 1
<1>1. CASE n = 0
  BY <1>1
<1>2. CASE n # 0
  <2> DEFINE Up == {i \in 0 .. n - 1 : g[i + 1] >= i}
             Down == {i \in 0 .. n - 1 : g[n - i] <= (n - i) - 1}
  <2>0. n - 1 \in Nat
    BY <1>2
  <2>1. 0 \in Up
    <3>1. 1 \in 1 .. n
      BY <1>2
    <3>2. g[1] \in 0 .. n - 1
      BY <3>1
    <3> QED BY <3>2, <2>0
  <2>2. ASSUME NEW i \in 0 .. (n - 1) - 1, i \in Up PROVE i + 1 \in Up
    <3> DEFINE j == i + 1
    <3>1. j \in 1 .. n /\ j + 1 \in 1 .. n /\ j < j + 1 /\ j \in 0 .. n - 1
      BY <2>0
    <3>2. g[j] >= i /\ g[j] < g[j + 1] /\ g[j] \in Int /\ g[j + 1] \in Int
      BY <2>2, <3>1
    <3> HIDE DEF j
    <3>3. j = i + 1 /\ i \in Int
      BY DEF j
    <3>4. g[j + 1] >= j
      BY <3>2, <3>3
    <3> QED BY <3>1, <3>4 DEF j
  <2>3. \A i \in 0 .. n - 1 : i \in Up
    <3> HIDE DEF Up
    <3> QED BY <2>0, <2>1, <2>2, Induction
  <2>4. 0 \in Down
    <3>1. n \in 1 .. n /\ n - 0 = n /\ 0 \in 0 .. n - 1
      BY <1>2
    <3>2. g[n] \in 0 .. n - 1
      BY <3>1
    <3> QED BY <3>1, <3>2
  <2>5. ASSUME NEW i \in 0 .. (n - 1) - 1, i \in Down PROVE i + 1 \in Down
    <3> DEFINE j == n - (i + 1)
    <3>1. j \in 1 .. n /\ j + 1 \in 1 .. n /\ j < j + 1 /\ n - i = j + 1 /\ i + 1 \in 0 .. n - 1
      BY <2>0
    <3>2. g[j + 1] <= (j + 1) - 1 /\ g[j] < g[j + 1] /\ g[j] \in Int /\ g[j + 1] \in Int
      BY <2>5, <3>1
    <3>3. g[j] <= j - 1
      <4> HIDE DEF j
      <4> QED BY <3>1, <3>2
    <3> QED BY <3>1, <3>3
  <2>6. \A i \in 0 .. n - 1 : i \in Down
    <3> HIDE DEF Down
    <3> QED BY <2>0, <2>4, <2>5, Induction
  <2>7. ASSUME NEW i \in 1 .. n PROVE g[i] = i - 1
    <3>1. i - 1 \in 0 .. n - 1 /\ n - i \in 0 .. n - 1 /\ (i - 1) + 1 = i /\ n - (n - i) = i
      OBVIOUS
    <3>2. g[i] >= i - 1
      BY <2>3, <3>1
    <3>3. g[i] <= i - 1
      BY <2>6, <3>1
    <3>4. g[i] \in Int
      OBVIOUS
    <3> QED BY <3>2, <3>3, <3>4
  <2> QED BY <2>7
<1> QED BY <1>1, <1>2

\* The results are those of chunks 0, 1, ... of the whole bundle, in order.
InChunks(results, batch, b, rays, size, n) ==
  /\ size \in Nat \ {0} /\ n \in Nat /\ Len(results) = n
  /\ \A c \in 0 .. n - 1 : c * size < Rays
  /\ Rays <= n * size
  /\ \A i \in 1 .. n : results[i] = run_chunk(batch, b, rays, size, i - 1)

\* The ray after the first n chunks.
RaysUpTo(size, n) == IF n * size <= Rays THEN n * size ELSE Rays

(* Where one chunk ends the next begins.                                    *)
LEMMA ChunkEnds ==
  ASSUME NEW size \in Nat \ {0}, NEW c \in Nat, c * size < Rays
  PROVE  RaysUpTo(size, c) = c * size /\ ChunkEnd(size, c) = RaysUpTo(size, c + 1)
<1>1. (c + 1) * size = c * size + size
  OBVIOUS
<1>2. c * size \in Nat /\ Rays \in Nat
  BY ProductIsNat, CuttingAssumption
<1>3. RaysUpTo(size, c) = c * size
  BY <1>2 DEF RaysUpTo
<1>4. ChunkEnd(size, c) = RaysUpTo(size, c + 1)
  BY <1>1 DEF RaysUpTo, ChunkEnd
<1> QED BY <1>3, <1>4

(* The counters of a bundle are those of the run's motions cut one at a time.*)
LEMMA BundleCounts ==
  ASSUME NEW batch, NEW b, NEW rays, NEW ms, NEW f, NEW low, NEW high,
         Follows(batch, b, rays, ms, f, low, high),
         NEW S, NEW results \in Seq(S), NEW size, NEW n, InChunks(results, batch, b, rays, size, n),
         NEW counter \in Counters
  PROVE  LET all == Tally(counter, ms, f, b, Ray, low, high)
         IN  IsFiniteSet(all) /\ Merged(results)[counter] = Cardinality(all)
<1> DEFINE X == [i \in 1 .. n |->
                   Tally(counter, ms, f, b, (i - 1) * size .. ChunkEnd(size, i - 1) - 1, low, high)]
           all == Tally(counter, ms, f, b, Ray, low, high)
<1>1. /\ size \in Nat \ {0} /\ n \in Nat /\ Len(results) = n
      /\ \A c \in 0 .. n - 1 : c * size < Rays
      /\ Rays <= n * size /\ Rays \in Nat
      /\ \A i \in 1 .. n : results[i] = run_chunk(batch, b, rays, size, i - 1)
  BY CuttingAssumption DEF InChunks
<1>2. ASSUME NEW i \in 1 .. n
      PROVE  /\ X[i] = Tally(counter, ms, f, b, (i - 1) * size .. ChunkEnd(size, i - 1) - 1, low, high)
             /\ IsFiniteSet(X[i]) /\ results[i].stats[counter] = Cardinality(X[i])
             /\ (i - 1) * size \in Nat /\ ChunkEnd(size, i - 1) \in Nat
             /\ ChunkEnd(size, i - 1) <= (i - 1) * size + size
             /\ ChunkEnd(size, i - 1) <= Rays
             /\ ((i - 1) * size + size <= Rays => ChunkEnd(size, i - 1) = (i - 1) * size + size)
             /\ (~((i - 1) * size + size <= Rays) => ChunkEnd(size, i - 1) = Rays)
  <2> DEFINE c == i - 1
  <2>1. c \in Nat /\ c \in 0 .. n - 1
    BY <1>1
  <2>2. X[i] = Tally(counter, ms, f, b, c * size .. ChunkEnd(size, c) - 1, low, high)
    OBVIOUS
  <2>3. results[i] = run_chunk(batch, b, rays, size, c) /\ c * size < Rays
    BY <1>1, <2>1
  <2> HIDE DEF c, X
  <2>4. IsFiniteSet(X[i]) /\ results[i].stats[counter] = Cardinality(X[i])
    BY <1>1, <2>1, <2>2, <2>3, ChunkCounts
  <2>5. c * size \in Nat
    BY <1>1, <2>1, ProductIsNat
  <2>6. /\ ChunkEnd(size, c) \in Nat /\ ChunkEnd(size, c) <= c * size + size /\ ChunkEnd(size, c) <= Rays
        /\ (c * size + size <= Rays => ChunkEnd(size, c) = c * size + size)
        /\ (~(c * size + size <= Rays) => ChunkEnd(size, c) = Rays)
    BY <1>1, <2>5 DEF ChunkEnd
  <2> QED BY <2>2, <2>4, <2>5, <2>6 DEF c
<1> HIDE DEF X
<1>3. \A i, j \in 1 .. n : i < j => X[i] \cap X[j] = {}
  <2> SUFFICES ASSUME NEW i \in 1 .. n, NEW j \in 1 .. n, i < j, NEW o \in X[i], o \in X[j] PROVE FALSE
    OBVIOUS
  <2>1. o[2] \in (i - 1) * size .. ChunkEnd(size, i - 1) - 1 /\ o[2] \in (j - 1) * size .. ChunkEnd(size, j - 1) - 1
    BY <1>2, SMTT(30) DEF Tally
  <2>2. (i - 1) * size + size <= (j - 1) * size
    <3>1. (i - 1) * size + size = i * size
      BY <1>1
    <3>2. i = j - 1 \/ i < j - 1
      OBVIOUS
    <3>3. i < j - 1 => i * size < (j - 1) * size
      BY <1>1, ProductRises
    <3>4. i * size \in Nat /\ (j - 1) * size \in Nat
      BY <1>1, ProductIsNat
    <3> QED BY <3>1, <3>2, <3>3, <3>4
  <2> DEFINE x == o[2]
             si == (i - 1) * size
             sj == (j - 1) * size
             ei == ChunkEnd(size, i - 1)
             ej == ChunkEnd(size, j - 1)
  <2>3. si \in Nat /\ sj \in Nat /\ ei \in Nat /\ ej \in Nat /\ ei <= si + size
    BY <1>2
  <2>4. x \in si .. ei - 1 /\ x \in sj .. ej - 1 /\ si + size <= sj /\ size \in Nat
    BY <1>1, <2>1, <2>2
  <2> HIDE DEF x, si, sj, ei, ej
  <2> QED BY <2>3, <2>4
<1>4. \A i, j \in 1 .. n : i # j => X[i] \cap X[j] = {}
  <2> SUFFICES ASSUME NEW i \in 1 .. n, NEW j \in 1 .. n, i # j PROVE X[i] \cap X[j] = {}
    OBVIOUS
  <2>1. i < j \/ j < i
    OBVIOUS
  <2> QED BY <1>3, <2>1
<1>5. AllOf(X, n) = all
  <2>1. ASSUME NEW o \in all PROVE \E i \in 1 .. n : o \in X[i]
    <3>1. PICK r \in Ray, m \in low .. high : o = <<b, r, m>>
      BY DEF Tally
    <3> DEFINE c == r \div size
    <3>2. r \in Nat /\ r < Rays
      BY <1>1, <3>1 DEF Ray
    <3>3. c \in Nat /\ c * size <= r /\ r < c * size + size
      BY <1>1, <3>2, Division
    <3> HIDE DEF c
    <3>4. c < n
      <4> SUFFICES ASSUME n <= c PROVE FALSE
        BY <1>1, <3>3
      <4>1. n * size <= c * size
        <5>1. CASE n = c
          BY <5>1, <3>3, <1>1, ProductIsNat
        <5>2. CASE n < c
          <6>1. n * size < c * size
            BY <5>2, <1>1, <3>3, ProductRises
          <6>2. n * size \in Nat /\ c * size \in Nat
            BY <1>1, <3>3, ProductIsNat
          <6> QED BY <6>1, <6>2
        <5> QED BY <5>1, <5>2, <1>1, <3>3
      <4>2. n * size \in Nat /\ c * size \in Nat
        BY <1>1, <3>3, ProductIsNat
      <4> DEFINE ns == n * size
                 cs == c * size
      <4>3. ns <= cs /\ ns \in Nat /\ cs \in Nat /\ Rays <= ns /\ cs <= r /\ r < Rays /\ r \in Nat /\ Rays \in Nat
        BY <4>1, <4>2, <1>1, <3>2, <3>3
      <4> HIDE DEF ns, cs
      <4> QED BY <4>3
    <3> DEFINE i == c + 1
    <3>5. i \in 1 .. n /\ i - 1 = c
      BY <1>1, <3>3, <3>4
    <3>6. r \in (i - 1) * size .. ChunkEnd(size, i - 1) - 1
      <4> DEFINE s == (i - 1) * size
                 e == ChunkEnd(size, i - 1)
      <4>1. /\ s \in Nat /\ e \in Nat /\ (s + size <= Rays => e = s + size)
            /\ (~(s + size <= Rays) => e = Rays)
        BY <1>2, <3>5
      <4>2. s <= r /\ r < s + size
        BY <3>3, <3>5
      <4> HIDE DEF s, e
      <4> QED BY <1>1, <3>2, <4>1, <4>2 DEF s, e
    <3>7. o \in X[i]
      <4> HIDE DEF i
      <4>1. X[i] = Tally(counter, ms, f, b, (i - 1) * size .. ChunkEnd(size, i - 1) - 1, low, high)
        BY <1>2, <3>5
      <4> QED BY <3>1, <3>6, <4>1 DEF Tally
    <3> QED BY <3>5, <3>7
  <2>2. ASSUME NEW i \in 1 .. n, NEW o \in X[i] PROVE o \in all
    <3>1. (i - 1) * size .. ChunkEnd(size, i - 1) - 1 \subseteq Ray
      <4> DEFINE s == (i - 1) * size
                 e == ChunkEnd(size, i - 1)
      <4>1. s \in Nat /\ e \in Nat /\ e <= Rays
        BY <1>2
      <4> HIDE DEF s, e
      <4>2. s .. e - 1 \subseteq 0 .. Rays - 1
        BY <4>1, <1>1
      <4> QED BY <4>2 DEF s, e, Ray
    <3>2. X[i] = Tally(counter, ms, f, b, (i - 1) * size .. ChunkEnd(size, i - 1) - 1, low, high)
      BY <1>2
    <3> QED BY <3>1, <3>2 DEF Tally
  <2> HIDE DEF all
  <2> QED BY <2>1, <2>2 DEF AllOf
<1>6. IsFiniteSet(AllOf(X, n)) /\ Merged(results)[counter] = Cardinality(AllOf(X, n))
  <2>1. /\ \A i \in 1 .. Len(results) : IsFiniteSet(X[i]) /\ results[i].stats[counter] = Cardinality(X[i])
        /\ \A i, j \in 1 .. Len(results) : i # j => X[i] \cap X[j] = {}
    BY <1>1, <1>2, <1>4
  <2>2. IsFiniteSet(AllOf(X, Len(results))) /\ Merged(results)[counter] = Cardinality(AllOf(X, Len(results)))
    BY <2>1, MergedCounts
  <2> QED BY <1>1, <2>2
<1> QED BY <1>5, <1>6

(* The contributions of a bundle, replayed in the order of its chunks, are   *)
(* what each motion removes from it, ray by ray.                             *)
LEMMA BundleReplays ==
  ASSUME NEW batch, NEW b, NEW rays, NEW ms, NEW f, NEW low, NEW high,
         Follows(batch, b, rays, ms, f, low, high),
         NEW S, NEW results \in Seq(S), NEW size, NEW n, InChunks(results, batch, b, rays, size, n),
         NEW k \in 1 .. Len(batch)
  PROVE  Replayed(Contributed(results), k, 0) = RemovedBy(ms, f, b, low - 1 + k)
<1> DEFINE g == [i \in 1 .. n |-> results[i].contributions]
           flat == Contributed(results)
           m == low - 1 + k
<1>1. /\ size \in Nat \ {0} /\ n \in Nat /\ Len(results) = n
      /\ \A c \in 0 .. n - 1 : c * size < Rays
      /\ Rays <= n * size /\ Rays \in Nat
      /\ \A i \in 1 .. n : results[i] = run_chunk(batch, b, rays, size, i - 1)
  BY CuttingAssumption DEF InChunks
<1>2. ASSUME NEW i \in 1 .. n
      PROVE  /\ g[i] = run_chunk(batch, b, rays, size, i - 1).contributions
             /\ g[i] \in Seq(Contribution)
             /\ \A sum : RayByRay(sum, ms, f, b, m) =>
                  Replayed(g[i], k, sum[RaysUpTo(size, i - 1)]) = sum[RaysUpTo(size, i)]
  <2> DEFINE c == i - 1
  <2>1. c \in Nat /\ c \in 0 .. n - 1 /\ c + 1 = i
    BY <1>1
  <2>2. g[i] = run_chunk(batch, b, rays, size, c).contributions
    BY <1>1
  <2>3. c * size < Rays
    BY <1>1, <2>1
  <2> HIDE DEF c, g
  <2>4. /\ g[i] \in Seq(Contribution)
        /\ \A sum : RayByRay(sum, ms, f, b, m) =>
             Replayed(g[i], k, sum[c * size]) = sum[ChunkEnd(size, c)]
    BY <1>1, <2>1, <2>2, <2>3, ChunkReplays
  <2>5. RaysUpTo(size, c) = c * size /\ ChunkEnd(size, c) = RaysUpTo(size, i)
    BY <1>1, <2>1, <2>3, ChunkEnds
  <2> QED BY <2>2, <2>4, <2>5 DEF c
<1>3. g \in [1 .. n -> Seq(Contribution)]
  BY <1>2
<1>4. flat = FlattenSeq(g) /\ g = [i \in 1 .. n |-> g[i]]
  <2>1. DOMAIN results = 1 .. n
    BY <1>1
  <2> QED BY <2>1 DEF Contributed
<1> HIDE DEF g, flat
<1>5. PICK h : Flattens(h, Contribution, n, g)
  BY <1>1, <1>3, FlattenSteps
<1>6. /\ h \in [0 .. n -> Seq(Contribution)]
      /\ h[0] = <<>>
      /\ \A i \in 1 .. n : h[i] = h[i - 1] \o g[i]
      /\ flat = h[n]
  BY <1>1, <1>4, <1>5 DEF Flattens
<1>7. PICK sum : RayByRay(sum, ms, f, b, m)
  BY RemovedRayByRay
<1> DEFINE G == {i \in 0 .. n : Replayed(h[i], k, 0) = sum[RaysUpTo(size, i)]}
<1>8. 0 \in G
  <2>1. RaysUpTo(size, 0) = 0
    BY <1>1 DEF RaysUpTo
  <2>2. sum[0] = 0 /\ 0 \in 0 .. n /\ Replayed(h[0], k, 0) = 0
    BY <1>1, <1>6, <1>7, ReplayOfNone DEF RayByRay
  <2> QED BY <2>1, <2>2
<1>9. ASSUME NEW i \in 0 .. n - 1, i \in G PROVE i + 1 \in G
  <2> DEFINE j == i + 1
  <2>1. j \in 1 .. n /\ j - 1 = i /\ j \in 0 .. n /\ i \in 0 .. n
    BY <1>1
  <2>2. Replayed(h[i], k, 0) = sum[RaysUpTo(size, i)]
    BY <1>9
  <2> HIDE DEF j
  <2>3. h[j] = h[i] \o g[j] /\ h[i] \in Seq(Contribution) /\ g[j] \in Seq(Contribution)
    BY <1>3, <1>6, <2>1
  <2>4. Replayed(h[j], k, 0) = Replayed(g[j], k, sum[RaysUpTo(size, i)])
    BY <2>2, <2>3, ReplayOfConcat
  <2>5. Replayed(g[j], k, sum[RaysUpTo(size, i)]) = sum[RaysUpTo(size, j)]
    BY <1>2, <1>7, <2>1
  <2> QED BY <2>1, <2>4, <2>5 DEF j
<1>10. n \in G
  <2> HIDE DEF G
  <2>1. \A i \in 0 .. n : i \in G
    BY <1>1, <1>8, <1>9, Induction
  <2> QED BY <1>1, <2>1
<1>11. RaysUpTo(size, n) = Rays
  <2>1. n * size \in Nat
    BY <1>1, ProductIsNat
  <2> QED BY <1>1, <2>1 DEF RaysUpTo
<1>12. sum[Rays] = RemovedBy(ms, f, b, m)
  BY <1>7 DEF RayByRay
<1> QED BY <1>6, <1>10, <1>11, <1>12 DEF flat

(* The results of a bundle's chunks, put in order, are those of chunks 0, 1, *)
(* and so on.                                                                *)
LEMMA OrderedIsInChunks ==
  ASSUME Inv, pc = "workers", AllHandedIn
  PROVE  /\ Ordered(out) \in Seq(Results)
         /\ InChunks(Ordered(out), Run, bundle, field[bundle], ChunkSize, Chunks)
<1> USE DEF Inv
<1> DEFINE results == Ordered(out)
           n == Chunks
           size == ChunkSize
<1>1. out \in Seq(Results) /\ n \in Nat /\ size \in Nat \ {0} /\ Rays \in Nat
  BY ChunksCover, CuttingAssumption DEF TypeOK
<1>2. Apart(out) /\ Starts(out) = {c * size : c \in 0 .. n - 1}
  BY DEF AllHandedIn, Chunk
<1>3. /\ DOMAIN results = 1 .. n
      /\ \A i \in 1 .. n : results[i] \in {out[j] : j \in DOMAIN out}
      /\ \A i, j \in 1 .. n : i < j => results[i].start < results[j].start
  <2>1. /\ DOMAIN results = DOMAIN out
        /\ \A i \in DOMAIN out : results[i] \in {out[j] : j \in DOMAIN out}
        /\ Len(out) = n
        /\ \A i, j \in DOMAIN out : i < j => results[i].start < results[j].start
    <3> HIDE DEF n, size
    <3> QED BY <1>1, <1>2, OrderedKeeps
  <2>2. DOMAIN out = 1 .. n
    BY <1>1, <2>1
  <2> HIDE DEF results, n
  <2> QED BY <2>1, <2>2
<1> HIDE DEF results
<1>4. \A i \in 1 .. n : results[i] \in Results
  BY <1>1, <1>3
<1>5. results \in Seq(Results) /\ Len(results) = n
  <2>1. results = [i \in 1 .. n |-> results[i]]
    BY <1>3 DEF results, Ordered
  <2>2. results \in [1 .. n -> Results]
    BY <1>4, <2>1
  <2> QED BY <1>1, <2>2
<1> DEFINE g == [i \in 1 .. n |-> CHOOSE c \in Chunk : results[i] = Result(c)]
<1>6. \A i \in 1 .. n : g[i] \in Chunk /\ results[i] = Result(g[i])
  BY <1>4 DEF Results
<1> HIDE DEF g
<1>7. \A i \in 1 .. n : g[i] \in 0 .. n - 1 /\ results[i].start = g[i] * size
  BY <1>6, ResultStarts DEF Chunk
<1>8. g \in [1 .. n -> 0 .. n - 1]
  <2>1. g = [i \in 1 .. n |-> g[i]]
    BY DEF g
  <2> QED BY <1>7, <2>1
<1>9. \A i, j \in 1 .. n : i < j => g[i] < g[j]
  <2> SUFFICES ASSUME NEW i \in 1 .. n, NEW j \in 1 .. n, i < j PROVE g[i] < g[j]
    OBVIOUS
  <2> DEFINE x == g[i]
             y == g[j]
  <2>1. x \in Nat /\ y \in Nat /\ x * size < y * size
    <3>1. x \in 0 .. n - 1 /\ y \in 0 .. n - 1
      BY <1>7
    <3>2. results[i].start = x * size /\ results[j].start = y * size
      BY <1>7
    <3>3. results[i].start < results[j].start
      BY <1>3
    <3> HIDE DEF x, y, n, size
    <3> QED BY <1>1, <3>1, <3>2, <3>3
  <2> HIDE DEF x, y, size
  <2>2. ASSUME ~(x < y) PROVE FALSE
    <3>1. y < x \/ x = y
      BY <2>1, <2>2
    <3>2. y < x => y * size < x * size
      BY <1>1, <2>1, ProductRises
    <3>3. x * size \in Nat /\ y * size \in Nat
      BY <1>1, <2>1, ProductIsNat
    <3> QED BY <2>1, <3>1, <3>2, <3>3
  <2> QED BY <2>2 DEF x, y
<1>10. \A i \in 1 .. n : g[i] = i - 1
  <2> HIDE DEF n
  <2> QED BY <1>1, <1>8, <1>9, RisingIsIdentity
<1>11. \A i \in 1 .. n : results[i] = run_chunk(Run, bundle, field[bundle], size, i - 1)
  <2>1. \A i \in 1 .. n : results[i] = Result(i - 1)
    BY <1>6, <1>10
  <2> QED BY <2>1 DEF Result
<1>12. (\A c \in 0 .. n - 1 : c * size < Rays) /\ Rays <= n * size
  <2> DEFINE a == Rays + size - 1
  <2>1. a \in Nat /\ a = Rays + size - 1
    BY <1>1
  <2>2. n = a \div size
    BY DEF Chunks
  <2> HIDE DEF a, n, size
  <2>3. n * size <= a /\ a < n * size + size /\ n * size \in Nat
    BY <1>1, <2>1, <2>2, Division, ProductIsNat
  <2>4. ASSUME NEW c \in 0 .. n - 1 PROVE c * size < Rays
    <3>1. c = n - 1 \/ c < n - 1
      BY <1>1
    <3>2. c \in Nat /\ n - 1 \in Nat
      BY <1>1
    <3>3. c < n - 1 => c * size < (n - 1) * size
      BY <1>1, <3>2, ProductRises
    <3>4. c * size \in Nat /\ (n - 1) * size \in Nat
      BY <1>1, <3>2, ProductIsNat
    <3>5. (n - 1) * size + size = n * size
      BY <1>1
    <3> DEFINE cs == c * size
               ms == (n - 1) * size
               ns == n * size
    <3>6. (cs = ms \/ cs < ms) /\ cs \in Nat /\ ms \in Nat /\ ms + size = ns
      BY <3>1, <3>3, <3>4, <3>5
    <3>7. ns <= a /\ ns \in Nat
      BY <2>3
    <3> HIDE DEF cs, ms, ns
    <3>8. cs < Rays
      BY <1>1, <2>1, <3>6, <3>7
    <3> QED BY <3>8 DEF cs
  <2>5. Rays <= n * size
    <3> DEFINE ns == n * size
    <3>1. ns \in Nat /\ a < ns + size
      BY <2>3
    <3> HIDE DEF ns
    <3>2. Rays <= ns
      BY <1>1, <2>1, <3>1
    <3> QED BY <3>2 DEF ns
  <2> QED BY <2>4, <2>5
<1>13. InChunks(results, Run, bundle, field[bundle], size, n)
  <2> HIDE DEF size, n
  <2> QED BY <1>1, <1>5, <1>11, <1>12 DEF InChunks
<1> QED BY <1>5, <1>13 DEF results

(* What the reduction reads off the results of a bundle.                     *)
LEMMA ReduceReads ==
  ASSUME Inv, Reduce
  PROVE  /\ \A c \in Counters :
              /\ IsFiniteSet(Tally(c, motions, stock, bundle, Ray, lo, hi))
              /\ Merged(Ordered(out))[c] = Cardinality(Tally(c, motions, stock, bundle, Ray, lo, hi))
         /\ \A k \in lo .. hi :
              Replayed(Contributed(Ordered(out)), k - lo + 1, 0) = RemovedBy(motions, stock, bundle, k)
<1> USE DEF Inv
<1>1. pc = "workers" /\ AllHandedIn
  BY JoinedIsComplete DEF Reduce
<1>2. Follows(Run, bundle, field[bundle], motions, stock, lo, hi)
  BY <1>1, RunFollows
<1>3. /\ Ordered(out) \in Seq(Results)
      /\ InChunks(Ordered(out), Run, bundle, field[bundle], ChunkSize, Chunks)
  BY <1>1, OrderedIsInChunks
<1>4. \A c \in Counters :
        /\ IsFiniteSet(Tally(c, motions, stock, bundle, Ray, lo, hi))
        /\ Merged(Ordered(out))[c] = Cardinality(Tally(c, motions, stock, bundle, Ray, lo, hi))
  BY <1>2, <1>3, BundleCounts
<1>5. ASSUME NEW k \in lo .. hi
      PROVE  Replayed(Contributed(Ordered(out)), k - lo + 1, 0) = RemovedBy(motions, stock, bundle, k)
  <2>1. lo \in Int /\ hi \in Int /\ Len(Run) = hi - lo + 1
    BY <1>2 DEF Follows
  <2> DEFINE j == k - lo + 1
  <2>2. j \in 1 .. Len(Run) /\ lo - 1 + j = k
    BY <2>1
  <2> HIDE DEF j
  <2>3. Replayed(Contributed(Ordered(out)), j, 0) = RemovedBy(motions, stock, bundle, lo - 1 + j)
    BY <1>2, <1>3, <2>2, BundleReplays
  <2> QED BY <2>2, <2>3 DEF j
<1> QED BY <1>4, <1>5
-----------------------------------------------------------------------------
(* The totals.                                                               *)

\* The offers of the motions cut so far that count for a counter.
Counted(c) ==
  {o \in Offers(motions) : o[3] <= CutUpTo(o[1]) /\ Counts(c, motions, stock, o)}

\* The counters and the volumes are those of the motions cut so far.
Totalled ==
  /\ \A c \in Counters : IsFiniteSet(Counted(c)) /\ total.stats[c] = Cardinality(Counted(c))
  /\ removed = [k \in DOMAIN motions |->
                  [b \in Bundle |-> IF k <= CutUpTo(b) THEN RemovedBy(motions, stock, b, k) ELSE 0]]
  /\ pc = "done" => total.volume = SequentialVolume(motions, stock)

(* Nothing accumulated is nothing.                                           *)
LEMMA EmptySum == FSum(<<>>) = 0
<1> DEFINE D == DOMAIN <<>>
           iter == CHOOSE h : h = [s \in SUBSET D |->
                     IF s = {} THEN 0
                     ELSE FAdd(h[s \ {Max(s)}], <<>>[Max(s)])]
<1>1. D = {}
  OBVIOUS
<1>2. \E h : h = [s \in SUBSET {} |-> IF s = {} THEN 0 ELSE FAdd(h[s \ {Max(s)}], <<>>[Max(s)])]
  <2> DEFINE h == [s \in SUBSET {} |-> 0]
  <2>1. \A s \in SUBSET {} : s = {}
    OBVIOUS
  <2>2. h = [s \in SUBSET {} |-> IF s = {} THEN 0 ELSE FAdd(h[s \ {Max(s)}], <<>>[Max(s)])]
    BY <2>1
  <2> HIDE DEF h
  <2> QED BY <2>2
<1> QED BY <1>1, <1>2 DEF FSum, FoldLeft, MapThenFoldSet

(* The totals are right at first ...                                        *)
LEMMA InitTotals == Init => Totalled
<1> SUFFICES ASSUME Init PROVE Totalled
  OBVIOUS
<1>1. motions \in Seq(Motions) /\ lo = 1 /\ bundle = 1 /\ Len(motions) \in Nat
  BY ParallelAssumption DEF Init
<1>2. ASSUME NEW b \in Bundle PROVE CutUpTo(b) = 0
  <2>1. ~(b < bundle)
    BY <1>1, CuttingAssumption DEF Bundle
  <2>2. pc = "done" => Len(motions) = 0
    BY <1>1 DEF Init
  <2> QED BY <1>1, <2>1, <2>2 DEF CutUpTo
<1>3. ASSUME NEW c \in Counters
      PROVE  IsFiniteSet(Counted(c)) /\ total.stats[c] = Cardinality(Counted(c))
  <2>1. \A o \in Offers(motions) : o[1] \in Bundle /\ o[3] \in 1 .. Len(motions)
    BY DEF Offers
  <2>2. \A o \in Offers(motions) : ~(o[3] <= CutUpTo(o[1]))
    BY <1>1, <1>2, <2>1
  <2>3. Counted(c) = {}
    BY <2>2 DEF Counted
  <2>4. total.stats[c] = 0
    BY DEF Init, NoCounters
  <2> QED BY <2>3, <2>4, FS_EmptySet
<1>4. removed = [k \in DOMAIN motions |->
                   [b \in Bundle |-> IF k <= CutUpTo(b) THEN RemovedBy(motions, stock, b, k) ELSE 0]]
  <2>1. ASSUME NEW k \in DOMAIN motions, NEW b \in Bundle PROVE ~(k <= CutUpTo(b))
    BY <1>1, <1>2
  <2>2. \A k \in DOMAIN motions :
          [b \in Bundle |-> 0]
            = [b \in Bundle |-> IF k <= CutUpTo(b) THEN RemovedBy(motions, stock, b, k) ELSE 0]
    BY <2>1
  <2> QED BY <2>2 DEF Init
<1>5. ASSUME pc = "done" PROVE total.volume = SequentialVolume(motions, stock)
  <2>1. Len(motions) = 0
    BY <1>1, <1>5 DEF Init
  <2> DEFINE volumes(b) == [k \in 1 .. Len(motions) |-> RemovedBy(motions, stock, b, k)]
  <2>2. ASSUME NEW b \in Bundle PROVE volumes(b) = <<>>
    BY <2>1
  <2> HIDE DEF volumes
  <2>3. \A b \in Bundle : FSum(volumes(b)) = 0
    BY <2>2, EmptySum
  <2>4. SequentialVolume(motions, stock) = [b \in Bundle |-> FSum(volumes(b))]
    BY DEF SequentialVolume, volumes
  <2>5. total.volume = [b \in Bundle |-> 0]
    BY DEF Init
  <2> QED BY <2>3, <2>4, <2>5
<1> QED BY <1>3, <1>4, <1>5 DEF Totalled

\* A step that neither reduces nor ends leaves the totals and what is cut alone.
LEMMA TotalsUntouched ==
  ASSUME Totalled, UNCHANGED <<motions, stock, schedule, lo, bundle, total, removed>>,
         (pc = "done") = (pc' = "done")
  PROVE  Totalled'
<1>1. hi' = hi
  BY DEF hi, BatchSize
<1>2. \A b : CutUpTo(b)' = CutUpTo(b)
  BY <1>1 DEF CutUpTo
<1>3. \A c \in Counters : Counted(c)' = Counted(c)
  BY <1>2 DEF Counted
<1> QED BY <1>2, <1>3 DEF Totalled

(* The reduction adds the offers of its run and bundle, and their volumes.   *)
LEMMA ReduceTotals ==
  ASSUME Inv, Totalled, Reduce
  PROVE  Totalled'
<1> DEFINE ends == bundle = Bundles /\ hi = Len(motions)
           results == Ordered(out)
           T(c) == Tally(c, motions, stock, bundle, Ray, lo, hi)
           V(b, k) == RemovedBy(motions, stock, b, k)
<1>0. /\ UNCHANGED <<motions, stock, schedule>> /\ pc = "workers" /\ TypeOK
      /\ pc' = IF ends THEN "done" ELSE "bundle"
      /\ removed' = [k \in DOMAIN removed |->
              IF k \in lo .. hi
              THEN [removed[k] EXCEPT
                      ![bundle] = Replayed(Contributed(results), k - lo + 1, @)]
              ELSE removed[k]]
      /\ total' = [stats |-> [c \in Counters |-> total.stats[c] + Merged(results)[c]],
                      volume |-> IF ends
                                 THEN [b \in Bundle |->
                                         FSum([k \in DOMAIN motions |-> removed'[k][b]])]
                                 ELSE total.volume]
  BY DEF Reduce, Inv
<1>1. /\ motions \in Seq(Motions) /\ bundle \in Bundle /\ DOMAIN motions = 1 .. Len(motions)
      /\ lo \in 1 .. Len(motions) /\ hi \in lo .. Len(motions) /\ Len(motions) \in Nat
      /\ \A b \in Bundle : b \in Int
  BY <1>0, RunBetween DEF TypeOK, Bundle
<1>2. \A b \in Bundle : /\ CutUpTo(b) = IF b < bundle THEN hi ELSE lo - 1
                        /\ CutUpTo(b)' = IF b <= bundle THEN hi ELSE lo - 1
  BY <1>0, ReduceCutsOn
<1>3. /\ \A c \in Counters : IsFiniteSet(T(c)) /\ Merged(results)[c] = Cardinality(T(c))
      /\ \A k \in lo .. hi : Replayed(Contributed(results), k - lo + 1, 0) = V(bundle, k)
  BY ReduceReads
<1>4. ASSUME NEW b \in Bundle, NEW k \in 1 .. Len(motions)
      PROVE  /\ (k <= CutUpTo(b)') <=> k <= CutUpTo(b) \/ (b = bundle /\ k \in lo .. hi)
             /\ ~(k <= CutUpTo(b) /\ b = bundle /\ k \in lo .. hi)
  <2>1. b < bundle \/ b = bundle \/ b > bundle
    BY <1>1
  <2> QED BY <1>1, <1>2, <2>1
<1> HIDE DEF results
<1>5. ASSUME NEW c \in Counters
      PROVE  IsFiniteSet(Counted(c)') /\ total'.stats[c] = Cardinality(Counted(c)')
  <2> DEFINE old == Counted(c)
             more == T(c)
             C(o) == Counts(c, motions, stock, o)
             O == Offers(motions)
             New(o) == o[1] = bundle /\ o[3] \in lo .. hi
  <2>1. \A o \in O : o[1] \in Bundle /\ o[3] \in 1 .. Len(motions)
    BY DEF Offers
  <2>2. Counted(c)' = {o \in O : o[3] <= CutUpTo(o[1])' /\ C(o)}
    BY <1>0 DEF Counted, Offers
  <2>3. more = {o \in O : New(o) /\ C(o)}
    <3>1. \A o \in O : New(o) <=> o \in {bundle} \X Ray \X (lo .. hi)
      BY <1>1 DEF Offers
    <3>2. {bundle} \X Ray \X (lo .. hi) \subseteq O
      <4>1. lo .. hi \subseteq 1 .. Len(motions)
        BY <1>1
      <4> QED BY <1>1, <4>1 DEF Offers
    <3> QED BY <3>1, <3>2 DEF Tally
  <2>4. old = {o \in O : o[3] <= CutUpTo(o[1]) /\ C(o)}
    BY DEF Counted
  <2> HIDE DEF old, more, C, O
  <2>5. Counted(c)' = old \union more /\ old \cap more = {}
    BY <1>4, <2>1, <2>2, <2>3, <2>4
  <2>6. IsFiniteSet(old) /\ IsFiniteSet(more) /\ total.stats[c] = Cardinality(old)
        /\ Merged(results)[c] = Cardinality(more)
    BY <1>3 DEF Totalled, old, more
  <2>7. IsFiniteSet(old \union more) /\ Cardinality(old \union more) = Cardinality(old) + Cardinality(more)
    <3>1. /\ IsFiniteSet(old \union more)
          /\ Cardinality(old \union more)
               = Cardinality(old) + Cardinality(more) - Cardinality(old \cap more)
      BY <2>6, FS_Union
    <3>2. Cardinality(old \cap more) = 0
      BY <2>5, FS_EmptySet
    <3>3. Cardinality(old) \in Nat /\ Cardinality(more) \in Nat
      BY <2>6, FS_CardinalityType
    <3> QED BY <3>1, <3>2, <3>3
  <2>8. total'.stats[c] = total.stats[c] + Merged(results)[c]
    BY <1>0
  <2> QED BY <2>5, <2>6, <2>7, <2>8
<1>6. /\ DOMAIN removed = DOMAIN motions
      /\ \A k \in DOMAIN motions :
           removed[k] = [b \in Bundle |-> IF k <= CutUpTo(b) THEN V(b, k) ELSE 0]
  <2>1. removed = [k \in DOMAIN motions |->
                     [b \in Bundle |-> IF k <= CutUpTo(b) THEN V(b, k) ELSE 0]]
    BY DEF Totalled
  <2> HIDE DEF V
  <2> QED BY <2>1
<1> HIDE DEF V, ends
<1>7. ASSUME NEW k \in DOMAIN motions
      PROVE  removed'[k] = [b \in Bundle |-> IF k <= CutUpTo(b)' THEN V(b, k) ELSE 0]
  <2>1. k \in 1 .. Len(motions)
    BY <1>1
  <2>2. CASE k \in lo .. hi
    <3>1. /\ ~(k <= CutUpTo(bundle))
          /\ \A b \in Bundle : b = bundle => k <= CutUpTo(b)'
      BY <1>1, <1>4, <2>1, <2>2
    <3>2. removed[k][bundle] = 0
      BY <1>1, <1>6, <3>1
    <3>3. removed'[k] = [removed[k] EXCEPT
                           ![bundle] = Replayed(Contributed(results), k - lo + 1, removed[k][bundle])]
      BY <1>0, <1>6, <2>2
    <3>4. removed'[k] = [removed[k] EXCEPT ![bundle] = V(bundle, k)]
      BY <1>3, <2>2, <3>2, <3>3
    <3>5. \A b \in Bundle : b # bundle => ((k <= CutUpTo(b)') <=> k <= CutUpTo(b))
      BY <1>4, <2>1
    <3>6. removed[k] = [b \in Bundle |-> IF k <= CutUpTo(b) THEN V(b, k) ELSE 0]
      BY <1>6
    <3>7. removed'[k] = [b \in Bundle |-> IF b = bundle THEN V(bundle, k) ELSE removed[k][b]]
      BY <3>4, <3>6
    <3>8. \A b \in Bundle : (IF b = bundle THEN V(bundle, k) ELSE removed[k][b])
                             = IF k <= CutUpTo(b)' THEN V(b, k) ELSE 0
      BY <3>1, <3>5, <3>6
    <3> QED BY <3>7, <3>8
  <2>3. CASE k \notin lo .. hi
    <3>1. removed'[k] = removed[k]
      BY <1>0, <1>6, <2>3
    <3>2. \A b \in Bundle : (k <= CutUpTo(b)') <=> k <= CutUpTo(b)
      BY <1>4, <2>1, <2>3
    <3> QED BY <1>6, <3>1, <3>2
  <2> QED BY <2>2, <2>3
<1>8. removed' = [k \in DOMAIN motions' |->
                    [b \in Bundle |-> IF k <= CutUpTo(b)' THEN RemovedBy(motions', stock', b, k) ELSE 0]]
  <2>1. removed' = [k \in DOMAIN removed |-> removed'[k]]
    BY <1>0
  <2>2. removed' = [k \in DOMAIN motions |-> removed'[k]]
    BY <1>6, <2>1
  <2>3. removed' = [k \in DOMAIN motions |->
                      [b \in Bundle |-> IF k <= CutUpTo(b)' THEN V(b, k) ELSE 0]]
    BY <1>7, <2>2
  <2> QED BY <1>0, <2>3 DEF V
<1>9. ASSUME pc' = "done" PROVE total'.volume = SequentialVolume(motions, stock)
  <2>1. ends
    BY <1>0, <1>9
  <2>2. \A b \in Bundle : CutUpTo(b)' = Len(motions)
    BY <1>0, <1>9 DEF CutUpTo
  <2>3. total'.volume = [b \in Bundle |-> FSum([k \in DOMAIN motions |-> removed'[k][b]])]
    BY <1>0, <2>1
  <2>4. ASSUME NEW b \in Bundle
        PROVE  [k \in DOMAIN motions |-> removed'[k][b]] = [k \in 1 .. Len(motions) |-> V(b, k)]
    <3>1. ASSUME NEW k \in 1 .. Len(motions) PROVE removed'[k][b] = V(b, k)
      <4>1. removed'[k] = [a \in Bundle |-> IF k <= CutUpTo(a)' THEN V(a, k) ELSE 0]
        BY <1>1, <1>7
      <4>2. k <= CutUpTo(b)'
        BY <1>1, <2>2
      <4> QED BY <4>1, <4>2
    <3> QED BY <1>1, <3>1
  <2>5. total'.volume = [b \in Bundle |-> FSum([k \in 1 .. Len(motions) |-> V(b, k)])]
    BY <2>3, <2>4
  <2> QED BY <2>5 DEF SequentialVolume, V
<1>10. Totalled' <=>
         /\ \A c \in Counters : IsFiniteSet(Counted(c)') /\ total'.stats[c] = Cardinality(Counted(c)')
         /\ removed' = [k \in DOMAIN motions' |->
              [b \in Bundle |-> IF k <= CutUpTo(b)' THEN RemovedBy(motions', stock', b, k) ELSE 0]]
         /\ pc' = "done" => total'.volume = SequentialVolume(motions', stock')
  BY DEF Totalled
<1> QED BY <1>0, <1>5, <1>8, <1>9, <1>10

(* Once everything has been cut, what is counted is what cutting one motion   *)
(* at a time counts.                                                         *)
LEMMA TotalledIsSequential == TypeOK /\ Totalled => TotalsAreSequential
<1> SUFFICES ASSUME TypeOK, Totalled, pc = "done"
             PROVE  /\ \A c \in Counters : total.stats[c] = SequentialCounters(motions, stock)[c]
                    /\ total.volume = SequentialVolume(motions, stock)
  BY DEF TotalsAreSequential
<1> DEFINE O == Offers(motions)
           tested == {o \in O : IsTested(motions, stock, o[1], o[2], o[3])}
           changed == {o \in O : IsChanged(motions, stock, o[1], o[2], o[3])}
           seq == SequentialCounters(motions, stock)
<1>1. \A o \in O : o[3] <= CutUpTo(o[1])
  <2>1. \A o \in O : o[3] \in 1 .. Len(motions) /\ CutUpTo(o[1]) = Len(motions)
    BY DEF Offers, CutUpTo
  <2>2. Len(motions) \in Nat
    BY DEF TypeOK
  <2> QED BY <2>1, <2>2
<1>2. ASSUME NEW c \in Counters PROVE Counted(c) = {o \in O : Counts(c, motions, stock, o)}
  BY <1>1 DEF Counted
<1>3. /\ Counted("tested") = tested /\ Counted("changed") = changed
      /\ Counted("rejected") = O \ tested
  BY <1>2 DEF Counts, CountsFor, Counters
<1>4. seq["tested"] = Cardinality(tested) /\ seq["changed"] = Cardinality(changed)
      /\ seq["rejected"] = Cardinality(O) - Cardinality(tested)
  BY DEF SequentialCounters
<1>5. /\ IsFiniteSet(tested) /\ IsFiniteSet(O \ tested)
      /\ total.stats["tested"] = Cardinality(tested)
      /\ total.stats["changed"] = Cardinality(changed)
      /\ total.stats["rejected"] = Cardinality(O \ tested)
  BY <1>3 DEF Totalled, Counters
<1>6. Cardinality(O \ tested) = Cardinality(O) - Cardinality(tested)
  <2> HIDE DEF O
  <2> DEFINE rest == O \ tested
  <2>1. tested \union rest = O /\ tested \cap rest = {}
    OBVIOUS
  <2>2. IsFiniteSet(tested) /\ IsFiniteSet(rest)
    BY <1>5
  <2> HIDE DEF tested, rest
  <2>3. Cardinality(tested \union rest)
          = Cardinality(tested) + Cardinality(rest) - Cardinality(tested \cap rest)
    BY <2>2, FS_Union
  <2>4. Cardinality(tested) \in Nat /\ Cardinality(rest) \in Nat /\ Cardinality({}) = 0
    BY <2>2, FS_CardinalityType, FS_EmptySet
  <2>5. Cardinality(O) = Cardinality(tested) + Cardinality(rest) - Cardinality({})
    BY <2>1, <2>3
  <2> DEFINE a == Cardinality(tested)
             z == Cardinality(rest)
             all == Cardinality(O)
  <2>6. a \in Nat /\ z \in Nat /\ all = a + z - 0
    BY <2>4, <2>5
  <2> HIDE DEF a, z, all
  <2>7. z = all - a
    BY <2>6
  <2> QED BY <2>7 DEF rest, a, z, all
<1>7. total.volume = SequentialVolume(motions, stock)
  BY DEF Totalled
<1> QED BY <1>4, <1>5, <1>6, <1>7 DEF Counters

(* ... and after every step.                                                *)
LEMMA TotalsKept == Inv /\ Totalled /\ [Next]_vars => Totalled'
<1> SUFFICES ASSUME Inv, Totalled, [Next]_vars PROVE Totalled'
  OBVIOUS
<1>1. CASE StartBundle
  BY <1>1, TotalsUntouched DEF StartBundle
<1>2. CASE \E w \in DOMAIN worker : Claim(w) \/ RunChunk(w) \/ Flush(w)
  <2>1. PICK w \in DOMAIN worker : Claim(w) \/ RunChunk(w) \/ Flush(w)
    BY <1>2
  <2>2. UNCHANGED <<motions, stock, schedule, lo, bundle, total, removed, pc>>
    BY <2>1 DEF Claim, RunChunk, Flush
  <2> QED BY <2>2, TotalsUntouched
<1>3. CASE Reduce
  BY <1>3, ReduceTotals
<1>4. CASE Finished \/ UNCHANGED vars
  BY <1>4, TotalsUntouched DEF Finished, vars
<1> QED BY <1>1, <1>2, <1>3, <1>4 DEF Next

(* cut_all_parallel: the counters and the float volumes of a finished cut    *)
(* are bit for bit those of cutting one motion at a time, whatever the       *)
(* threads, chunks and batches and the order in which they finish: the       *)
(* chunks are put in order, each ray is in one chunk, and every contribution *)
(* is added to its motion's volume ray by ray.                               *)
THEOREM TotalsAreSequentialHolds == Spec => []TotalsAreSequential
<1>1. Init => Inv /\ Totalled
  BY InitHolds, InitTotals
<1>2. Inv /\ Totalled /\ [Next]_vars => (Inv /\ Totalled)'
  BY NextKeeps, TotalsKept
<1>3. Inv /\ Totalled => TotalsAreSequential
  BY TotalledIsSequential DEF Inv
<1> QED BY <1>1, <1>2, <1>3, PTL DEF Spec

-----------------------------------------------------------------------------
(* Parts of a motion list.                                                   *)

(* Relabelled one to one, a set keeps its size.                              *)
LEMMA Relabelled ==
  ASSUME NEW S, IsFiniteSet(S), NEW T, NEW F \in [S -> T],
         \A x, y \in S : F[x] = F[y] => x = y, \A t \in T : \E s \in S : F[s] = t
  PROVE  IsFiniteSet(T) /\ Cardinality(T) = Cardinality(S)
<1>1. F \in Bijection(S, T)
  BY DEF Bijection, Injection, IsInjective, Surjection
<1> QED BY <1>1, FS_Bijection DEF ExistsBijection

(* Two sets without a common element.                                        *)
LEMMA Disjointly ==
  ASSUME NEW S, NEW T, IsFiniteSet(S), IsFiniteSet(T), S \cap T = {}
  PROVE  IsFiniteSet(S \union T) /\ Cardinality(S \union T) = Cardinality(S) + Cardinality(T)
<1>1. /\ IsFiniteSet(S \union T)
      /\ Cardinality(S \union T) = Cardinality(S) + Cardinality(T) - Cardinality(S \cap T)
  BY FS_Union
<1>2. Cardinality(S) \in Nat /\ Cardinality(T) \in Nat /\ Cardinality(S \cap T) = 0
  BY FS_CardinalityType, FS_EmptySet
<1> QED BY <1>1, <1>2

(* A motion list makes finitely many offers.                                 *)
LEMMA OffersAreFinite ==
  ASSUME NEW ms, Len(ms) \in Nat
  PROVE  IsFiniteSet(Offers(ms))
<1> DEFINE S == (Bundle \X Ray) \X (1 .. Len(ms))
           F == [p \in S |-> <<p[1][1], p[1][2], p[2]>>]
<1>1. IsFiniteSet(S)
  <2>1. IsFiniteSet(1 .. Bundles) /\ IsFiniteSet(0 .. Rays - 1) /\ IsFiniteSet(1 .. Len(ms))
    BY CuttingAssumption, FS_Interval
  <2>2. IsFiniteSet(Bundle \X Ray)
    BY <2>1, FS_Product DEF Bundle, Ray
  <2> QED BY <2>1, <2>2, FS_Product
<1>2. F \in [S -> Offers(ms)]
  BY DEF Offers
<1>3. \A x, y \in S : F[x] = F[y] => x = y
  OBVIOUS
<1>4. ASSUME NEW o \in Offers(ms) PROVE \E s \in S : F[s] = o
  <2>1. o[1] \in Bundle /\ o[2] \in Ray /\ o[3] \in 1 .. Len(ms) /\ o = <<o[1], o[2], o[3]>>
    BY DEF Offers
  <2> DEFINE s == <<<<o[1], o[2]>>, o[3]>>
  <2>2. s \in S /\ F[s] = o
    BY <2>1
  <2> QED BY <2>2
<1> HIDE DEF S, F
<1> QED BY <1>1, <1>2, <1>3, <1>4, Relabelled

\* The offers of a motion list that count for a counter.
Counting(c, ms, f) == {o \in Offers(ms) : Counts(c, ms, f, o)}

(* SequentialCounters counts them.                                           *)
LEMMA CountersCount ==
  ASSUME NEW ms, NEW f, Len(ms) \in Nat, NEW c \in Counters
  PROVE  /\ IsFiniteSet(Counting(c, ms, f))
         /\ SequentialCounters(ms, f)[c] = Cardinality(Counting(c, ms, f))
<1> DEFINE O == Offers(ms)
           tested == {o \in O : IsTested(ms, f, o[1], o[2], o[3])}
           changed == {o \in O : IsChanged(ms, f, o[1], o[2], o[3])}
           seq == SequentialCounters(ms, f)
<1>1. IsFiniteSet(O)
  BY OffersAreFinite
<1>2. /\ seq["tested"] = Cardinality(tested) /\ seq["changed"] = Cardinality(changed)
      /\ seq["rejected"] = Cardinality(O) - Cardinality(tested)
  BY DEF SequentialCounters
<1>3. IsFiniteSet(Counting(c, ms, f))
  BY <1>1, FS_Subset DEF Counting
<1>4. /\ Counting("tested", ms, f) = tested /\ Counting("changed", ms, f) = changed
      /\ Counting("rejected", ms, f) = O \ tested
  BY DEF Counting, Counts, CountsFor
<1>5. Cardinality(O \ tested) = Cardinality(O) - Cardinality(tested)
  <2>1. O \cap tested = tested
    OBVIOUS
  <2> HIDE DEF O, tested
  <2> QED BY <1>1, <2>1, FS_Difference
<1> QED BY <1>2, <1>3, <1>4, <1>5 DEF Counters

\* A part of a motion list, and a field that ray r of bundle b is as the motions
\* before the part leave it.
Part(part, g, b, r, ms, f, low, high) ==
  /\ ms \in Seq(Motions) /\ f \in Fields /\ part \in Seq(Motions) /\ g \in Fields
  /\ b \in Bundle /\ r \in Ray
  /\ low \in Nat \ {0} /\ high \in Nat /\ high <= Len(ms) /\ low <= high + 1
  /\ Len(part) = high - low + 1
  /\ \A k \in 1 .. Len(part) : part[k] = ms[low - 1 + k]
  /\ g[b][r] = MaterialAfter(ms, f, b, r)[low - 1]

(* The part leaves of the ray what the motions up to its end leave.          *)
LEMMA PartLeaves ==
  ASSUME NEW part, NEW g, NEW b, NEW r, NEW ms, NEW f, NEW low, NEW high,
         Part(part, g, b, r, ms, f, low, high)
  PROVE  \A k \in 0 .. Len(part) :
           MaterialAfter(part, g, b, r)[k] = MaterialAfter(ms, f, b, r)[low - 1 + k]
<1> DEFINE A == MaterialAfter(part, g, b, r)
           M == MaterialAfter(ms, f, b, r)
           n == Len(part)
           N == Len(ms)
           T == {k \in 0 .. n : A[k] = M[low - 1 + k]}
<1>0. /\ part \in Seq(Motions) /\ ms \in Seq(Motions) /\ f \in Fields /\ g \in Fields
      /\ b \in Bundle /\ r \in Ray
  BY DEF Part
<1>1. A[0] = g[b][r] /\ \A k \in 1 .. n : A[k] = A[k - 1] \ part[k].swept[b][r]
  BY <1>0, MaterialSteps
<1>2. \A k \in 1 .. N : M[k] = M[k - 1] \ ms[k].swept[b][r]
  BY <1>0, MaterialSteps
<1>3. /\ n \in Nat /\ low \in Nat \ {0} /\ high \in Nat /\ high <= N /\ n = high - low + 1
      /\ N \in Nat
      /\ \A k \in 1 .. n : part[k] = ms[low - 1 + k]
      /\ g[b][r] = M[low - 1]
  BY DEF Part
<1> HIDE DEF A, M, n, N
<1>4. 0 \in T
  BY <1>1, <1>3
<1>5. ASSUME NEW k \in 0 .. n - 1, k \in T PROVE k + 1 \in T
  <2>0. k \in Nat /\ k <= n - 1
    BY <1>3
  <2> HIDE DEF T
  <2>1. /\ k + 1 \in 1 .. n /\ k + 1 \in 0 .. n /\ (k + 1) - 1 = k
        /\ low - 1 + (k + 1) = low + k /\ low + k - 1 = low - 1 + k
    BY <2>0, <1>3
  <2>6. low + k \in 1 .. N
    BY <1>3
  <2>2. A[k + 1] = A[k] \ part[k + 1].swept[b][r]
    BY <1>1, <2>1
  <2>3. M[low + k] = M[low - 1 + k] \ ms[low + k].swept[b][r]
    <3> DEFINE j == low + k
    <3>2. j \in 1 .. N
      BY <2>6
    <3> HIDE DEF j
    <3>3. M[j] = M[j - 1] \ ms[j].swept[b][r]
      BY <1>2, <3>2
    <3>1. M[low + k] = M[low + k - 1] \ ms[low + k].swept[b][r]
      BY <1>3, <2>0, <3>3 DEF j
    <3> QED BY <2>1, <3>1
  <2>4. part[k + 1] = ms[low + k]
    BY <1>3, <2>1
  <2>5. A[k] = M[low - 1 + k]
    BY <1>5 DEF T
  <2> QED BY <2>1, <2>2, <2>3, <2>4, <2>5 DEF T
<1>6. \A k \in 0 .. n : k \in T
  <2> HIDE DEF T
  <2> QED BY <1>3, <1>4, <1>5, Induction
<1> QED BY <1>6 DEF A, M, n

\* Motion k of one list finds of the ray what motion m of another does.
Alike(part, g, b, r, k, ms, f, m) ==
  /\ IsTested(part, g, b, r, k) <=> IsTested(ms, f, b, r, m)
  /\ CutBy(part, g, b, r, k) = CutBy(ms, f, b, r, m)
  /\ IsChanged(part, g, b, r, k) <=> IsChanged(ms, f, b, r, m)
  /\ \A c : Counts(c, part, g, <<b, r, k>>) <=> Counts(c, ms, f, <<b, r, m>>)

(* So each motion of the part finds of it what it finds in the whole list.   *)
LEMMA PartOffers ==
  ASSUME NEW part, NEW g, NEW b, NEW r, NEW ms, NEW f, NEW low, NEW high,
         Part(part, g, b, r, ms, f, low, high), NEW k \in 1 .. Len(part)
  PROVE  Alike(part, g, b, r, k, ms, f, low - 1 + k)
<1> DEFINE m == low - 1 + k
<1>0. low \in Nat /\ Len(part) \in Nat
  BY DEF Part
<1>1. part[k] = ms[m] /\ k - 1 \in 0 .. Len(part) /\ low - 1 + (k - 1) = m - 1
  <2>1. part[k] = ms[m]
    BY DEF Part
  <2> QED BY <1>0, <2>1
<1>2. MaterialAfter(part, g, b, r)[k - 1] = MaterialAfter(ms, f, b, r)[m - 1]
  BY <1>1, PartLeaves
<1> HIDE DEF m
<1>3. /\ IsTested(part, g, b, r, k) <=> IsTested(ms, f, b, r, m)
      /\ CutBy(part, g, b, r, k) = CutBy(ms, f, b, r, m)
  BY <1>1, <1>2 DEF IsTested, CutBy
<1>4. IsChanged(part, g, b, r, k) <=> IsChanged(ms, f, b, r, m)
  BY <1>3 DEF IsChanged
<1>5. \A c : Counts(c, part, g, <<b, r, k>>) <=> Counts(c, ms, f, <<b, r, m>>)
  <2> SUFFICES ASSUME NEW c
               PROVE  Counts(c, part, g, <<b, r, k>>) <=> Counts(c, ms, f, <<b, r, m>>)
    OBVIOUS
  <2>1. Counts(c, part, g, <<b, r, k>>)
          <=> CountsFor(c, IsTested(part, g, b, r, k), IsChanged(part, g, b, r, k))
    BY DEF Counts
  <2>2. Counts(c, ms, f, <<b, r, m>>)
          <=> CountsFor(c, IsTested(ms, f, b, r, m), IsChanged(ms, f, b, r, m))
    BY DEF Counts
  <2> QED BY <1>3, <1>4, <2>1, <2>2 DEF CountsFor
<1> QED BY <1>3, <1>4, <1>5 DEF m, Alike

\* A field that every ray of is as the motions before the part leave it.
WholePart(part, g, ms, f, low, high) ==
  \A b \in Bundle, r \in Ray : Part(part, g, b, r, ms, f, low, high)

\* The offers to motions low .. high of the list that count for a counter.
CountingIn(c, ms, f, low, high) ==
  {o \in Offers(ms) : o[3] \in low .. high /\ Counts(c, ms, f, o)}

(* What cutting the part counts is what its motions count in the whole list. *)
LEMMA PartCounts ==
  ASSUME NEW part, NEW g, NEW ms, NEW f, NEW low \in Int, NEW high \in Int,
         Len(part) \in Nat, Len(ms) \in Nat, 1 <= low, high <= Len(ms), Len(part) = high - low + 1,
         WholePart(part, g, ms, f, low, high), NEW c \in Counters
  PROVE  /\ IsFiniteSet(CountingIn(c, ms, f, low, high))
         /\ SequentialCounters(part, g)[c] = Cardinality(CountingIn(c, ms, f, low, high))
<1> DEFINE S == Counting(c, part, g)
           T == CountingIn(c, ms, f, low, high)
           F == [o \in S |-> <<o[1], o[2], low - 1 + o[3]>>]
<1>1. IsFiniteSet(S) /\ SequentialCounters(part, g)[c] = Cardinality(S)
  BY CountersCount
<1>2. ASSUME NEW b \in Bundle, NEW r \in Ray, NEW k \in 1 .. Len(part)
      PROVE  Counts(c, part, g, <<b, r, k>>) <=> Counts(c, ms, f, <<b, r, low - 1 + k>>)
  <2>1. Part(part, g, b, r, ms, f, low, high)
    BY DEF WholePart
  <2> QED BY <2>1, PartOffers DEF Alike
<1>3. ASSUME NEW o \in S PROVE F[o] \in T
  <2>1. /\ o[1] \in Bundle /\ o[2] \in Ray /\ o[3] \in 1 .. Len(part) /\ o = <<o[1], o[2], o[3]>>
        /\ Counts(c, part, g, o)
    BY DEF Counting, Offers
  <2>2. low - 1 + o[3] \in low .. high /\ low - 1 + o[3] \in 1 .. Len(ms)
    BY <2>1
  <2>3. Counts(c, ms, f, <<o[1], o[2], low - 1 + o[3]>>)
    BY <1>2, <2>1
  <2> QED BY <2>1, <2>2, <2>3 DEF CountingIn, Offers
<1>4. F \in [S -> T]
  <2> HIDE DEF T, S
  <2> QED BY <1>3
<1>5. \A x, y \in S : F[x] = F[y] => x = y
  <2>1. \A o \in S : o = <<o[1], o[2], o[3]>> /\ o[3] \in Int
    BY DEF Counting, Offers
  <2> HIDE DEF S
  <2> QED BY <2>1
<1>6. ASSUME NEW t \in T PROVE \E s \in S : F[s] = t
  <2>1. /\ t[1] \in Bundle /\ t[2] \in Ray /\ t[3] \in low .. high /\ t = <<t[1], t[2], t[3]>>
        /\ Counts(c, ms, f, t)
    BY DEF CountingIn, Offers
  <2> DEFINE k == t[3] - low + 1
             s == <<t[1], t[2], k>>
  <2>2. k \in 1 .. Len(part) /\ low - 1 + k = t[3]
    BY <2>1
  <2> HIDE DEF k
  <2>3. Counts(c, part, g, s)
    BY <1>2, <2>1, <2>2
  <2>4. s \in S
    BY <2>1, <2>2, <2>3 DEF Counting, Offers
  <2>5. F[s] = t
    BY <2>1, <2>2, <2>4
  <2> QED BY <2>4, <2>5
<1> HIDE DEF S, T, F
<1>7. IsFiniteSet(T) /\ Cardinality(T) = Cardinality(S)
  BY <1>1, <1>4, <1>5, <1>6, Relabelled
<1> QED BY <1>1, <1>7 DEF T

(* What one ray of the part counts.                                          *)
LEMMA RayCounts ==
  ASSUME NEW part, NEW g, NEW b, NEW r, NEW ms, NEW f, NEW low, NEW high,
         Part(part, g, b, r, ms, f, low, high), NEW c \in Counters
  PROVE  LET K == {k \in 1 .. Len(part) : Counts(c, part, g, <<b, r, k>>)}
         IN  /\ IsFiniteSet(K) /\ IsFiniteSet(Tally(c, ms, f, b, {r}, low, high))
             /\ Cardinality(Tally(c, ms, f, b, {r}, low, high)) = Cardinality(K)
<1> DEFINE K == {k \in 1 .. Len(part) : Counts(c, part, g, <<b, r, k>>)}
           T == Tally(c, ms, f, b, {r}, low, high)
           F == [k \in K |-> <<b, r, low - 1 + k>>]
<1>1. low \in Int /\ high \in Int /\ Len(part) \in Nat /\ Len(part) = high - low + 1
  BY DEF Part
<1>2. IsFiniteSet(K)
  <2>1. IsFiniteSet(1 .. Len(part))
    BY <1>1, FS_Interval
  <2> QED BY <2>1, FS_Subset
<1>3. \A k \in 1 .. Len(part) :
        Counts(c, part, g, <<b, r, k>>) <=> Counts(c, ms, f, <<b, r, low - 1 + k>>)
  BY PartOffers DEF Alike
<1>4. ASSUME NEW k \in K PROVE F[k] \in T
  <2>1. low - 1 + k \in low .. high
    BY <1>1
  <2> QED BY <1>3, <2>1 DEF Tally
<1>5. F \in [K -> T]
  <2> HIDE DEF T, K
  <2> QED BY <1>4
<1>6. \A x, y \in K : F[x] = F[y] => x = y
  <2>1. \A x \in K : x \in Int
    OBVIOUS
  <2> HIDE DEF K
  <2> QED BY <1>1, <2>1
<1>7. ASSUME NEW t \in T PROVE \E k \in K : F[k] = t
  <2>1. t[3] \in low .. high /\ t = <<b, r, t[3]>> /\ Counts(c, ms, f, t)
    BY DEF Tally
  <2> DEFINE k == t[3] - low + 1
  <2>2. k \in 1 .. Len(part) /\ low - 1 + k = t[3]
    BY <1>1, <2>1
  <2> HIDE DEF k
  <2>3. k \in K
    BY <1>3, <2>1, <2>2
  <2> QED BY <2>1, <2>2, <2>3
<1> HIDE DEF K, T, F
<1>8. IsFiniteSet(T) /\ Cardinality(T) = Cardinality(K)
  BY <1>2, <1>5, <1>6, <1>7, Relabelled
<1> QED BY <1>2, <1>8 DEF K, T

-----------------------------------------------------------------------------
(* The cutting loop of `run`.                                                *)

\* Whether the current run has been through ray r of bundle b.
Gone(b, r) ==
  \/ pc \in {"check", "refused"}
  \/ pc = "cut" /\ (b < at[1] \/ (b = at[1] /\ r < at[2]))

\* How much of the motion list ray r of bundle b has been cut by.
CutTo(b, r) == IF Gone(b, r) THEN upto ELSE lo - 1

\* How many rays of bundle b motion k has been through.
Passed(b, k) ==
  IF k <= CutTo(b, Rays - 1) THEN Rays
  ELSE IF pc = "cut" /\ b = at[1] /\ k \in lo .. upto THEN at[2] ELSE 0

\* The offers made so far that count for a counter.
Offered(c) == {o \in Offers(motions) : o[3] <= CutTo(o[1], o[2]) /\ Counts(c, motions, stock, o)}

\* What the variables are while a run is cut.
DriverTypeOK ==
  /\ motions \in Seq(Motions) /\ stock \in Fields /\ field \in Fields
  /\ args.batch_size \in Nat
  /\ pc \in {"cut", "check", "refused", "sum", "done"}
  /\ lo \in 1 .. Len(motions) + 1
  /\ pc \in {"cut", "check", "refused"} => lo <= Len(motions)
  /\ pc \in {"sum", "done"} => lo = Len(motions) + 1
  /\ at \in Bundle \X Ray
  /\ pc # "cut" \/ args.threads # 1 => at = <<1, 0>>
  /\ totals = [tested |-> totals.tested, rejected |-> totals.rejected,
               changed |-> totals.changed, volume |-> totals.volume]

FieldFollows ==
  \A b \in Bundle, r \in Ray : field[b][r] = MaterialAfter(motions, stock, b, r)[CutTo(b, r)]

CountersFollow ==
  \A c \in Counters : IsFiniteSet(Offered(c)) /\ totals[c] = Cardinality(Offered(c))

\* On one thread the volumes are added up motion by motion, rays ascending.
VolumesFollow ==
  args.threads = 1 =>
    /\ DOMAIN removed = DOMAIN motions
    /\ \A k \in DOMAIN motions : DOMAIN removed[k] = Bundle
    /\ \A k \in DOMAIN motions, b \in Bundle :
         \A sum : RayByRay(sum, motions, stock, b, k) => removed[k][b] = sum[Passed(b, k)]
    /\ totals.volume = IF pc = "done" THEN SequentialVolume(motions, stock)
                       ELSE [b \in Bundle |-> 0]

Driven == pc # "idle" => DriverTypeOK /\ FieldFollows /\ CountersFollow /\ VolumesFollow

(* The current run lies in the motion list and is not empty.                 *)
LEMMA BatchBetween ==
  ASSUME DriverTypeOK, lo <= Len(motions)
  PROVE  /\ upto \in lo .. Len(motions) /\ lo \in Nat \ {0} /\ Len(motions) \in Nat
         /\ Batch \in Seq(Motions) /\ Len(Batch) = upto - lo + 1
         /\ \A k \in 1 .. Len(Batch) : Batch[k] = motions[lo - 1 + k]
<1>1. motions \in Seq(Motions) /\ lo \in 1 .. Len(motions)
  BY DEF DriverTypeOK
<1> DEFINE kinds == [k \in DOMAIN motions |-> <<motions[k].tool, motions[k].exact>>]
           K == Nat \X BOOLEAN
           size == IF args.batch_size = 0 THEN 1 ELSE args.batch_size
<1>2. kinds \in Seq(K) /\ Len(kinds) = Len(motions)
  <2>1. \A k \in DOMAIN motions : motions[k] \in Motions
    BY <1>1
  <2>2. \A k \in DOMAIN motions : motions[k].exact \in BOOLEAN /\ motions[k].tool \in Nat
    BY <2>1 DEF Motions
  <2>3. DOMAIN motions = 1 .. Len(motions) /\ Len(motions) \in Nat
    BY <1>1
  <2>4. kinds \in [1 .. Len(motions) -> K]
    BY <2>2, <2>3
  <2> HIDE DEF kinds, K
  <2> QED BY <2>3, <2>4
<1>3. size \in Nat \ {0}
  BY DEF DriverTypeOK
<1> HIDE DEF K
<1>4. upto \in lo .. Len(motions)
  <2> HIDE DEF kinds, size
  <2>1. RunEnd(kinds, lo, size) \in lo .. Len(kinds)
    BY <1>1, <1>2, <1>3, RunEndBetween
  <2> QED BY <1>2, <2>1 DEF upto, kinds, size
<1> HIDE DEF kinds, size
<1>5. Batch \in Seq(Motions) /\ Len(Batch) = upto - lo + 1
      /\ \A k \in 1 .. Len(Batch) : Batch[k] = motions[lo - 1 + k]
  BY <1>1, <1>4 DEF Batch
<1> QED BY <1>1, <1>4, <1>5

(* A ray the run has not been through is as the motions before it leave it.  *)
LEMMA BatchIsPart ==
  ASSUME DriverTypeOK, FieldFollows, lo <= Len(motions), NEW b \in Bundle, NEW r \in Ray, ~Gone(b, r)
  PROVE  Part(Batch, field, b, r, motions, stock, lo, upto)
<1>1. field[b][r] = MaterialAfter(motions, stock, b, r)[lo - 1]
  BY DEF FieldFollows, CutTo
<1>2. /\ upto \in lo .. Len(motions) /\ lo \in Nat \ {0} /\ Len(motions) \in Nat
      /\ Batch \in Seq(Motions) /\ Len(Batch) = upto - lo + 1
      /\ \A k \in 1 .. Len(Batch) : Batch[k] = motions[lo - 1 + k]
  BY BatchBetween
<1>3. motions \in Seq(Motions) /\ stock \in Fields /\ field \in Fields
  BY DEF DriverTypeOK
<1>4. upto \in Nat /\ upto <= Len(motions) /\ lo <= upto + 1
  BY <1>2
<1> QED BY <1>1, <1>2, <1>3, <1>4 DEF Part

(* The command starts on a motion list.                                      *)
LEMMA BeginDrives ==
  ASSUME NEW list \in Seq(Motions), NEW read \in Fields, NEW given, given.batch_size \in Nat,
         Begin(list, read, given)
  PROVE  Driven'
<1>1. /\ motions' = list /\ stock' = read /\ args' = given /\ field' = read /\ lo' = 1
      /\ at' = <<1, 0>> /\ Len(list) \in Nat /\ DOMAIN list = 1 .. Len(list)
      /\ removed' = [k \in DOMAIN list |-> [b \in Bundle |-> 0]]
      /\ totals' = [tested |-> 0, rejected |-> 0, changed |-> 0,
                    volume |-> [b \in Bundle |-> 0]]
      /\ pc' = IF list = <<>> THEN "sum" ELSE "cut"
  BY DEF Begin
<1>2. 1 \in Bundle /\ 0 \in Ray /\ Rays - 1 \in Ray /\ Rays \in Nat \ {0}
      /\ \A b \in Bundle : ~(b < 1)
      /\ \A r \in Ray : ~(r < 0)
  BY CuttingAssumption, DriverAssumption DEF Bundle, Ray
<1>3. list = <<>> => Len(list) = 0
  OBVIOUS
<1>4. list # <<>> => Len(list) >= 1
  BY <1>1
<1>5. DriverTypeOK'
  <2>1. lo' <= Len(motions') + 1 /\ lo' \in 1 .. Len(motions') + 1
    BY <1>1
  <2>2. pc' \in {"cut", "check", "refused"} => lo' <= Len(motions')
    BY <1>1, <1>4
  <2>3. pc' \in {"sum", "done"} => lo' = Len(motions') + 1
    BY <1>1, <1>3
  <2> QED BY <1>1, <1>2, <2>1, <2>2, <2>3 DEF DriverTypeOK
<1>6. \A b \in Bundle, r \in Ray : CutTo(b, r)' = 0
  BY <1>1, <1>2 DEF CutTo, Gone
<1>7. FieldFollows'
  <2>1. \A b \in Bundle, r \in Ray : MaterialAfter(list, read, b, r)[0] = read[b][r]
    BY MaterialSteps
  <2> QED BY <1>1, <1>6, <2>1 DEF FieldFollows
<1>8. CountersFollow'
  <2>1. ASSUME NEW c \in Counters PROVE Offered(c)' = {}
    <3>1. \A o \in Offers(list) : o[1] \in Bundle /\ o[2] \in Ray /\ o[3] \in 1 .. Len(list)
      BY DEF Offers
    <3>2. \A o \in Offers(list) : ~(o[3] <= CutTo(o[1], o[2])')
      BY <1>1, <1>6, <3>1
    <3> QED BY <1>1, <3>2 DEF Offered
  <2>2. \A c \in Counters : totals'[c] = 0
    BY <1>1 DEF Counters
  <2> QED BY <2>1, <2>2, FS_EmptySet DEF CountersFollow
<1>9. VolumesFollow'
  <2>1. ASSUME NEW k \in DOMAIN list, NEW b \in Bundle PROVE Passed(b, k)' = 0
    <3>1. ~(k <= CutTo(b, Rays - 1)')
      BY <1>1, <1>2, <1>6
    <3> QED BY <1>1, <3>1 DEF Passed
  <2>2. ASSUME NEW k \in DOMAIN list, NEW b \in Bundle, NEW sum, RayByRay(sum, list, read, b, k)
        PROVE  removed'[k][b] = sum[Passed(b, k)']
    BY <1>1, <2>1, <2>2 DEF RayByRay
  <2>3. pc' # "done" /\ totals'.volume = [b \in Bundle |-> 0]
    BY <1>1
  <2>4. DOMAIN removed' = DOMAIN list /\ \A k \in DOMAIN list : DOMAIN removed'[k] = Bundle
    BY <1>1
  <2>5. \A k \in DOMAIN list, b \in Bundle :
          \A sum : RayByRay(sum, list, read, b, k) => removed'[k][b] = sum[Passed(b, k)']
    BY <2>2
  <2> QED BY <1>1, <2>3, <2>4, <2>5 DEF VolumesFollow
<1> QED BY <1>5, <1>7, <1>8, <1>9 DEF Driven

(* The whole run at once.                                                    *)
LEMMA CutRunParallelDrives ==
  ASSUME Driven, CutRunParallel
  PROVE  Driven'
<1>1. /\ pc = "cut" /\ args.threads # 1 /\ pc' = "check"
      /\ UNCHANGED <<motions, stock, args, lo, at, removed>>
      /\ field' = SequentialField(Batch, field)
      /\ totals' = [tested |-> totals.tested + SequentialCounters(Batch, field).tested,
                    rejected |-> totals.rejected + SequentialCounters(Batch, field).rejected,
                    changed |-> totals.changed + SequentialCounters(Batch, field).changed,
                    volume |-> [b \in Bundle |->
                       FAdd(totals.volume[b], SequentialVolume(Batch, field)[b])]]
  BY DEF CutRunParallel
<1>2. DriverTypeOK /\ FieldFollows /\ CountersFollow /\ at = <<1, 0>> /\ lo <= Len(motions)
  BY <1>1 DEF Driven, DriverTypeOK
<1>3. /\ upto \in lo .. Len(motions) /\ lo \in Nat \ {0} /\ Len(motions) \in Nat
      /\ Batch \in Seq(Motions) /\ Len(Batch) = upto - lo + 1
  BY <1>2, BatchBetween
<1>4. \A b \in Bundle, r \in Ray : ~Gone(b, r)
  BY <1>1, <1>2, CuttingAssumption DEF Gone, Bundle, Ray
<1>5. \A b \in Bundle, r \in Ray : Part(Batch, field, b, r, motions, stock, lo, upto)
  BY <1>2, <1>4, BatchIsPart
<1>6. upto' = upto
  BY <1>1 DEF upto
<1>7. \A b, r : CutTo(b, r)' = upto
  BY <1>1, <1>6 DEF CutTo, Gone
<1>8. \A b \in Bundle, r \in Ray : CutTo(b, r) = lo - 1
  BY <1>4 DEF CutTo
<1>9. ASSUME NEW b \in Bundle, NEW r \in Ray
      PROVE  /\ field'[b][r] = MaterialAfter(motions, stock, b, r)[upto]
             /\ field'[b][r] \in SUBSET Cell
  <2>1. field'[b][r] = MaterialAfter(Batch, field, b, r)[Len(Batch)]
    BY <1>1 DEF SequentialField
  <2>2. Len(Batch) \in 0 .. Len(Batch) /\ lo - 1 + Len(Batch) = upto
    BY <1>3
  <2>3. MaterialAfter(Batch, field, b, r)[Len(Batch)] = MaterialAfter(motions, stock, b, r)[upto]
    BY <1>5, <2>2, PartLeaves
  <2>4. MaterialAfter(Batch, field, b, r)[Len(Batch)] \in SUBSET Cell
    BY <1>2, <1>3, <2>2, MaterialIsCells DEF DriverTypeOK
  <2> QED BY <2>1, <2>3, <2>4
<1>10. field' \in Fields
  <2>1. field' = [b \in Bundle |-> [r \in Ray |-> field'[b][r]]]
    BY <1>1 DEF SequentialField
  <2> QED BY <1>9, <2>1 DEF Fields
<1>11. DriverTypeOK'
  BY <1>1, <1>2, <1>10 DEF DriverTypeOK
<1>12. FieldFollows'
  BY <1>1, <1>7, <1>9 DEF FieldFollows
<1>13. ASSUME NEW c \in Counters
       PROVE  IsFiniteSet(Offered(c)') /\ totals'[c] = Cardinality(Offered(c)')
  <2> DEFINE old == Offered(c)
             more == CountingIn(c, motions, stock, lo, upto)
             O == Offers(motions)
  <2>1. \A o \in O : o[1] \in Bundle /\ o[2] \in Ray /\ o[3] \in 1 .. Len(motions)
    BY DEF Offers
  <2>2. Offered(c)' = {o \in O : o[3] <= upto /\ Counts(c, motions, stock, o)}
    BY <1>1, <1>7 DEF Offered
  <2>3. old = {o \in O : o[3] <= lo - 1 /\ Counts(c, motions, stock, o)}
    BY <1>8, <2>1 DEF Offered
  <2>4. more = {o \in O : o[3] \in lo .. upto /\ Counts(c, motions, stock, o)}
    BY DEF CountingIn
  <2> HIDE DEF old, more, O
  <2>5. Offered(c)' = old \union more /\ old \cap more = {}
    BY <1>3, <2>1, <2>2, <2>3, <2>4
  <2>6. IsFiniteSet(old) /\ totals[c] = Cardinality(old)
    BY <1>2 DEF CountersFollow, old
  <2>7. IsFiniteSet(more) /\ SequentialCounters(Batch, field)[c] = Cardinality(more)
    <3>1. WholePart(Batch, field, motions, stock, lo, upto)
      BY <1>5 DEF WholePart
    <3>2. /\ lo \in Int /\ upto \in Int /\ Len(Batch) \in Nat /\ 1 <= lo /\ upto <= Len(motions)
      BY <1>3
    <3> QED BY <1>3, <3>1, <3>2, PartCounts DEF more
  <2>8. IsFiniteSet(old \union more)
        /\ Cardinality(old \union more) = Cardinality(old) + Cardinality(more)
    BY <2>5, <2>6, <2>7, Disjointly
  <2>9. totals'[c] = totals[c] + SequentialCounters(Batch, field)[c]
    <3>1. c = "tested" \/ c = "rejected" \/ c = "changed"
      BY DEF Counters
    <3> QED BY <1>1, <3>1
  <2> QED BY <2>5, <2>6, <2>7, <2>8, <2>9
<1>14. CountersFollow'
  BY <1>13 DEF CountersFollow
<1>15. VolumesFollow'
  BY <1>1 DEF VolumesFollow
<1> QED BY <1>11, <1>12, <1>14, <1>15 DEF Driven

(* The ray that is cut next is the one more the run has been through.        *)
LEMMA CutRayVisits ==
  ASSUME DriverTypeOK, CutRay
  PROVE  /\ upto' = upto /\ ~Gone(at[1], at[2])
         /\ \A b \in Bundle, r \in Ray : CutTo(b, r)' = IF b = at[1] /\ r = at[2] THEN upto ELSE CutTo(b, r)
         /\ \A b \in Bundle, k \in DOMAIN motions :
              Passed(b, k)' = IF b = at[1] /\ k \in lo .. upto THEN at[2] + 1 ELSE Passed(b, k)
         /\ \A k \in lo .. upto : Passed(at[1], k) = at[2]
         /\ at' \in Bundle \X Ray /\ pc' \in {"cut", "check"} /\ (pc' # "cut" => at' = <<1, 0>>)
<1> DEFINE bb == at[1]
           rr == at[2]
<1>1. /\ pc = "cut" /\ UNCHANGED <<motions, args, lo>>
      /\ at' = IF rr < Rays - 1 THEN <<bb, rr + 1>>
               ELSE IF bb = Bundles THEN <<1, 0>> ELSE <<bb + 1, 0>>
      /\ pc' = IF rr = Rays - 1 /\ bb = Bundles THEN "check" ELSE "cut"
  <2>1. bb \in Bundle /\ rr \in Ray
    BY DEF DriverTypeOK
  <2>2. rr < Rays - 1 \/ rr = Rays - 1
    BY <2>1, CuttingAssumption DEF Ray
  <2> QED BY <2>1, <2>2, CuttingAssumption DEF CutRay, Ray, Bundle
<1>2. /\ bb \in 1 .. Bundles /\ rr \in 0 .. Rays - 1 /\ Bundles \in Nat \ {0} /\ Rays \in Nat \ {0}
      /\ lo \in 1 .. Len(motions) + 1 /\ lo <= Len(motions)
  BY <1>1, CuttingAssumption, DriverAssumption DEF DriverTypeOK, Bundle, Ray
<1>3. upto' = upto
  BY <1>1 DEF upto
<1>4. upto \in lo .. Len(motions) /\ lo \in Nat \ {0} /\ Len(motions) \in Nat
  BY <1>2, BatchBetween
<1>5. ~Gone(bb, rr)
  BY <1>1, <1>2 DEF Gone
<1>6. ASSUME NEW b \in Bundle, NEW r \in Ray
      PROVE  Gone(b, r)' <=> Gone(b, r) \/ (b = bb /\ r = rr)
  <2>1. b \in 1 .. Bundles /\ r \in 0 .. Rays - 1
    BY DEF Bundle, Ray
  <2>2. Gone(b, r) <=> b < bb \/ (b = bb /\ r < rr)
    BY <1>1 DEF Gone
  <2>3. CASE rr < Rays - 1
    <3>1. at' = <<bb, rr + 1>> /\ pc' = "cut"
      BY <1>1, <1>2, <2>3
    <3>2. Gone(b, r)' <=> b < bb \/ (b = bb /\ r < rr + 1)
      BY <3>1 DEF Gone
    <3> HIDE DEF bb, rr
    <3> QED BY <1>2, <2>1, <2>2, <3>2
  <2>4. CASE rr = Rays - 1 /\ bb # Bundles
    <3>1. at' = <<bb + 1, 0>> /\ pc' = "cut"
      BY <1>1, <1>2, <2>4
    <3>2. Gone(b, r)' <=> b < bb + 1 \/ (b = bb + 1 /\ r < 0)
      BY <3>1 DEF Gone
    <3> HIDE DEF bb, rr
    <3> QED BY <1>2, <2>1, <2>2, <2>4, <3>2
  <2>5. CASE rr = Rays - 1 /\ bb = Bundles
    <3>1. pc' = "check"
      BY <1>1, <2>5
    <3>2. Gone(b, r)'
      BY <3>1 DEF Gone
    <3> HIDE DEF bb, rr
    <3> QED BY <1>2, <2>1, <2>2, <2>5, <3>2
  <2> HIDE DEF bb, rr
  <2> QED BY <1>2, <2>3, <2>4, <2>5
<1>7. ASSUME NEW b \in Bundle, NEW r \in Ray
      PROVE  CutTo(b, r)' = IF b = bb /\ r = rr THEN upto ELSE CutTo(b, r)
  <2> HIDE DEF bb, rr
  <2> QED BY <1>1, <1>3, <1>5, <1>6 DEF CutTo
<1>8. Rays - 1 \in Ray
  BY <1>2 DEF Ray
<1>9. ~Gone(bb, Rays - 1)
  BY <1>1, <1>2 DEF Gone
<1>10. ASSUME NEW k \in lo .. upto PROVE Passed(bb, k) = rr
  <2>1. CutTo(bb, Rays - 1) = lo - 1
    BY <1>9 DEF CutTo
  <2>2. ~(k <= lo - 1)
    BY <1>4
  <2> QED BY <1>1, <2>1, <2>2 DEF Passed
<1>11. ASSUME NEW b \in Bundle, NEW k \in DOMAIN motions
       PROVE  Passed(b, k)' = IF b = bb /\ k \in lo .. upto THEN rr + 1 ELSE Passed(b, k)
  <2> DEFINE n == CutTo(b, Rays - 1)
             m == CutTo(b, Rays - 1)'
  <2>0. motions \in Seq(Motions)
    BY DEF DriverTypeOK
  <2>1. k \in 1 .. Len(motions) /\ b \in 1 .. Bundles
    BY <2>0 DEF Bundle
  <2>2. m = IF b = bb /\ Rays - 1 = rr THEN upto ELSE n
    BY <1>7, <1>8
  <2>3. /\ Passed(b, k) = IF k <= n THEN Rays ELSE IF b = bb /\ k \in lo .. upto THEN rr ELSE 0
        /\ Passed(b, k)' = IF k <= m THEN Rays
                           ELSE IF pc' = "cut" /\ b = at'[1] /\ k \in lo .. upto THEN at'[2] ELSE 0
    BY <1>1, <1>3 DEF Passed
  <2>4. n = lo - 1 \/ n = upto
    BY DEF CutTo
  <2>5. b < bb => n = upto
    BY <1>1 DEF CutTo, Gone
  <2>6. b = bb => n = lo - 1
    BY <1>9 DEF CutTo
  <2> HIDE DEF n, m, bb, rr
  <2>7. CASE b = bb /\ k \in lo .. upto
    <3>1. CASE rr < Rays - 1
      <4>1. at' = <<bb, rr + 1>> /\ pc' = "cut"
        BY <1>1, <1>2, <3>1
      <4>2. ~(k <= m)
        BY <1>2, <1>4, <2>2, <2>6, <2>7, <3>1
      <4>3. b = at'[1] /\ at'[2] = rr + 1
        BY <2>7, <4>1
      <4> QED BY <2>3, <2>7, <4>1, <4>2, <4>3
    <3>2. CASE rr = Rays - 1
      <4>1. k <= m
        BY <1>4, <2>2, <2>7, <3>2
      <4> QED BY <1>2, <2>3, <2>7, <3>2, <4>1
    <3> QED BY <1>2, <3>1, <3>2
  <2>8. CASE k \notin lo .. upto
    <3>1. k <= n <=> k <= m
      BY <1>2, <1>4, <2>1, <2>2, <2>4, <2>8
    <3> QED BY <2>3, <2>8, <3>1
  <2>9. CASE b # bb /\ k \in lo .. upto
    <3>1. m = n
      BY <2>2, <2>9
    <3>2. CASE k <= n
      BY <2>3, <2>9, <3>1, <3>2
    <3>3. CASE ~(k <= n)
      <4>1. ~(b < bb)
        BY <1>4, <2>5, <2>9, <3>3
      <4>2. bb # Bundles
        BY <1>2, <2>1, <2>9, <4>1
      <4>3. pc' = "cut" /\ (b = at'[1] => at'[2] = 0)
        BY <1>1, <1>2, <2>9, <4>2
      <4> QED BY <2>3, <2>9, <3>1, <3>3, <4>3
    <3> QED BY <3>2, <3>3
  <2> QED BY <2>7, <2>8, <2>9
<1>12. at' \in Bundle \X Ray /\ pc' \in {"cut", "check"} /\ (pc' # "cut" => at' = <<1, 0>>)
  <2>1. 1 \in Bundle /\ 0 \in Ray
    BY <1>2 DEF Bundle, Ray
  <2>2. rr < Rays - 1 => <<bb, rr + 1>> \in Bundle \X Ray
    BY <1>2 DEF Bundle, Ray
  <2>3. bb # Bundles => <<bb + 1, 0>> \in Bundle \X Ray
    BY <1>2, <2>1 DEF Bundle
  <2>4. rr < Rays - 1 => rr # Rays - 1
    BY <1>2
  <2>5. rr < Rays - 1 \/ rr = Rays - 1
    BY <1>2
  <2> HIDE DEF bb, rr
  <2> QED BY <1>1, <2>1, <2>2, <2>3, <2>4, <2>5
<1> QED BY <1>3, <1>5, <1>7, <1>10, <1>11, <1>12

(* What an iteration of the loop assigns, in terms of the whole list.        *)
LEMMA CutRayCuts ==
  ASSUME DriverTypeOK, FieldFollows, CutRay
  PROVE  LET b == at[1]
             r == at[2]
             n == Len(Batch)
             K(c) == {k \in 1 .. n : Counts(c, Batch, field, <<b, r, k>>)}
         IN  /\ field' = [field EXCEPT ![b][r] = MaterialAfter(motions, stock, b, r)[upto]]
             /\ DOMAIN removed' = DOMAIN motions
             /\ \A k \in DOMAIN motions :
                  removed'[k] =
                    IF k \in lo .. upto /\ IsChanged(motions, stock, b, r, k)
                    THEN [removed[k] EXCEPT ![b] = FAdd(removed[k][b], CutBy(motions, stock, b, r, k))]
                    ELSE removed[k]
             /\ totals' = [totals EXCEPT
                  !.tested = totals.tested + Cardinality(K("tested")),
                  !.rejected = totals.rejected + n - Cardinality(K("tested")),
                  !.changed = totals.changed + Cardinality(K("changed"))]
             /\ \A k \in 1 .. n : k \in K("rejected") <=> k \notin K("tested")
             /\ n \in Nat
<1> DEFINE b == at[1]
           r == at[2]
           n == Len(Batch)
           K(c) == {k \in 1 .. n : Counts(c, Batch, field, <<b, r, k>>)}
           after == MaterialAfter(Batch, field, b, r)
           cut == [k \in DOMAIN Batch |->
                     IF k \in Tested(b, r) THEN Cut(after[k - 1], Batch[k].swept[b][r]) ELSE 0]
<1>1. /\ pc = "cut"
      /\ field' = [field EXCEPT ![b][r] = after[n]]
      /\ removed' = [k \in DOMAIN motions |->
              IF k \in lo .. upto /\ cut[k - lo + 1] > 0
              THEN [removed[k] EXCEPT ![b] = FAdd(@, cut[k - lo + 1])]
              ELSE removed[k]]
      /\ totals' = [totals EXCEPT
              !.tested = @ + Cardinality(Tested(b, r)),
              !.rejected = @ + n - Cardinality(Tested(b, r)),
              !.changed = @ + Cardinality({k \in DOMAIN Batch : cut[k] > 0})]
  BY DEF CutRay
<1>2. b \in Bundle /\ r \in Ray /\ lo <= Len(motions) /\ motions \in Seq(Motions)
  BY <1>1 DEF DriverTypeOK
<1>3. /\ upto \in lo .. Len(motions) /\ lo \in Nat \ {0} /\ Len(motions) \in Nat
      /\ Batch \in Seq(Motions) /\ Len(Batch) = upto - lo + 1
      /\ \A k \in 1 .. Len(Batch) : Batch[k] = motions[lo - 1 + k]
  BY <1>2, BatchBetween
<1>4. DOMAIN Batch = 1 .. n /\ n \in Nat
  BY <1>3
<1>5. ~Gone(b, r)
  BY CutRayVisits
<1>6. Part(Batch, field, b, r, motions, stock, lo, upto)
  BY <1>2, <1>5, BatchIsPart
<1>7. ASSUME NEW k \in 1 .. n
      PROVE  /\ k \in Tested(b, r) <=> IsTested(Batch, field, b, r, k)
             /\ cut[k] > 0 <=> IsChanged(Batch, field, b, r, k)
             /\ cut[k] > 0 => cut[k] = CutBy(Batch, field, b, r, k)
  <2>1. k \in Tested(b, r) <=> IsTested(Batch, field, b, r, k)
    BY <1>4 DEF Tested, IsTested
  <2>2. cut[k] = IF k \in Tested(b, r) THEN CutBy(Batch, field, b, r, k) ELSE 0
    BY <1>4 DEF CutBy
  <2> HIDE DEF cut
  <2> QED BY <2>1, <2>2 DEF IsChanged
<1>8. /\ K("tested") = Tested(b, r)
      /\ K("changed") = {k \in DOMAIN Batch : cut[k] > 0}
      /\ \A k \in 1 .. n : k \in K("rejected") <=> k \notin K("tested")
  <2>1. \A k \in 1 .. n : /\ k \in K("tested") <=> IsTested(Batch, field, b, r, k)
                          /\ k \in K("rejected") <=> ~IsTested(Batch, field, b, r, k)
                          /\ k \in K("changed") <=> IsChanged(Batch, field, b, r, k)
    BY DEF Counts, CountsFor
  <2>2. Tested(b, r) \subseteq 1 .. n
    BY <1>4 DEF Tested
  <2>3. \A c : K(c) \subseteq 1 .. n
    OBVIOUS
  <2> HIDE DEF K, cut
  <2> QED BY <1>4, <1>7, <2>1, <2>2, <2>3
<1>9. field' = [field EXCEPT ![b][r] = MaterialAfter(motions, stock, b, r)[upto]]
  <2>1. n \in 0 .. n /\ lo - 1 + n = upto
    BY <1>3
  <2>2. after[n] = MaterialAfter(motions, stock, b, r)[upto]
    BY <1>6, <2>1, PartLeaves
  <2> HIDE DEF after
  <2> QED BY <1>1, <2>2
<1>10. ASSUME NEW k \in DOMAIN motions
       PROVE  removed'[k] =
                IF k \in lo .. upto /\ IsChanged(motions, stock, b, r, k)
                THEN [removed[k] EXCEPT ![b] = FAdd(removed[k][b], CutBy(motions, stock, b, r, k))]
                ELSE removed[k]
  <2>1. CASE k \in lo .. upto
    <3> DEFINE j == k - lo + 1
    <3>1. j \in 1 .. n /\ lo - 1 + j = k
      BY <1>3, <2>1
    <3> HIDE DEF j, cut
    <3>4. Alike(Batch, field, b, r, j, motions, stock, lo - 1 + j)
      <4>1. j \in 1 .. Len(Batch)
        BY <3>1
      <4> HIDE DEF n, b, r
      <4> QED BY <1>6, <4>1, PartOffers
    <3>2. /\ IsChanged(Batch, field, b, r, j) <=> IsChanged(motions, stock, b, r, k)
          /\ CutBy(Batch, field, b, r, j) = CutBy(motions, stock, b, r, k)
      <4> HIDE DEF n, b, r
      <4> QED BY <3>1, <3>4 DEF Alike
    <3>3. removed'[k] = IF cut[j] > 0 THEN [removed[k] EXCEPT ![b] = FAdd(removed[k][b], cut[j])]
                        ELSE removed[k]
      BY <1>1, <2>1 DEF j
    <3> QED BY <1>7, <2>1, <3>1, <3>2, <3>3
  <2>2. CASE k \notin lo .. upto
    <3> HIDE DEF cut
    <3> QED BY <1>1, <2>2
  <2> QED BY <2>1, <2>2
<1>11. DOMAIN removed' = DOMAIN motions
  BY <1>1
<1>12. totals' = [totals EXCEPT
                  !.tested = totals.tested + Cardinality(K("tested")),
                  !.rejected = totals.rejected + n - Cardinality(K("tested")),
                  !.changed = totals.changed + Cardinality(K("changed"))]
  <2> HIDE DEF K, cut, n, b, r
  <2> QED BY <1>1, <1>8
<1> HIDE DEF cut, after
<1> QED BY <1>4, <1>8, <1>9, <1>10, <1>11, <1>12

(* One ray more.                                                             *)
LEMMA CutRayDrives ==
  ASSUME Driven, CutRay
  PROVE  Driven'
<1> DEFINE b == at[1]
           r == at[2]
           n == Len(Batch)
           K(c) == {k \in 1 .. n : Counts(c, Batch, field, <<b, r, k>>)}
<1>1. pc = "cut" /\ args.threads = 1 /\ UNCHANGED <<motions, stock, args, lo>>
  BY DEF CutRay
<1>2. DriverTypeOK /\ FieldFollows /\ CountersFollow /\ VolumesFollow
  BY <1>1 DEF Driven
<1>3. /\ upto' = upto /\ ~Gone(b, r)
      /\ \A x \in Bundle, y \in Ray : CutTo(x, y)' = IF x = b /\ y = r THEN upto ELSE CutTo(x, y)
      /\ \A x \in Bundle, k \in DOMAIN motions :
              Passed(x, k)' = IF x = b /\ k \in lo .. upto THEN r + 1 ELSE Passed(x, k)
      /\ \A k \in lo .. upto : Passed(b, k) = r
      /\ at' \in Bundle \X Ray /\ pc' \in {"cut", "check"} /\ (pc' # "cut" => at' = <<1, 0>>)
  BY <1>2, CutRayVisits
<1>4. /\ field' = [field EXCEPT ![b][r] = MaterialAfter(motions, stock, b, r)[upto]]
      /\ DOMAIN removed' = DOMAIN motions
      /\ \A k \in DOMAIN motions :
            removed'[k] =
              IF k \in lo .. upto /\ IsChanged(motions, stock, b, r, k)
              THEN [removed[k] EXCEPT ![b] = FAdd(removed[k][b], CutBy(motions, stock, b, r, k))]
              ELSE removed[k]
      /\ totals' = [totals EXCEPT
            !.tested = totals.tested + Cardinality(K("tested")),
            !.rejected = totals.rejected + n - Cardinality(K("tested")),
            !.changed = totals.changed + Cardinality(K("changed"))]
      /\ \A k \in 1 .. n : k \in K("rejected") <=> k \notin K("tested")
      /\ n \in Nat
  BY <1>2, CutRayCuts
<1>5. b \in Bundle /\ r \in Ray /\ r \in Int /\ lo <= Len(motions) /\ motions \in Seq(Motions)
      /\ stock \in Fields /\ field \in Fields
  BY <1>1, <1>2 DEF DriverTypeOK, Ray
<1>6. upto \in lo .. Len(motions) /\ lo \in Nat \ {0} /\ Len(motions) \in Nat
  BY <1>2, <1>5, BatchBetween
<1>7. Part(Batch, field, b, r, motions, stock, lo, upto)
  BY <1>2, <1>3, <1>5, BatchIsPart
<1>8. MaterialAfter(motions, stock, b, r)[upto] \in SUBSET Cell
  BY <1>5, <1>6, MaterialIsCells
<1>9. field' \in Fields
  <2> HIDE DEF b, r
  <2> QED BY <1>4, <1>5, <1>8 DEF Fields
<1>10. DriverTypeOK'
  <2>1. totals' = [tested |-> totals'.tested, rejected |-> totals'.rejected,
                   changed |-> totals'.changed, volume |-> totals'.volume]
    <3>1. totals = [tested |-> totals.tested, rejected |-> totals.rejected,
                    changed |-> totals.changed, volume |-> totals.volume]
      BY <1>2 DEF DriverTypeOK
    <3> HIDE DEF K, n
    <3> QED BY <1>4, <3>1
  <2> QED BY <1>1, <1>2, <1>3, <1>5, <1>9, <2>1 DEF DriverTypeOK
<1>11. FieldFollows'
  <2> SUFFICES ASSUME NEW x \in Bundle, NEW y \in Ray
               PROVE  field'[x][y] = MaterialAfter(motions, stock, x, y)[CutTo(x, y)']
    BY <1>1 DEF FieldFollows
  <2>1. field[x][y] = MaterialAfter(motions, stock, x, y)[CutTo(x, y)]
    BY <1>2 DEF FieldFollows
  <2>2. CASE x = b /\ y = r
    <3>1. field'[x][y] = MaterialAfter(motions, stock, b, r)[upto]
      BY <1>4, <1>5, <2>2 DEF Fields
    <3> QED BY <1>3, <2>2, <3>1
  <2>3. CASE ~(x = b /\ y = r)
    <3>1. field'[x][y] = field[x][y]
      BY <1>4, <1>5, <2>3 DEF Fields
    <3>2. CutTo(x, y)' = CutTo(x, y)
      BY <1>3, <2>3
    <3> QED BY <2>1, <3>1, <3>2
  <2> QED BY <2>2, <2>3
<1>12. ASSUME NEW c \in Counters
       PROVE  IsFiniteSet(Offered(c)') /\ totals'[c] = Cardinality(Offered(c)')
  <2> DEFINE old == Offered(c)
             more == Tally(c, motions, stock, b, {r}, lo, upto)
             O == Offers(motions)
  <2>1. \A o \in O : o[1] \in Bundle /\ o[2] \in Ray /\ o[3] \in 1 .. Len(motions)
                     /\ o = <<o[1], o[2], o[3]>>
    BY DEF Offers
  <2>2. /\ Offered(c)' = {o \in O : o[3] <= CutTo(o[1], o[2])' /\ Counts(c, motions, stock, o)}
        /\ old = {o \in O : o[3] <= CutTo(o[1], o[2]) /\ Counts(c, motions, stock, o)}
    BY <1>1 DEF Offered
  <2>3. \A o : o \in more <=> /\ o \in O /\ o[1] = b /\ o[2] = r /\ o[3] \in lo .. upto
                              /\ Counts(c, motions, stock, o)
    BY <1>5, <1>6 DEF Tally, Offers
  <2>4. CutTo(b, r) = lo - 1
    BY <1>3 DEF CutTo
  <2>5. \A o \in O : o[3] <= CutTo(o[1], o[2])'
                       <=> o[3] <= CutTo(o[1], o[2]) \/ (o[1] = b /\ o[2] = r /\ o[3] \in lo .. upto)
    <3> SUFFICES ASSUME NEW o \in O
                 PROVE  o[3] <= CutTo(o[1], o[2])'
                          <=> o[3] <= CutTo(o[1], o[2]) \/ (o[1] = b /\ o[2] = r /\ o[3] \in lo .. upto)
      OBVIOUS
    <3> DEFINE x == o[1]
               y == o[2]
               z == o[3]
    <3>1. x \in Bundle /\ y \in Ray /\ z \in 1 .. Len(motions)
      BY <2>1
    <3>2. CutTo(x, y)' = IF x = b /\ y = r THEN upto ELSE CutTo(x, y)
      BY <1>3, <3>1
    <3> HIDE DEF x, y, z, b, r
    <3>3. z <= CutTo(x, y)' <=> z <= CutTo(x, y) \/ (x = b /\ y = r /\ z \in lo .. upto)
      BY <1>6, <2>4, <3>1, <3>2
    <3> QED BY <3>3 DEF x, y, z
  <2>6. \A o \in old : ~(o[1] = b /\ o[2] = r /\ o[3] \in lo .. upto)
    BY <1>6, <2>1, <2>2, <2>4
  <2> HIDE DEF old, more, O, b, r
  <2>7. Offered(c)' = old \union more /\ old \cap more = {}
    BY <2>2, <2>3, <2>5, <2>6
  <2>8. IsFiniteSet(old) /\ totals[c] = Cardinality(old) /\ Cardinality(old) \in Nat
    BY <1>2, FS_CardinalityType DEF CountersFollow, old
  <2>9. IsFiniteSet(K(c)) /\ IsFiniteSet(more) /\ Cardinality(more) = Cardinality(K(c))
    BY <1>7, RayCounts DEF more
  <2>10. IsFiniteSet(old \union more)
         /\ Cardinality(old \union more) = Cardinality(old) + Cardinality(more)
    BY <2>7, <2>8, <2>9, Disjointly
  <2>11. totals'[c] = totals[c] + Cardinality(K(c))
    <3>0. totals = [tested |-> totals.tested, rejected |-> totals.rejected,
                    changed |-> totals.changed, volume |-> totals.volume]
      BY <1>2 DEF DriverTypeOK
    <3>1. CASE c = "tested"
      <4> HIDE DEF K, n
      <4> QED BY <1>4, <3>0, <3>1
    <3>2. CASE c = "changed"
      <4> HIDE DEF K, n
      <4> QED BY <1>4, <3>0, <3>2
    <3>3. CASE c = "rejected"
      <4>1. IsFiniteSet(1 .. n) /\ Cardinality(1 .. n) = n
        <5> HIDE DEF K, n
        <5>1. n \in Nat
          BY <1>4
        <5>2. Cardinality(1 .. n) = IF 1 > n THEN 0 ELSE n - 1 + 1
          BY <5>1, FS_Interval
        <5> QED BY <5>1, <5>2, FS_Interval
      <4>2. K("rejected") = (1 .. n) \ K("tested") /\ (1 .. n) \cap K("tested") = K("tested")
        BY <1>4
      <4>6. "tested" \in Counters
        BY DEF Counters
      <4>3. IsFiniteSet(K("tested"))
        BY <1>7, <4>6, RayCounts DEF b, r
      <4> HIDE DEF K, n
      <4>4. Cardinality(K("rejected")) = n - Cardinality(K("tested")) /\ Cardinality(K("tested")) \in Nat
        <5> DEFINE S == 1 .. n
                   T == K("tested")
        <5>3. IsFiniteSet(S) /\ Cardinality(S) = n /\ S \cap T = T
          BY <4>1, <4>2
        <5> HIDE DEF S, T
        <5>4. Cardinality(S \ T) = Cardinality(S) - Cardinality(S \cap T)
          BY <5>3, FS_Difference
        <5>1. Cardinality((1 .. n) \ K("tested")) = n - Cardinality(K("tested"))
          BY <5>3, <5>4 DEF S, T
        <5>2. Cardinality(K("tested")) \in Nat
          BY <4>3, FS_CardinalityType
        <5> QED BY <4>2, <5>1, <5>2
      <4>5. totals'.rejected = totals.rejected + n - Cardinality(K("tested"))
        BY <1>4, <3>0
      <4> QED BY <1>4, <2>8, <3>3, <4>4, <4>5
    <3> QED BY <3>1, <3>2, <3>3 DEF Counters
  <2> QED BY <2>7, <2>8, <2>9, <2>10, <2>11
<1>13. CountersFollow'
  BY <1>12 DEF CountersFollow
<1>14. VolumesFollow'
  <2>1. /\ DOMAIN removed = DOMAIN motions
        /\ \A k \in DOMAIN motions : DOMAIN removed[k] = Bundle
        /\ \A k \in DOMAIN motions, x \in Bundle :
             \A sum : RayByRay(sum, motions, stock, x, k) => removed[k][x] = sum[Passed(x, k)]
        /\ totals.volume = [x \in Bundle |-> 0]
    BY <1>1, <1>2 DEF VolumesFollow
  <2>2. \A k \in DOMAIN motions : DOMAIN removed'[k] = Bundle
    <3> HIDE DEF b, r
    <3> QED BY <1>4, <2>1
  <2>3. totals'.volume = [x \in Bundle |-> 0] /\ pc' # "done"
    <3> HIDE DEF b, r, K, n
    <3>1. totals'.volume = totals.volume
      BY <1>2, <1>4 DEF DriverTypeOK
    <3> QED BY <1>3, <2>1, <3>1
  <2>4. ASSUME NEW k \in DOMAIN motions, NEW x \in Bundle,
               NEW sum, RayByRay(sum, motions, stock, x, k)
        PROVE  removed'[k][x] = sum[Passed(x, k)']
    <3>1. removed[k][x] = sum[Passed(x, k)]
      BY <2>1, <2>4
    <3>2. CASE x = b /\ k \in lo .. upto
      <4>1. Passed(x, k) = r /\ Passed(x, k)' = r + 1
        BY <1>3, <3>2
      <4>2. r + 1 \in 1 .. Rays /\ (r + 1) - 1 = r
        BY <1>5, CuttingAssumption DEF Ray
      <4> DEFINE m == r + 1
      <4>5. m \in 1 .. Rays /\ m - 1 = r
        BY <4>2
      <4> HIDE DEF m, b, r
      <4>3. sum[m] = IF IsChanged(motions, stock, b, r, k)
                     THEN FAdd(sum[r], CutBy(motions, stock, b, r, k)) ELSE sum[r]
        BY <2>4, <3>2, <4>5 DEF RayByRay
      <4>4. removed'[k][b] = IF IsChanged(motions, stock, b, r, k)
                             THEN FAdd(removed[k][b], CutBy(motions, stock, b, r, k))
                             ELSE removed[k][b]
        BY <1>4, <1>5, <2>1, <3>2
      <4> QED BY <3>1, <3>2, <4>1, <4>3, <4>4 DEF m
    <3>3. CASE ~(x = b /\ k \in lo .. upto)
      <4> HIDE DEF b, r
      <4>1. Passed(x, k)' = Passed(x, k)
        BY <1>3, <3>3
      <4>2. removed'[k][x] = removed[k][x]
        BY <1>4, <2>1, <3>3
      <4> QED BY <3>1, <4>1, <4>2
    <3> QED BY <3>2, <3>3
  <2> HIDE DEF b, r
  <2>5. \A k \in DOMAIN motions, x \in Bundle :
          \A sum : RayByRay(sum, motions, stock, x, k) => removed'[k][x] = sum[Passed(x, k)']
    BY <2>4
  <2> QED BY <1>1, <1>4, <2>2, <2>3, <2>5 DEF VolumesFollow
<1> QED BY <1>10, <1>11, <1>13, <1>14 DEF Driven

\* A step that leaves the cut as far as it is.
Standing ==
  /\ UNCHANGED <<motions, stock, field, removed, args>>
  /\ \A c \in Counters : totals'[c] = totals[c]
  /\ \A b \in Bundle, r \in Ray : CutTo(b, r)' = CutTo(b, r)
  /\ \A b \in Bundle, k \in DOMAIN motions : Passed(b, k)' = Passed(b, k)

(* Where a step leaves rays and their volumes alone, what follows still       *)
(* follows.                                                                   *)
LEMMA StandingFollows ==
  ASSUME DriverTypeOK, FieldFollows, CountersFollow, VolumesFollow, Standing
  PROVE  /\ FieldFollows' /\ CountersFollow'
         /\ args.threads = 1 =>
              /\ DOMAIN removed' = DOMAIN motions'
              /\ \A k \in DOMAIN motions : DOMAIN removed'[k] = Bundle
              /\ \A k \in DOMAIN motions, b \in Bundle :
                   \A sum : RayByRay(sum, motions', stock', b, k) => removed'[k][b] = sum[Passed(b, k)']
<1>1. FieldFollows'
  BY DEF FieldFollows, Standing
<1>2. CountersFollow'
  <2>1. ASSUME NEW c \in Counters PROVE Offered(c)' = Offered(c)
    <3>1. \A o \in Offers(motions) : o[1] \in Bundle /\ o[2] \in Ray
      BY DEF Offers
    <3>2. \A o \in Offers(motions) : CutTo(o[1], o[2])' = CutTo(o[1], o[2])
      <4> SUFFICES ASSUME NEW o \in Offers(motions)
                   PROVE  CutTo(o[1], o[2])' = CutTo(o[1], o[2])
        OBVIOUS
      <4> DEFINE x == o[1]
                 y == o[2]
      <4>1. x \in Bundle /\ y \in Ray
        BY <3>1
      <4> HIDE DEF x, y
      <4>2. CutTo(x, y)' = CutTo(x, y)
        BY <4>1 DEF Standing
      <4> QED BY <4>2 DEF x, y
    <3>3. Offered(c)' = {o \in Offers(motions) : o[3] <= CutTo(o[1], o[2])' /\ Counts(c, motions, stock, o)}
      BY DEF Offered, Standing
    <3> QED BY <3>2, <3>3 DEF Offered
  <2> QED BY <2>1 DEF CountersFollow, Standing
<1>3. args.threads = 1 =>
        /\ DOMAIN removed = DOMAIN motions
        /\ \A k \in DOMAIN motions : DOMAIN removed[k] = Bundle
        /\ \A k \in DOMAIN motions, b \in Bundle :
             \A sum : RayByRay(sum, motions, stock, b, k) => removed[k][b] = sum[Passed(b, k)]
  BY DEF VolumesFollow
<1>4. removed' = removed /\ motions' = motions /\ stock' = stock
      /\ \A b \in Bundle, k \in DOMAIN motions : Passed(b, k)' = Passed(b, k)
  BY DEF Standing
<1> QED BY <1>1, <1>2, <1>3, <1>4

(* The ceiling is looked at, and the next run begun.                         *)
LEMMA CheckGrowthDrives ==
  ASSUME Driven, CheckGrowth
  PROVE  Driven'
<1>1. /\ pc = "check" /\ UNCHANGED <<motions, stock, args, field, at, removed, totals>>
      /\ \/ pc' = "refused" /\ lo' = lo
         \/ lo' = upto + 1 /\ pc' = IF upto = Len(motions) THEN "sum" ELSE "cut"
  BY DEF CheckGrowth
<1>2. DriverTypeOK /\ FieldFollows /\ CountersFollow /\ VolumesFollow /\ at = <<1, 0>>
      /\ lo <= Len(motions)
  BY <1>1 DEF Driven, DriverTypeOK
<1>3. /\ upto \in lo .. Len(motions) /\ lo \in Nat \ {0} /\ Len(motions) \in Nat
  BY <1>2, BatchBetween
<1>4. \A b, r : CutTo(b, r) = upto
  BY <1>1 DEF CutTo, Gone
<1>5. ASSUME NEW b \in Bundle, NEW r \in Ray PROVE CutTo(b, r)' = upto
  <2>1. CASE pc' = "refused" /\ lo' = lo
    <3>1. upto' = upto
      BY <1>1, <2>1 DEF upto
    <3> QED BY <2>1, <3>1 DEF CutTo, Gone
  <2>2. CASE lo' = upto + 1 /\ pc' = IF upto = Len(motions) THEN "sum" ELSE "cut"
    <3>1. b \in Nat /\ b >= 1 /\ r \in Nat
      BY CuttingAssumption DEF Bundle, Ray
    <3>2. ~Gone(b, r)'
      BY <1>1, <1>2, <2>2, <3>1 DEF Gone
    <3>3. lo' - 1 = upto
      BY <1>3, <2>2
    <3> QED BY <3>2, <3>3 DEF CutTo
  <2> QED BY <1>1, <2>1, <2>2
<1>6. Rays - 1 \in Ray
  BY CuttingAssumption, DriverAssumption DEF Ray
<1>7. ASSUME NEW b \in Bundle, NEW k \in DOMAIN motions PROVE Passed(b, k)' = Passed(b, k)
  <2>1. CutTo(b, Rays - 1)' = upto /\ CutTo(b, Rays - 1) = upto
    BY <1>4, <1>5, <1>6
  <2>2. Passed(b, k) = IF k <= upto THEN Rays ELSE 0
    BY <1>1, <2>1 DEF Passed
  <2>3. at'[2] = 0
    BY <1>1, <1>2
  <2>4. Passed(b, k)' = IF k <= upto THEN Rays ELSE 0
    BY <2>1, <2>3 DEF Passed
  <2> QED BY <2>2, <2>4
<1>8. Standing
  BY <1>1, <1>4, <1>5, <1>7 DEF Standing
<1>9. DriverTypeOK'
  <2>1. motions' \in Seq(Motions) /\ stock' \in Fields /\ field' \in Fields /\ args'.batch_size \in Nat
        /\ at' \in Bundle \X Ray /\ at' = <<1, 0>>
        /\ totals' = [tested |-> totals'.tested, rejected |-> totals'.rejected,
                      changed |-> totals'.changed, volume |-> totals'.volume]
    BY <1>1, <1>2 DEF DriverTypeOK
  <2>2. /\ lo' \in 1 .. Len(motions') + 1 /\ pc' \in {"cut", "check", "refused", "sum", "done"}
        /\ pc' \in {"cut", "check", "refused"} => lo' <= Len(motions')
        /\ pc' \in {"sum", "done"} => lo' = Len(motions') + 1
    <3>1. CASE pc' = "refused" /\ lo' = lo
      BY <1>1, <1>2, <1>3, <3>1
    <3>2. CASE lo' = upto + 1 /\ pc' = IF upto = Len(motions) THEN "sum" ELSE "cut"
      <4>1. CASE upto = Len(motions)
        BY <1>1, <1>3, <3>2, <4>1
      <4>2. CASE upto # Len(motions)
        BY <1>1, <1>3, <3>2, <4>2
      <4> QED BY <4>1, <4>2
    <3> QED BY <1>1, <3>1, <3>2
  <2> QED BY <2>1, <2>2 DEF DriverTypeOK
<1>10. FieldFollows' /\ CountersFollow'
  BY <1>2, <1>8, StandingFollows
<1>11. VolumesFollow'
  <2>1. pc' # "done" /\ totals' = totals /\ args' = args /\ motions' = motions /\ stock' = stock
    BY <1>1
  <2>2. args.threads = 1 => totals.volume = [b \in Bundle |-> 0]
    BY <1>1, <1>2 DEF VolumesFollow
  <2>3. args.threads = 1 =>
              /\ DOMAIN removed' = DOMAIN motions'
              /\ \A k \in DOMAIN motions : DOMAIN removed'[k] = Bundle
              /\ \A k \in DOMAIN motions, b \in Bundle :
                   \A sum : RayByRay(sum, motions', stock', b, k) => removed'[k][b] = sum[Passed(b, k)']
    BY <1>2, <1>8, StandingFollows
  <2> QED BY <2>1, <2>2, <2>3 DEF VolumesFollow
<1> QED BY <1>9, <1>10, <1>11 DEF Driven

(* The volumes of the motions are added up.                                  *)
LEMMA SumDrives ==
  ASSUME Driven, Sum
  PROVE  Driven'
<1>1. /\ pc = "sum" /\ pc' = "done" /\ UNCHANGED <<motions, stock, args, field, lo, at, removed>>
      /\ totals' = [totals EXCEPT !.volume = [b \in Bundle |->
                      FoldLeft(FAdd, totals.volume[b], [k \in DOMAIN motions |-> removed[k][b]])]]
  BY DEF Sum
<1>2. DriverTypeOK /\ FieldFollows /\ CountersFollow /\ VolumesFollow
      /\ lo = Len(motions) + 1 /\ motions \in Seq(Motions)
  BY <1>1 DEF Driven, DriverTypeOK
<1>3. /\ DOMAIN motions = 1 .. Len(motions) /\ Len(motions) \in Nat
      /\ lo - 1 = Len(motions)
  BY <1>2
<1>4. \A b, r : CutTo(b, r)' = Len(motions) /\ CutTo(b, r) = Len(motions)
  BY <1>1, <1>3 DEF CutTo, Gone
<1>5. \A b \in Bundle, k \in DOMAIN motions : Passed(b, k)' = Rays /\ Passed(b, k) = Rays
  BY <1>3, <1>4 DEF Passed
<1>6. \A c \in Counters : totals'[c] = totals[c]
  <2>1. totals = [tested |-> totals.tested, rejected |-> totals.rejected,
                  changed |-> totals.changed, volume |-> totals.volume]
    BY <1>2 DEF DriverTypeOK
  <2> QED BY <1>1, <2>1 DEF Counters
<1>7. Standing
  BY <1>1, <1>4, <1>5, <1>6 DEF Standing
<1>8. FieldFollows' /\ CountersFollow'
  BY <1>2, <1>7, StandingFollows
<1>9. DriverTypeOK'
  <2>1. totals' = [tested |-> totals'.tested, rejected |-> totals'.rejected,
                   changed |-> totals'.changed, volume |-> totals'.volume]
    <3>1. totals = [tested |-> totals.tested, rejected |-> totals.rejected,
                    changed |-> totals.changed, volume |-> totals.volume]
      BY <1>2 DEF DriverTypeOK
    <3> QED BY <1>1, <3>1
  <2>2. pc' = "done"
    BY <1>1
  <2> QED BY <1>1, <1>2, <2>1, <2>2 DEF DriverTypeOK
<1>10. VolumesFollow'
  <2>1. args.threads = 1 =>
              /\ DOMAIN removed' = DOMAIN motions'
              /\ \A k \in DOMAIN motions : DOMAIN removed'[k] = Bundle
              /\ \A k \in DOMAIN motions, b \in Bundle :
                   \A sum : RayByRay(sum, motions', stock', b, k) => removed'[k][b] = sum[Passed(b, k)']
    BY <1>2, <1>7, StandingFollows
  <2>2. ASSUME args.threads = 1 PROVE totals'.volume = SequentialVolume(motions, stock)
    <3>1. totals.volume = [b \in Bundle |-> 0]
      BY <1>1, <1>2, <2>2 DEF VolumesFollow
    <3>2. ASSUME NEW b \in Bundle, NEW k \in DOMAIN motions
          PROVE  removed[k][b] = RemovedBy(motions, stock, b, k)
      <4>1. PICK sum : RayByRay(sum, motions, stock, b, k)
        BY RemovedRayByRay
      <4>2. removed[k][b] = sum[Passed(b, k)]
        BY <1>2, <2>2, <4>1 DEF VolumesFollow
      <4> QED BY <1>5, <4>1, <4>2 DEF RayByRay
    <3>3. \A b \in Bundle : [k \in DOMAIN motions |-> removed[k][b]]
                              = [k \in 1 .. Len(motions) |-> RemovedBy(motions, stock, b, k)]
      BY <1>3, <3>2
    <3>4. \A b \in Bundle : totals.volume[b] = 0
      BY <3>1
    <3>5. totals'.volume = [b \in Bundle |->
                      FoldLeft(FAdd, totals.volume[b], [k \in DOMAIN motions |-> removed[k][b]])]
      <4>1. totals = [tested |-> totals.tested, rejected |-> totals.rejected,
                      changed |-> totals.changed, volume |-> totals.volume]
        BY <1>2 DEF DriverTypeOK
      <4> QED BY <1>1, <4>1
    <3>6. \A b \in Bundle : FoldLeft(FAdd, totals.volume[b], [k \in DOMAIN motions |-> removed[k][b]])
            = FSum([k \in 1 .. Len(motions) |-> RemovedBy(motions, stock, b, k)])
      BY <3>3, <3>4 DEF FSum
    <3> QED BY <3>5, <3>6 DEF SequentialVolume
  <2> QED BY <1>1, <2>1, <2>2 DEF VolumesFollow
<1> QED BY <1>8, <1>9, <1>10 DEF Driven

(* Every step of the loop.                                                   *)
LEMMA CutStepDrives == Driven /\ CutStep => Driven'
BY CutRayDrives, CutRunParallelDrives, CheckGrowthDrives, SumDrives DEF CutStep

(* A step of something else changes nothing here.                             *)
LEMMA StandstillDrives == Driven /\ UNCHANGED driverVars => Driven'
<1> SUFFICES ASSUME Driven, UNCHANGED driverVars PROVE Driven'
  OBVIOUS
<1>1. UNCHANGED <<motions, stock, args, field, lo, at, removed, totals, pc>>
  BY DEF driverVars
<1>2. upto' = upto
  BY <1>1 DEF upto
<1>3. /\ \A b, r : CutTo(b, r)' = CutTo(b, r)
      /\ \A b, k : Passed(b, k)' = Passed(b, k)
  BY <1>1, <1>2 DEF CutTo, Gone, Passed
<1>4. CASE pc = "idle"
  BY <1>1, <1>4 DEF Driven
<1>5. CASE pc # "idle"
  <2>1. DriverTypeOK /\ FieldFollows /\ CountersFollow /\ VolumesFollow
    BY <1>5 DEF Driven
  <2>2. Standing
    BY <1>1, <1>3 DEF Standing
  <2>3. FieldFollows' /\ CountersFollow'
    BY <2>1, <2>2, StandingFollows
  <2>4. DriverTypeOK'
    BY <1>1, <2>1 DEF DriverTypeOK
  <2>5. VolumesFollow'
    BY <1>1, <1>3, <2>1 DEF VolumesFollow
  <2> QED BY <2>1, <2>3, <2>4, <2>5 DEF Driven
<1> QED BY <1>4, <1>5

(* The motions cut so far are a part of the list, its first.                 *)
LEMMA FirstPart ==
  ASSUME NEW ms \in Seq(Motions), NEW f \in Fields, NEW n \in 0 .. Len(ms), NEW b \in Bundle, NEW r \in Ray
  PROVE  Part(SubSeq(ms, 1, n), f, b, r, ms, f, 1, n)
<1> DEFINE part == SubSeq(ms, 1, n)
<1>1. Len(ms) \in Nat /\ n \in Nat /\ n <= Len(ms)
  OBVIOUS
<1>2. part \in Seq(Motions) /\ Len(part) = n /\ \A k \in 1 .. n : part[k] = ms[k]
  BY <1>1
<1>3. f[b][r] = MaterialAfter(ms, f, b, r)[0]
  BY MaterialSteps
<1>4. \A k \in 1 .. n : 1 - 1 + k = k
  BY <1>1
<1> HIDE DEF part
<1>5. Len(part) = n - 1 + 1
  BY <1>1, <1>2
<1>6. \A k \in 1 .. Len(part) : part[k] = ms[1 - 1 + k]
  BY <1>2, <1>4
<1> QED BY <1>1, <1>2, <1>3, <1>5, <1>6 DEF Part, part

(* Followed ray by ray, a cut is at every run boundary what it should be.     *)
LEMMA DrivenIsInvisible == Driven => RunsAreInvisible
<1> SUFFICES ASSUME Driven,
                    pc \in {"check", "sum", "done", "refused"} \/ (pc = "cut" /\ at = <<1, 0>>)
             PROVE  LET reference == SequentialCounters(CutSoFar, stock)
                    IN  /\ field = SequentialField(CutSoFar, stock)
                        /\ totals.tested = reference.tested
                        /\ totals.rejected = reference.rejected
                        /\ totals.changed = reference.changed
                        /\ pc = "done" /\ args.threads = 1 =>
                             totals.volume = SequentialVolume(motions, stock)
  BY DEF RunsAreInvisible
<1> DEFINE n == IF pc \in {"check", "refused"} THEN upto ELSE lo - 1
           part == SubSeq(motions, 1, n)
<1>1. DriverTypeOK /\ FieldFollows /\ CountersFollow /\ VolumesFollow
  BY DEF Driven
<1>2. motions \in Seq(Motions) /\ stock \in Fields /\ field \in Fields /\ Len(motions) \in Nat
      /\ lo \in 1 .. Len(motions) + 1
  BY <1>1 DEF DriverTypeOK
<1>3. n \in 0 .. Len(motions)
  <2>1. CASE pc \in {"check", "refused"}
    <3>1. lo <= Len(motions)
      BY <1>1, <2>1 DEF DriverTypeOK
    <3>2. upto \in lo .. Len(motions)
      BY <1>1, <3>1, BatchBetween
    <3> QED BY <1>2, <2>1, <3>2
  <2>2. CASE pc \notin {"check", "refused"}
    BY <1>2, <2>2
  <2> QED BY <2>1, <2>2
<1>4. CutSoFar = part
  BY DEF CutSoFar
<1>5. ASSUME NEW b \in Bundle, NEW r \in Ray PROVE CutTo(b, r) = n
  <2>1. b \in Nat /\ b >= 1 /\ r \in Nat
    BY CuttingAssumption DEF Bundle, Ray
  <2> QED BY <2>1 DEF CutTo, Gone
<1> HIDE DEF n
<1>6. \A b \in Bundle, r \in Ray : Part(part, stock, b, r, motions, stock, 1, n)
  BY <1>2, <1>3, FirstPart
<1>7. Len(part) = n /\ Len(part) \in Nat
  BY <1>2, <1>3
<1> HIDE DEF part
<1>8. field = SequentialField(part, stock)
  <2>1. ASSUME NEW b \in Bundle, NEW r \in Ray
        PROVE  field[b][r] = MaterialAfter(part, stock, b, r)[Len(part)]
    <3>1. Len(part) \in 0 .. Len(part) /\ 1 - 1 + Len(part) = n
      BY <1>7
    <3>2. MaterialAfter(part, stock, b, r)[Len(part)] = MaterialAfter(motions, stock, b, r)[n]
      BY <1>6, <3>1, PartLeaves
    <3> QED BY <1>1, <1>5, <3>2 DEF FieldFollows
  <2> QED BY <1>2, <2>1 DEF Fields, SequentialField
<1>9. ASSUME NEW c \in Counters PROVE totals[c] = SequentialCounters(part, stock)[c]
  <2>1. WholePart(part, stock, motions, stock, 1, n)
    BY <1>6 DEF WholePart
  <2>2. n \in Int /\ n <= Len(motions) /\ Len(part) = n - 1 + 1 /\ Len(motions) \in Nat
    BY <1>2, <1>3, <1>7
  <2>3. SequentialCounters(part, stock)[c] = Cardinality(CountingIn(c, motions, stock, 1, n))
    BY <1>7, <2>1, <2>2, PartCounts
  <2>4. CountingIn(c, motions, stock, 1, n) = Offered(c)
    <3>1. \A o \in Offers(motions) : o[1] \in Bundle /\ o[2] \in Ray /\ o[3] \in 1 .. Len(motions)
      BY DEF Offers
    <3>2. \A o \in Offers(motions) : o[3] \in 1 .. n <=> o[3] <= CutTo(o[1], o[2])
      BY <1>5, <2>2, <3>1
    <3> QED BY <3>2 DEF CountingIn, Offered
  <2> QED BY <1>1, <2>3, <2>4 DEF CountersFollow
<1>10. pc = "done" /\ args.threads = 1 => totals.volume = SequentialVolume(motions, stock)
  BY <1>1 DEF VolumesFollow
<1>11. "tested" \in Counters /\ "rejected" \in Counters /\ "changed" \in Counters
  BY DEF Counters
<1> QED BY <1>4, <1>8, <1>9, <1>10, <1>11

-----------------------------------------------------------------------------
(* What runs were asked for, one after another.                              *)

\* h is what replaying the cuts one by one makes of the cells.
Remakes(h, n, cells, cuts) ==
  h = [j \in 0 .. n |-> IF j = 0 THEN cells ELSE Replay(h[j - 1], cuts[j])]

(* The recursion has a solution, by induction over the cuts.                  *)
LEMMA RemakingExists ==
  ASSUME NEW n \in Nat, NEW cells, NEW cuts
  PROVE  \E h : Remakes(h, n, cells, cuts)
<1> DEFINE Good == {m \in 0 .. n : \E h : Remakes(h, m, cells, cuts)}
<1>1. 0 \in Good
  <2> DEFINE h == [j \in 0 .. 0 |-> cells]
  <2>1. Remakes(h, 0, cells, cuts)
    <3>1. \A j \in 0 .. 0 : j = 0
      OBVIOUS
    <3> QED BY <3>1 DEF Remakes
  <2> HIDE DEF h
  <2> QED BY <2>1
<1>2. ASSUME NEW m \in 0 .. n - 1, m \in Good PROVE m + 1 \in Good
  <2>1. PICK h : Remakes(h, m, cells, cuts)
    BY <1>2
  <2> DEFINE Onto(x, j) == Replay(x, cuts[j])
             g == [j \in 0 .. m + 1 |-> IF j = m + 1 THEN Onto(h[m], m + 1) ELSE h[j]]
  <2>2. ASSUME NEW j \in 0 .. m + 1 PROVE g[j] = IF j = 0 THEN cells ELSE Onto(g[j - 1], j)
    <3>1. h = [i \in 0 .. m |-> IF i = 0 THEN cells ELSE Onto(h[i - 1], i)]
      BY <2>1 DEF Remakes
    <3> HIDE DEF Onto
    <3>2. \A i \in 0 .. m : h[i] = IF i = 0 THEN cells ELSE Onto(h[i - 1], i)
      BY <3>1
    <3>3. CASE j = m + 1
      <4>1. g[j] = Onto(h[m], j) /\ g[j - 1] = h[m] /\ j # 0
        BY <3>3
      <4> QED BY <4>1
    <3>4. CASE j # m + 1 /\ j # 0
      <4>1. j \in 0 .. m /\ j - 1 \in 0 .. m
        BY <3>4
      <4>2. g[j] = h[j] /\ g[j - 1] = h[j - 1]
        BY <4>1
      <4> HIDE DEF g
      <4> QED BY <4>1, <4>2, <3>2, <3>4
    <3>5. CASE j = 0
      <4>1. 0 \in 0 .. m /\ 0 # m + 1
        OBVIOUS
      <4>2. g[0] = h[0]
        BY <4>1
      <4> HIDE DEF g
      <4> QED BY <4>1, <4>2, <3>2, <3>5
    <3> QED BY <3>3, <3>4, <3>5
  <2>3. g = [j \in 0 .. m + 1 |-> g[j]]
    OBVIOUS
  <2> HIDE DEF g
  <2>4. g = [j \in 0 .. m + 1 |-> IF j = 0 THEN cells ELSE Onto(g[j - 1], j)]
    <3> HIDE DEF Onto
    <3> QED BY <2>2, <2>3
  <2>5. Remakes(g, m + 1, cells, cuts)
    BY <2>4 DEF Remakes
  <2>6. m + 1 \in 0 .. n
    OBVIOUS
  <2> QED BY <2>5, <2>6
<1>3. n \in Good
  <2> HIDE DEF Good
  <2>1. \A m \in 0 .. n - 1 : m \in Good => m + 1 \in Good
    BY <1>2
  <2>2. \A m \in 0 .. n : m \in Good
    BY <1>1, <2>1, Induction
  <2> QED BY <2>2
<1> QED BY <1>3

\* The same, step by step.
RemadeBy(h, cells, cuts) ==
  /\ h[0] = cells
  /\ \A j \in 1 .. Len(cuts) : h[j] = Replay(h[j - 1], cuts[j])
  /\ Remade(cells, cuts) = h[Len(cuts)]

(* Remade is the last of its steps.                                           *)
LEMMA RemadeSteps ==
  ASSUME NEW S, NEW cuts \in Seq(S), NEW cells
  PROVE  \E h : RemadeBy(h, cells, cuts)
<1> DEFINE n == Len(cuts)
           Step(h) == [j \in 0 .. n |-> IF j = 0 THEN cells ELSE Replay(h[j - 1], cuts[j])]
           made == CHOOSE h : h = Step(h)
<1>1. n \in Nat
  OBVIOUS
<1>2. \E h : h = Step(h)
  <2>1. PICK h : Remakes(h, n, cells, cuts)
    <3> HIDE DEF n
    <3> QED BY <1>1, RemakingExists
  <2>2. h = Step(h)
    BY <2>1 DEF Remakes
  <2> QED BY <2>2
<1>3. made = Step(made)
  <2> HIDE DEF Step
  <2> QED BY <1>2
<1>4. Remade(cells, cuts) = made[n]
  BY DEF Remade
<1> HIDE DEF made
<1>5. 0 \in 0 .. n /\ \A j \in 1 .. n : j \in 0 .. n /\ j # 0
  BY <1>1
<1>6. made[0] = cells /\ \A j \in 1 .. n : made[j] = Replay(made[j - 1], cuts[j])
  BY <1>3, <1>5
<1> QED BY <1>4, <1>6 DEF RemadeBy

(* Nothing asked for makes nothing of them.                                  *)
LEMMA RemadeOfNone == \A cells : Remade(cells, <<>>) = cells
<1> TAKE cells
<1>1. <<>> \in Seq({}) /\ Len(<<>>) = 0
  OBVIOUS
<1>2. PICK h : RemadeBy(h, cells, <<>>)
  BY <1>1, RemadeSteps
<1> QED BY <1>1, <1>2 DEF RemadeBy

(* One more is made of what those before it made.                            *)
LEMMA RemadeOfAppend ==
  ASSUME NEW S, NEW cuts \in Seq(S), NEW asked, NEW cells
  PROVE  Remade(cells, Append(cuts, asked)) = Replay(Remade(cells, cuts), asked)
<1> DEFINE n == Len(cuts)
           more == Append(cuts, asked)
           U == S \union {asked}
<1>1. cuts \in Seq(U) /\ asked \in U
  OBVIOUS
<1>2. /\ n \in Nat /\ more \in Seq(U) /\ Len(more) = n + 1 /\ more[n + 1] = asked
      /\ \A j \in 1 .. n : more[j] = cuts[j]
  <2> HIDE DEF U
  <2> QED BY <1>1
<1>3. PICK h : RemadeBy(h, cells, cuts)
  BY RemadeSteps
<1> HIDE DEF more, U
<1>4. PICK g : RemadeBy(g, cells, more)
  BY <1>2, RemadeSteps
<1> DEFINE Same == {j \in 0 .. n : g[j] = h[j]}
<1>5. 0 \in Same
  BY <1>2, <1>3, <1>4 DEF RemadeBy
<1>6. ASSUME NEW j \in 0 .. n - 1, j \in Same PROVE j + 1 \in Same
  <2>0. j \in Nat /\ j <= n - 1
    BY <1>2
  <2> DEFINE m == j + 1
  <2>1. m \in 1 .. n /\ m - 1 = j /\ m \in 0 .. n /\ m \in 1 .. n + 1
    BY <1>2, <2>0
  <2> HIDE DEF m, n
  <2>2. h[m] = Replay(h[j], cuts[m])
    BY <1>3, <2>1 DEF RemadeBy, n
  <2>3. g[m] = Replay(g[j], more[m])
    BY <1>2, <1>4, <2>1 DEF RemadeBy
  <2>4. g[j] = h[j] /\ more[m] = cuts[m]
    BY <1>2, <1>6, <2>1
  <2> QED BY <2>1, <2>2, <2>3, <2>4 DEF m
<1>7. n \in Same
  <2> HIDE DEF Same, n
  <2>1. \A j \in 0 .. n : j \in Same
    BY <1>2, <1>5, <1>6, Induction
  <2> QED BY <1>2, <2>1
<1> DEFINE m == n + 1
<1>8. m \in 1 .. Len(more) /\ m - 1 = n /\ Len(more) = m /\ more[m] = asked
  BY <1>2
<1> HIDE DEF m, n
<1>9. g[m] = Replay(g[n], asked)
  BY <1>4, <1>8 DEF RemadeBy
<1>10. Remade(cells, more) = g[m]
  BY <1>4, <1>8 DEF RemadeBy
<1>11. Remade(cells, cuts) = h[n]
  BY <1>3 DEF RemadeBy, n
<1> QED BY <1>7, <1>9, <1>10, <1>11 DEF more

(* Empty lists on either side of a list of lists add nothing to it.          *)
LEMMA FlattenPadded ==
  ASSUME NEW E, NEW n \in Nat, NEW f \in [1 .. n -> Seq(E)], NEW low \in 0 .. n, NEW high \in low .. n,
         \A k \in 1 .. n : k <= low \/ k > high => f[k] = <<>>
  PROVE  /\ FlattenSeq(f) = FlattenSeq([k \in 1 .. high - low |-> f[low + k]])
         /\ FlattenSeq(f) \in Seq(E)
<1> DEFINE m == high - low
           g == [k \in 1 .. m |-> f[low + k]]
<1>1. /\ m \in Nat /\ low \in Nat /\ high \in Nat /\ low <= high /\ high <= n /\ n - high \in Nat
      /\ low + m = high
  OBVIOUS
<1>2. g \in [1 .. m -> Seq(E)]
  <2>1. \A k \in 1 .. m : low + k \in 1 .. n
    BY <1>1
  <2> QED BY <2>1
<1>3. PICK h : Flattens(h, E, n, f)
  BY FlattenSteps
<1>4. PICK u : Flattens(u, E, m, g)
  <2> HIDE DEF m, g
  <2> QED BY <1>1, <1>2, FlattenSteps
<1> HIDE DEF m
<1>5. FlattenSeq(f) = h[n] /\ h[n] \in Seq(E)
  <2>1. f = [i \in 1 .. n |-> f[i]]
    OBVIOUS
  <2> QED BY <1>3, <2>1 DEF Flattens
<1>6. FlattenSeq(g) = u[m]
  <2>1. g = [i \in 1 .. m |-> g[i]]
    OBVIOUS
  <2> HIDE DEF g
  <2> QED BY <1>1, <1>4, <2>1 DEF Flattens
<1>7. \A k \in 0 .. low : h[k] = <<>>
  <2> DEFINE T == {k \in 0 .. low : h[k] = <<>>}
  <2>1. 0 \in T
    BY <1>1, <1>3 DEF Flattens
  <2>2. ASSUME NEW k \in 0 .. low - 1, k \in T PROVE k + 1 \in T
    <3>0. k \in Nat
      BY <1>1
    <3> DEFINE j == k + 1
    <3>1. j \in 1 .. n /\ j <= low /\ j - 1 = k /\ j \in 0 .. low
      BY <1>1, <3>0
    <3> HIDE DEF j
    <3>2. h[j] = h[k] \o f[j] /\ f[j] = <<>>
      BY <1>3, <3>1 DEF Flattens
    <3>3. <<>> \o <<>> = <<>>
      OBVIOUS
    <3> QED BY <2>2, <3>1, <3>2, <3>3 DEF j
  <2> HIDE DEF T
  <2>3. \A k \in 0 .. low : k \in T
    BY <1>1, <2>1, <2>2, Induction
  <2> QED BY <2>3 DEF T
<1>8. \A k \in 0 .. m : h[low + k] = u[k]
  <2> DEFINE T == {k \in 0 .. m : h[low + k] = u[k]}
  <2>1. 0 \in T
    <3>1. low + 0 = low /\ low \in 0 .. low /\ 0 \in 0 .. m
      BY <1>1
    <3> QED BY <1>4, <1>7, <3>1 DEF Flattens
  <2>2. ASSUME NEW k \in 0 .. m - 1, k \in T PROVE k + 1 \in T
    <3>0. k \in Nat
      BY <1>1
    <3> DEFINE j == k + 1
               i == low + j
    <3>1. j \in 1 .. m /\ j \in 0 .. m /\ j - 1 = k /\ i \in 1 .. n /\ i - 1 = low + k
      BY <1>1, <3>0
    <3>2. h[low + k] = u[k]
      BY <2>2
    <3>3. g[j] = f[i]
      BY <3>1
    <3> HIDE DEF j, i, g
    <3>4. h[i] = h[low + k] \o f[i]
      BY <1>3, <3>1 DEF Flattens
    <3>5. u[j] = u[k] \o g[j]
      BY <1>4, <3>1 DEF Flattens
    <3>6. h[low + j] = u[j]
      BY <3>2, <3>3, <3>4, <3>5 DEF i
    <3> QED BY <3>1, <3>6 DEF j
  <2> HIDE DEF T
  <2>3. \A k \in 0 .. m : k \in T
    BY <1>1, <2>1, <2>2, Induction
  <2> QED BY <2>3 DEF T
<1>9. \A k \in 0 .. n - high : h[high + k] = h[high]
  <2> DEFINE T == {k \in 0 .. n - high : h[high + k] = h[high]}
             q == n - high
  <2>1. 0 \in T
    BY <1>1
  <2>2. ASSUME NEW k \in 0 .. q - 1, k \in T PROVE k + 1 \in T
    <3>0. k \in Nat
      BY <1>1
    <3> DEFINE j == high + (k + 1)
    <3>1. j \in 1 .. n /\ j > high /\ j - 1 = high + k /\ k + 1 \in 0 .. n - high
      BY <1>1, <3>0
    <3> HIDE DEF j
    <3>2. h[j] = h[high + k] \o f[j] /\ f[j] = <<>>
      BY <1>3, <3>1 DEF Flattens
    <3>3. h[high + k] = h[high]
      BY <2>2
    <3>4. h[high] \in Seq(E)
      <4>1. high \in 0 .. n
        BY <1>1
      <4> QED BY <1>3, <4>1 DEF Flattens
    <3>5. h[high] \o <<>> = h[high]
      BY <3>4
    <3>6. h[j] = h[high]
      BY <3>2, <3>3, <3>5
    <3> QED BY <3>1, <3>6 DEF j
  <2>4. q \in Nat
    BY <1>1
  <2> HIDE DEF T
  <2>3. \A k \in 0 .. q : k \in T
    <3> HIDE DEF q
    <3> QED BY <2>4, <2>1, <2>2, Induction
  <2> QED BY <2>3 DEF T
<1>10. h[n] = h[high] /\ h[high] = u[m]
  <2>1. n - high \in 0 .. n - high /\ high + (n - high) = n /\ m \in 0 .. m
    BY <1>1
  <2> QED BY <1>1, <1>8, <1>9, <2>1
<1> QED BY <1>5, <1>6, <1>10 DEF m

\* The lesser of two numbers.
Lesser(x, a, b) == x \in {a, b} /\ x <= a /\ x <= b

(* Min of two numbers is the lesser one.                                      *)
LEMMA LesserOfTwo ==
  ASSUME NEW a \in Int, NEW b \in Int
  PROVE  Lesser(Min({a, b}), a, b)
<1>1. \E x \in {a, b} : \A y \in {a, b} : x <= y
  <2>1. CASE a <= b
    BY <2>1
  <2>2. CASE b <= a
    BY <2>2
  <2> QED BY <2>1, <2>2
<1> QED BY <1>1 DEF Min, Lesser

\* Where the segments of a range begin and end.
Between(segments, range, low, high) ==
  /\ low \in 0 .. Len(segments) /\ high \in low .. Len(segments)
  /\ Len(Selected(segments, range)) = high - low
  /\ Selected(segments, range) \in Seq(Segments)
  /\ \A k \in 1 .. high - low : Selected(segments, range)[k] = segments[low + k]
  /\ \A k \in 1 .. Len(segments) :
       (range # None => range[1] < k /\ k <= range[2]) <=> low < k /\ k <= high

(* A range that selects anything selects the segments between two places.     *)
LEMMA SelectedBetween ==
  ASSUME NEW segments \in Seq(Segments), NEW range, range = None \/ range \in Nat \X Nat,
         Selected(segments, range) # <<>>
  PROVE  \E low, high : Between(segments, range, low, high)
<1> DEFINE N == Len(segments)
<1>0. N \in Nat
  OBVIOUS
<1>1. CASE range = None
  <2>1. Selected(segments, range) = segments
    BY <1>1 DEF Selected
  <2>2. Between(segments, range, 0, N)
    BY <1>0, <1>1, <2>1 DEF Between
  <2> QED BY <2>2
<1>2. CASE range # None
  <2> DEFINE low == range[1]
             end == range[2]
             high == Min({end, N})
             chosen == Selected(segments, range)
  <2>1. low \in Nat /\ end \in Nat
    BY <1>2
  <2>2. high \in {end, N} /\ high <= end /\ high <= N
    <3> HIDE DEF end, N
    <3>1. Lesser(Min({end, N}), end, N)
      BY <1>0, <2>1, LesserOfTwo
    <3> QED BY <3>1 DEF Lesser
  <2>3. chosen = SubSeq(segments, low + 1, high)
    BY <1>2 DEF Selected
  <2> HIDE DEF low, end, high, chosen
  <2>4. low < high
    <3> SUFFICES ASSUME ~(low < high) PROVE FALSE
      OBVIOUS
    <3>1. high \in Nat
      BY <1>0, <2>1, <2>2
    <3>2. low + 1 > high
      BY <2>1, <3>1
    <3>3. SubSeq(segments, low + 1, high) = <<>>
      BY <1>0, <2>1, <3>1, <3>2
    <3> QED BY <2>3, <3>3 DEF chosen
  <2>5. chosen \in Seq(Segments) /\ Len(chosen) = high - low
        /\ \A k \in 1 .. high - low : chosen[k] = segments[low + k]
    <3>1. low + 1 \in 1 .. N + 1 /\ high \in Nat /\ high <= N /\ low + 1 <= high
      BY <1>0, <2>1, <2>2, <2>4
    <3>2. /\ SubSeq(segments, low + 1, high) \in Seq(Segments)
          /\ Len(SubSeq(segments, low + 1, high)) = high - (low + 1) + 1
          /\ \A k \in 1 .. high - (low + 1) + 1 :
               SubSeq(segments, low + 1, high)[k] = segments[low + 1 + k - 1]
      BY <2>1, <3>1
    <3>3. high - (low + 1) + 1 = high - low
      BY <2>1, <3>1
    <3>4. ASSUME NEW k \in 1 .. high - low PROVE chosen[k] = segments[low + k]
      <4>1. low + 1 + k - 1 = low + k
        BY <2>1, <3>1
      <4> QED BY <2>3, <3>2, <3>3, <4>1
    <3> QED BY <2>3, <3>2, <3>3, <3>4
  <2>6. \A k \in 1 .. N : low < k /\ k <= end <=> low < k /\ k <= high
    BY <1>0, <2>1, <2>2
  <2>7. low \in 0 .. N /\ high \in low .. N
    BY <1>0, <2>1, <2>2, <2>4
  <2>8. Between(segments, range, low, high)
    BY <1>2, <2>5, <2>6, <2>7 DEF Between, chosen, low, end, N
  <2> QED BY <2>8
<1> QED BY <1>1, <1>2

\* The motions a run is made of.
RunList(segments, range, chords, profiles) ==
  LET chosen == Selected(segments, range)
  IN  FlattenSeq([k \in DOMAIN chosen |-> segment_motion(chosen[k], profiles[chosen[k].tool], chords)])

(* They are the motions from scratch, whatever the range.                    *)
LEMMA RunIsReplay ==
  ASSUME NEW asked, asked.segments \in Seq(Segments), asked.library.tools \in SUBSET ToolKinds,
         asked.range = None \/ asked.range \in Nat \X Nat, asked.chords \in BOOLEAN,
         NEW profiles \in resolve_tools(asked.library, asked.tool, asked.segments),
         Selected(asked.segments, asked.range) # <<>>
  PROVE  /\ RunList(asked.segments, asked.range, asked.chords, profiles) \in Seq(Motions)
         /\ \A cells : SequentialField(RunList(asked.segments, asked.range, asked.chords, profiles), cells)
                         = Replay(cells, asked)
<1> DEFINE N == Len(asked.segments)
           Named(number) == IF asked.tool # None THEN ById(asked.library, asked.tool)
                            ELSE ByNumber(asked.library, number)
           cutter(number) == (CHOOSE t \in Named(number) : TRUE).profile
           Of(segment) == CASE segment.lost -> <<>>
                            [] ~segment.lost /\ asked.chords /\ segment.chords # None ->
                                 segment.chords[cutter(segment.tool).id]
                            [] OTHER -> <<segment.native[cutter(segment.tool).id]>>
           chosen == Selected(asked.segments, asked.range)
           Wanted == {k \in 1 .. N : asked.range # None => asked.range[1] < k /\ k <= asked.range[2]}
           f == [k \in 1 .. N |-> IF k \in Wanted THEN Of(asked.segments[k]) ELSE <<>>]
<1>1. PICK low, high : Between(asked.segments, asked.range, low, high)
  BY SelectedBetween
<1>2. /\ N \in Nat /\ low \in 0 .. N /\ high \in low .. N /\ Len(chosen) = high - low
      /\ DOMAIN asked.segments = 1 .. N /\ DOMAIN chosen = 1 .. high - low
      /\ \A k \in 1 .. high - low : chosen[k] = asked.segments[low + k]
      /\ \A k \in 1 .. N : k \in Wanted <=> low < k /\ k <= high
      /\ \A k \in 1 .. N : asked.segments[k] \in Segments
  BY <1>1 DEF Between
<1>3. ASSUME NEW k \in 1 .. N
      PROVE  /\ Named(asked.segments[k].tool) # {}
             /\ profiles[asked.segments[k].tool] = cutter(asked.segments[k].tool)
  <2> DEFINE numbers == {s.tool : s \in Range(asked.segments)}
             Found(n) == IF asked.tool # None THEN ById(asked.library, asked.tool) ELSE ByNumber(asked.library, n)
  <2>1. asked.segments[k].tool \in numbers
    BY <1>2 DEF Range
  <2>2. /\ \A n \in numbers : Found(n) # {}
        /\ profiles = [n \in numbers |-> (CHOOSE t \in Found(n) : TRUE).profile]
    <3> HIDE DEF numbers, Found
    <3>1. resolve_tools(asked.library, asked.tool, asked.segments)
            = IF \E n \in numbers : Found(n) = {} THEN {}
              ELSE {[n \in numbers |-> (CHOOSE t \in Found(n) : TRUE).profile]}
      BY DEF resolve_tools, numbers, Found
    <3> QED BY <3>1
  <2> HIDE DEF numbers
  <2> QED BY <2>1, <2>2
<1>4. ASSUME NEW k \in 1 .. N PROVE cutter(asked.segments[k].tool).id \in Cutters
  <2> DEFINE T == Named(asked.segments[k].tool)
             t == CHOOSE x \in T : TRUE
  <2>1. T # {} /\ T \subseteq asked.library.tools
    BY <1>3 DEF ById, ByNumber
  <2>2. t \in T
    <3> HIDE DEF T
    <3> QED BY <2>1
  <2>3. t \in ToolKinds
    <3> HIDE DEF T, t
    <3> QED BY <2>1, <2>2
  <2>4. cutter(asked.segments[k].tool).id = t.profile.id
    OBVIOUS
  <2> HIDE DEF T, t
  <2> QED BY <2>3, <2>4 DEF ToolKinds
<1>5. ASSUME NEW k \in 1 .. N
      PROVE  /\ Of(asked.segments[k]) \in Seq(Motions)
             /\ Of(asked.segments[k]) = segment_motion(asked.segments[k], profiles[asked.segments[k].tool], asked.chords)
  <2> DEFINE s == asked.segments[k]
             id == cutter(s.tool).id
  <2>1. s \in Segments /\ id \in Cutters
    BY <1>2, <1>4
  <2>2. profiles[s.tool].id = id
    BY <1>3
  <2>3. /\ s.lost \in BOOLEAN /\ s.native[id] \in Motions
        /\ s.chords # None => s.chords[id] \in Seq(Motions)
    <3> HIDE DEF s, id
    <3> QED BY <2>1 DEF Segments
  <2>4. Of(s) = CASE s.lost -> <<>>
                  [] ~s.lost /\ asked.chords /\ s.chords # None -> s.chords[id]
                  [] OTHER -> <<s.native[id]>>
    OBVIOUS
  <2>5. segment_motion(s, profiles[s.tool], asked.chords)
          = IF s.lost THEN <<>> ELSE IF asked.chords /\ s.chords # None THEN s.chords[id]
            ELSE <<s.native[id]>>
    <3> HIDE DEF s, id
    <3> QED BY <2>2 DEF segment_motion
  <2> HIDE DEF Of, s, id
  <2>6. Of(s) \in Seq(Motions) /\ Of(s) = segment_motion(s, profiles[s.tool], asked.chords)
    BY <2>3, <2>4, <2>5
  <2> QED BY <2>6 DEF s
<1> HIDE DEF Of, Named, cutter
<1>6. f \in [1 .. N -> Seq(Motions)]
  <2>1. <<>> \in Seq(Motions)
    OBVIOUS
  <2> HIDE DEF Wanted, N
  <2> QED BY <1>5, <2>1
<1>7. \A k \in 1 .. N : k <= low \/ k > high => f[k] = <<>>
  <2> HIDE DEF Wanted
  <2> QED BY <1>2
<1>8. /\ FlattenSeq(f) = FlattenSeq([k \in 1 .. high - low |-> f[low + k]])
      /\ FlattenSeq(f) \in Seq(Motions)
  <2> HIDE DEF f, N, chosen, Wanted
  <2> QED BY <1>2, <1>6, <1>7, FlattenPadded
<1>9. [k \in 1 .. high - low |-> f[low + k]]
        = [k \in DOMAIN chosen |-> segment_motion(chosen[k], profiles[chosen[k].tool], asked.chords)]
  <2> SUFFICES ASSUME NEW k \in 1 .. high - low
               PROVE  f[low + k] = segment_motion(chosen[k], profiles[chosen[k].tool], asked.chords)
    BY <1>2
  <2> DEFINE j == low + k
  <2>1. j \in 1 .. N /\ low < j /\ j <= high
    BY <1>2
  <2>2. chosen[k] = asked.segments[j]
    BY <1>2
  <2> HIDE DEF j, chosen
  <2>3. j \in Wanted
    BY <1>2, <2>1
  <2>4. f[j] = Of(asked.segments[j])
    BY <2>1, <2>3
  <2> HIDE DEF f
  <2>5. f[j] = segment_motion(asked.segments[j], profiles[asked.segments[j].tool], asked.chords)
    BY <1>5, <2>1, <2>4
  <2> QED BY <2>2, <2>5 DEF j
<1>10. RunList(asked.segments, asked.range, asked.chords, profiles) = FlattenSeq(f)
  <2> HIDE DEF f, N
  <2> QED BY <1>8, <1>9 DEF RunList
<1>11. ASSUME NEW cells PROVE Replay(cells, asked) = SequentialField(FlattenSeq(f), cells)
  <2>1. DOMAIN asked.segments = 1 .. N
    BY <1>2
  <2> HIDE DEF N
  <2>2. Replay(cells, asked) = SequentialField(FlattenSeq(
          [k \in DOMAIN asked.segments |-> IF k \in {j \in DOMAIN asked.segments :
               asked.range # None => asked.range[1] < j /\ j <= asked.range[2]}
             THEN Of(asked.segments[k]) ELSE <<>>]), cells)
    BY DEF Replay, Of, Named, cutter
  <2> QED BY <2>1, <2>2
<1> HIDE DEF f
<1> QED BY <1>8, <1>10, <1>11

-----------------------------------------------------------------------------
(* The files a session leaves.                                               *)

\* A field is what the cuts made on it make of what it was built from.
FieldFile(file) ==
  /\ DOMAIN file = {"kind", "whole", "axes", "spacing", "cells", "from", "cuts"}
  /\ file.kind = "field" /\ file.cells \in Fields
  /\ \E A : file.cuts \in Seq(A)
  /\ file.cells = Remade(file.from, file.cuts)

MeshFile(file) ==
  DOMAIN file = {"kind", "whole", "form", "shape"} /\ file.kind = "mesh" /\ file.shape \in Shapes

OtherFile(file) == DOMAIN file = {"kind", "whole"} /\ file.kind \in {"picture", "report", "text"}

\* What a command may write, and what there may be.
Writable(file) == FieldFile(file) \/ MeshFile(file) \/ OtherFile(file)

KnownFile(file) ==
  \/ file = None
  \/ Writable(file)
  \/ file.kind = "program" /\ file.segments \in Seq(Segments)
  \/ file.kind = "library" /\ file.tools \in SUBSET ToolKinds

FilesKnown(d) == DOMAIN d = Paths /\ \A p \in Paths : KnownFile(d[p])

(* A file nothing has been done to is known.                                  *)
LEMMA FirstFilesKnown == \A file \in FirstFiles : KnownFile(file)
<1> SUFFICES ASSUME NEW file \in FirstFiles PROVE KnownFile(file)
  OBVIOUS
<1> DEFINE IsField == file \in {x \in [kind : {"field"}, whole : BOOLEAN, axes : SUBSET AxisOf,
                    spacing : [AxisOf -> Nat], cells : Fields, from : Fields, cuts : {<<>>}] :
                    x.from = x.cells}
           IsMesh == file \in [kind : {"mesh"}, whole : BOOLEAN, form : {"stl", "stla", "obj", "3mf"},
                               shape : Shapes]
           IsProgram == file \in [kind : {"program"}, whole : BOOLEAN, segments : Seq(Segments),
                     parses : BOOLEAN, strictly : BOOLEAN, retracts : BOOLEAN, hits : BOOLEAN]
           IsLibrary == file \in [kind : {"library"}, whole : BOOLEAN, tools : SUBSET ToolKinds]
           IsOther == file \in [kind : {"picture", "report", "text"}, whole : BOOLEAN]
<1>1. file = None \/ IsField \/ IsMesh \/ IsProgram \/ IsLibrary \/ IsOther
  BY DEF FirstFiles
<1>2. CASE IsField
  <2>1. file.kind = "field" /\ file.cells \in Fields /\ file.from = file.cells /\ file.cuts = <<>>
        /\ DOMAIN file = {"kind", "whole", "axes", "spacing", "cells", "from", "cuts"}
    BY <1>2
  <2>2. file.cuts \in Seq({}) /\ file.cells = Remade(file.from, file.cuts)
    BY <2>1, RemadeOfNone
  <2> QED BY <2>1, <2>2 DEF KnownFile, Writable, FieldFile
<1>3. CASE IsMesh
  BY <1>3 DEF KnownFile, Writable, MeshFile
<1>4. CASE IsProgram
  BY <1>4 DEF KnownFile
<1>5. CASE IsLibrary
  BY <1>5 DEF KnownFile
<1>6. CASE IsOther
  BY <1>6 DEF KnownFile, Writable, OtherFile
<1> HIDE DEF IsField, IsMesh, IsProgram, IsLibrary, IsOther
<1> QED BY <1>1, <1>2, <1>3, <1>4, <1>5, <1>6 DEF KnownFile

(* What a write that ends early leaves is a file of the same kind.           *)
LEMMA TornIsWritable ==
  ASSUME NEW file, Writable(file), NEW rest \in Torn(file)
  PROVE  Writable(rest)
<1>1. CASE FieldFile(file)
  <2>1. rest = [file EXCEPT !.whole = FALSE]
    BY <1>1 DEF Torn, FieldFile
  <2>2. /\ DOMAIN rest = DOMAIN file /\ rest.kind = file.kind /\ rest.cells = file.cells
        /\ rest.from = file.from /\ rest.cuts = file.cuts
    BY <1>1, <2>1 DEF FieldFile
  <2> QED BY <1>1, <2>2 DEF FieldFile, Writable
<1>2. CASE OtherFile(file)
  <2>1. rest = [file EXCEPT !.whole = FALSE]
    BY <1>2 DEF Torn, OtherFile
  <2>2. DOMAIN rest = DOMAIN file /\ rest.kind = file.kind
    BY <1>2, <2>1 DEF OtherFile
  <2> QED BY <1>2, <2>2 DEF OtherFile, Writable
<1>3. CASE MeshFile(file)
  <2>1. CASE file.form = "stl"
    <3>1. rest = [file EXCEPT !.whole = FALSE]
      BY <2>1 DEF Torn
    <3>2. DOMAIN rest = DOMAIN file /\ rest.kind = file.kind /\ rest.shape = file.shape
      BY <1>3, <3>1 DEF MeshFile
    <3> QED BY <1>3, <3>2 DEF MeshFile, Writable
  <2>2. CASE file.form # "stl"
    <3>1. PICK piece \in file.shape.pieces : rest = [file EXCEPT !.whole = FALSE, !.shape = piece]
      BY <1>3, <2>2 DEF Torn, MeshFile
    <3>2. piece \in Shapes
      BY <1>3, <3>1, SessionAssumption DEF MeshFile
    <3>3. DOMAIN rest = DOMAIN file /\ rest.kind = file.kind /\ rest.shape = piece
      BY <1>3, <3>1 DEF MeshFile
    <3> QED BY <1>3, <3>2, <3>3 DEF MeshFile, Writable
  <2> QED BY <2>1, <2>2
<1> QED BY <1>1, <1>2, <1>3 DEF Writable

(* A file that reads as a mesh reads as one there is, and is sound.          *)
LEMMA LoadIsSound ==
  ASSUME NEW file, KnownFile(file), NEW units, load(file, units) # None
  PROVE  load(file, units) \in Shapes /\ Sound(file)
<1>1. file # None /\ (Format(file) = "stl" => Has(file, "mesh"))
      /\ load(file, units) = IF file.kind = "mesh" THEN file.shape ELSE NoShape
  BY DEF load
<1>2. load(file, units) \in Shapes
  <2>1. file.kind = "mesh" => file.shape \in Shapes
    BY <1>1 DEF KnownFile, Writable, FieldFile, MeshFile, OtherFile
  <2> QED BY <1>1, <2>1, SessionAssumption
<1>3. Sound(file)
  <2>1. ASSUME Binary(file) PROVE file.whole
    <3>1. Format(file) = "stl"
      BY <2>1 DEF Format, Binary
    <3> QED BY <1>1, <3>1 DEF Has
  <2> QED BY <1>1, <2>1 DEF Sound
<1> QED BY <1>2, <1>3

(* A file that is read as what it should be is sound.                         *)
LEMMA HasIsSound == \A file, kind : Has(file, kind) => Sound(file)
BY DEF Has, Sound

\* What an answer must be: it writes what can be written, and where it says yes
\* or, of some verbs, no, the files were sound.
Deciding == {"run", "extract", "compare", "collide", "dexel deviation", "dexel coverage"}
InputsSound(c) == \A file \in Inputs(c) : Sound(file)
Honest(c, answer) ==
  /\ answer.out = None \/ Writable(answer.out)
  /\ answer.exit = 0 \/ (answer.exit = 1 /\ c.verb \in Deciding) => InputsSound(c)

\* The files behind a command's arguments.
ArgumentsSound(c) ==
  /\ \A k \in Must(c.verb) \cup May(c.verb) : c[k] # None => Sound(disk[c[k]])
  /\ c.verb = "collide" => \A p \in c.fixtures : Sound(disk[p])

(* The files a command is given are those its arguments name.                 *)
LEMMA ArgumentsAreInputs ==
  ASSUME NEW c, WellFormed(c), ArgumentsSound(c)
  PROVE  InputsSound(c)
<1> SUFFICES ASSUME NEW file \in Inputs(c) PROVE Sound(file)
  BY DEF InputsSound
<1>1. PICK p \in ({c[k] : k \in DOMAIN c \cap FileKeys}
                    \cup (IF "fixtures" \in DOMAIN c THEN c.fixtures ELSE {})) \ {None} :
         file = disk[p]
  BY DEF Inputs
<1>2. CASE \E k \in DOMAIN c \cap FileKeys : p = c[k]
  BY <1>1, <1>2 DEF WellFormed, ArgumentsSound
<1>3. CASE "fixtures" \in DOMAIN c /\ p \in c.fixtures
  BY <1>1, <1>3 DEF WellFormed, ArgumentsSound
<1> QED BY <1>1, <1>2, <1>3

\* The arguments of a verb, told apart.
LEMMA ArgumentsOf ==
  ASSUME NEW c
  PROVE  /\ c.verb \in MeshVerbs \cup FieldVerbs => Must(c.verb) = {"file"} /\ May(c.verb) = {}
         /\ c.verb \in MeasureVerbs => Must(c.verb) = {"file", "mesh"} /\ May(c.verb) = {}
         /\ c.verb \in CompareVerbs => Must(c.verb) = {"file", "nominal"} /\ May(c.verb) = {"stock"}
         /\ c.verb \in PathVerbs \cup {"path lint"} => Must(c.verb) = {"path"} /\ May(c.verb) = {"tools"}
         /\ c.verb \in ToolVerbs => Must(c.verb) = {} /\ May(c.verb) = {"tools"}
         /\ c.verb = "dexel build" => Must(c.verb) = {"mesh"} /\ May(c.verb) = {}
         /\ c.verb = "mem-estimate" => Must(c.verb) = {"mesh"} /\ May(c.verb) = {"path"}
         /\ c.verb = "run" => Must(c.verb) = {"file", "path"} /\ May(c.verb) = {"tools"}
         /\ c.verb = "collide" => Must(c.verb) = {"file", "path", "tools"} /\ May(c.verb) = {}
         /\ c.verb \in OwnVerbs => Must(c.verb) = {} /\ May(c.verb) = {}
BY DEF Must, May, MeshVerbs, FieldVerbs, MeasureVerbs, CompareVerbs, PathVerbs, ToolVerbs, OwnVerbs

(* What a verb that need not write comes to: what it was asked to write or   *)
(* nothing.                                                                  *)
LEMMA WritesAtMost ==
  ASSUME NEW where, NEW exit, NEW content,
         NEW a, a = IfNamed(where, [exit |-> exit, out |-> content])
  PROVE  a.out = None \/ a.out = content
<1> DEFINE answer == [exit |-> exit, out |-> content]
<1>1. answer.out = content /\ [answer EXCEPT !.out = None].out = None
  OBVIOUS
<1>2. a = answer \/ a = [answer EXCEPT !.out = None]
  BY DEF IfNamed
<1> HIDE DEF answer
<1> QED BY <1>1, <1>2

(* Such an answer is its exit code and its content.                           *)
LEMMA WritesIsARecord ==
  ASSUME NEW yes, NEW content
  PROVE  \E exit : Writes(yes, content) = [exit |-> exit, out |-> content]
<1> DEFINE exit == IF yes THEN 0 ELSE 1
<1>1. Writes(yes, content) = [[exit |-> exit, out |-> None] EXCEPT !.out = content]
  BY DEF Writes, Says
<1> HIDE DEF exit
<1>2. [[exit |-> exit, out |-> None] EXCEPT !.out = content] = [exit |-> exit, out |-> content]
  OBVIOUS
<1> QED BY <1>1, <1>2

(* Each verb's answer is honest, given files that are known.                 *)

(* dexel build: the field is cut from a mesh that was whole.                  *)
LEMMA BuildIsHonest ==
  ASSUME NEW c, WellFormed(c), FilesKnown(disk), Must(c.verb) = {"mesh"}, May(c.verb) = {}, c.verb # "collide"
  PROVE  Honest(c, dexel_build(disk, c))
<1> DEFINE shape == load(disk[c.mesh], c.units)
           cells == [b \in DOMAIN shape.cells |-> [r \in DOMAIN shape.cells[b] |->
                      IF b \in c.axes THEN shape.cells[b][r] ELSE {}]]
           built == [kind |-> "field", whole |-> TRUE, axes |-> c.axes, spacing |-> Spacing(c),
                     cells |-> cells, from |-> cells, cuts |-> <<>>]
           exit == IF \E axis \in c.axes : uneven(built, axis) THEN Crash ELSE 0
           a == dexel_build(disk, c)
<1> SUFFICES Honest(c, a)
  OBVIOUS
<1>1. c.mesh \in Paths
  BY DEF WellFormed
<1>2. KnownFile(disk[c.mesh])
  BY <1>1 DEF FilesKnown
<1>3. \/ a = CouldNot
      \/ shape # None /\ (a = Says(TRUE) \/ a = IfNamed(c.out, [exit |-> exit, out |-> built]))
  <2> HIDE DEF exit
  <2> QED BY DEF dexel_build, exit
<1>4. CASE a = CouldNot
  <2> HIDE DEF a, shape, cells, built, exit
  <2>1. a.out = None /\ a.exit = 2
    BY <1>4 DEF CouldNot
  <2> QED BY <2>1 DEF Honest
<1>5. CASE shape # None /\ (a = Says(TRUE) \/ a = IfNamed(c.out, [exit |-> exit, out |-> built]))
  <2>1. shape \in Shapes /\ Sound(disk[c.mesh])
    BY <1>2, <1>5, LoadIsSound
  <2>2. InputsSound(c)
    BY <1>1, <2>1, ArgumentsAreInputs DEF ArgumentsSound
  <2>3. cells \in Fields
    <3>1. shape.cells \in Fields
      BY <2>1, SessionAssumption
    <3> HIDE DEF shape
    <3> QED BY <3>1 DEF Fields
  <2>4. FieldFile(built)
    <3> DEFINE axes == c.axes
               spacing == Spacing(c)
    <3> HIDE DEF cells, axes, spacing
    <3>1. built = [kind |-> "field", whole |-> TRUE, axes |-> axes, spacing |-> spacing,
                   cells |-> cells, from |-> cells, cuts |-> <<>>]
      BY DEF axes, spacing
    <3> HIDE DEF built
    <3>2. /\ DOMAIN built = {"kind", "whole", "axes", "spacing", "cells", "from", "cuts"}
          /\ built.kind = "field" /\ built.cells = cells /\ built.from = cells
      BY <3>1
    <3>4. built.cuts = <<>>
      BY <3>1
    <3>3. <<>> \in Seq({}) /\ Remade(cells, <<>>) = cells
      <4>1. Remade(cells, <<>>) = cells
        BY RemadeOfNone
      <4>2. <<>> \in Seq({})
        OBVIOUS
      <4> QED BY <4>1, <4>2
    <3> QED BY <2>3, <3>2, <3>3, <3>4 DEF FieldFile
  <2> HIDE DEF shape, cells, built, exit, a
  <2>5. a.out = None \/ a.out = built
    <3>1. CASE a = Says(TRUE)
      BY <3>1 DEF Says
    <3>2. CASE a = IfNamed(c.out, [exit |-> exit, out |-> built])
      <4> DEFINE where == c.out
      <4>1. a = IfNamed(where, [exit |-> exit, out |-> built])
        BY <3>2
      <4> HIDE DEF where
      <4> QED BY <4>1, WritesAtMost
    <3> QED BY <1>5, <3>1, <3>2
  <2> QED BY <2>2, <2>4, <2>5 DEF Honest, Writable
<1> QED BY <1>3, <1>4, <1>5

(* A mesh is written with a shape there is.                                   *)
LEMMA WriteMeshIsWritable ==
  ASSUME NEW where, NEW yes, NEW shape \in Shapes
  PROVE  write_mesh(where, yes, shape).out = None \/ Writable(write_mesh(where, yes, shape).out)
<1> DEFINE file == [kind |-> "mesh", whole |-> TRUE, form |-> IF where = None THEN None ELSE where.form,
                    shape |-> shape]
           a == write_mesh(where, yes, shape)
<1>1. MeshFile(file)
  BY DEF MeshFile
<1>2. a = CouldNot \/ a = IfNamed(where, Writes(yes, file))
  BY DEF write_mesh
<1> HIDE DEF file, a
<1>3. a.out = None \/ a.out = file
  <2>1. CASE a = CouldNot
    BY <2>1 DEF CouldNot
  <2>2. CASE a = IfNamed(where, Writes(yes, file))
    <3>1. PICK exit : Writes(yes, file) = [exit |-> exit, out |-> file]
      BY WritesIsARecord
    <3> QED BY <2>2, <3>1, WritesAtMost
  <2> QED BY <1>2, <2>1, <2>2
<1> QED BY <1>1, <1>3 DEF Writable, a

(* The verbs that read one field.                                             *)
LEMMA FieldVerbsAreHonest ==
  ASSUME NEW c, WellFormed(c), FilesKnown(disk), c.verb \in FieldVerbs
  PROVE  /\ c.verb = "dexel stat" => Honest(c, dexel_stat(disk, c))
         /\ c.verb = "dexel volume" => Honest(c, dexel_volume(disk, c))
         /\ c.verb = "dexel slice" => Honest(c, dexel_slice(disk, c))
         /\ c.verb = "cut-stat" => Honest(c, cut_stat(disk, c))
         /\ c.verb = "extract" => Honest(c, extract(disk, c))
<1> DEFINE file == disk[c.file]
<1>1. Must(c.verb) = {"file"} /\ May(c.verb) = {} /\ c.verb # "collide" /\ c.file \in Paths
  BY ArgumentsOf DEF WellFormed, FieldVerbs
<1>2. KnownFile(file)
  BY <1>1 DEF FilesKnown
<1>3. read_field(file) => InputsSound(c)
  <2>1. ASSUME read_field(file) PROVE Sound(file)
    BY <2>1, HasIsSound DEF read_field
  <2> QED BY <1>1, <2>1, ArgumentsAreInputs DEF ArgumentsSound
<1>4. read_stock(file) => read_field(file)
  BY DEF read_stock
<1>5. Honest(c, dexel_stat(disk, c))
  BY <1>3 DEF dexel_stat, Honest, CouldNot, Says, Crash
<1>6. Honest(c, dexel_volume(disk, c))
  BY <1>3 DEF dexel_volume, Honest, CouldNot, Says
<1>7. Honest(c, dexel_slice(disk, c))
  <2>1. Writable(Picture)
    BY DEF Writable, OtherFile, Picture
  <2>2. CASE read_field(file)
    <3>1. dexel_slice(disk, c).out \in {None, Picture}
      BY <2>2 DEF dexel_slice, CouldNot, Says, Writes, IfNamed
    <3> QED BY <1>3, <2>1, <2>2, <3>1 DEF Honest
  <2>3. CASE ~read_field(file)
    <3>1. dexel_slice(disk, c) = CouldNot
      BY <2>3 DEF dexel_slice
    <3> QED BY <3>1 DEF Honest, CouldNot
  <2> QED BY <2>2, <2>3
<1>8. Honest(c, cut_stat(disk, c))
  BY <1>3, <1>4 DEF cut_stat, Honest, CouldNot, Says
<1>9. Honest(c, extract(disk, c))
  <2> DEFINE shape == Surface(file.cells)
             a == extract(disk, c)
  <2> SUFFICES Honest(c, a)
    OBVIOUS
  <2>1. a = CouldNot \/ (read_stock(file) /\ a = write_mesh(c.out, shape.solid, shape))
    BY DEF extract
  <2>2. CASE a = CouldNot
    BY <2>2 DEF Honest, CouldNot
  <2>3. CASE read_stock(file) /\ a = write_mesh(c.out, shape.solid, shape)
    <3>1. read_field(file)
      BY <1>4, <2>3
    <3>2. file.cells \in Fields
      BY <1>2, <3>1 DEF read_field, Has, KnownFile, Writable, FieldFile, MeshFile, OtherFile
    <3>3. shape \in Shapes
      BY <3>2, SessionAssumption
    <3> HIDE DEF shape, a, file
    <3>4. a.out = None \/ Writable(a.out)
      BY <2>3, <3>3, WriteMeshIsWritable
    <3> QED BY <1>3, <3>1, <3>4 DEF Honest
  <2> QED BY <2>1, <2>2, <2>3
<1> QED BY <1>5, <1>6, <1>7, <1>8, <1>9

(* The verbs that hold a field against a mesh.                                *)
LEMMA TwoFileVerbsAreHonest ==
  ASSUME NEW c, WellFormed(c), FilesKnown(disk)
  PROVE  /\ c.verb = "dexel deviation" => Honest(c, dexel_deviation(disk, c))
         /\ c.verb = "dexel coverage" => Honest(c, dexel_coverage(disk, c))
         /\ c.verb = "compare" => Honest(c, compare(disk, c))
         /\ c.verb = "deviation-stat" => Honest(c, deviation_stat(disk, c))
<1>1. ASSUME c.verb \in MeasureVerbs, read_field(disk[c.file]), load(disk[c.mesh], c.units) # None
      PROVE  InputsSound(c)
  <2>1. Must(c.verb) = {"file", "mesh"} /\ May(c.verb) = {} /\ c.verb # "collide"
        /\ c.mesh \in Paths
    BY <1>1, ArgumentsOf DEF WellFormed, MeasureVerbs
  <2>2. Sound(disk[c.file])
    BY <1>1, HasIsSound DEF read_field
  <2>3. Sound(disk[c.mesh])
    BY <1>1, <2>1, LoadIsSound DEF FilesKnown
  <2> QED BY <2>1, <2>2, <2>3, ArgumentsAreInputs DEF ArgumentsSound
<1>2. ASSUME c.verb \in CompareVerbs, Compared(disk, c) PROVE InputsSound(c)
  <2>1. Must(c.verb) = {"file", "nominal"} /\ May(c.verb) = {"stock"} /\ c.verb # "collide"
        /\ c.nominal \in Paths /\ c.stock \in Paths \cup {None}
    BY <1>2, ArgumentsOf DEF WellFormed, CompareVerbs
  <2>2. Sound(disk[c.file])
    BY <1>2, HasIsSound DEF Compared, read_stock, read_field
  <2>3. Sound(disk[c.nominal])
    BY <1>2, <2>1, LoadIsSound DEF Compared, FilesKnown
  <2>4. c.stock # None => Sound(disk[c.stock])
    BY <1>2, <2>1, LoadIsSound DEF Compared, FilesKnown
  <2> QED BY <2>1, <2>2, <2>3, <2>4, ArgumentsAreInputs DEF ArgumentsSound
<1>8. c.verb \in {"dexel deviation", "dexel coverage"} => c.verb \in MeasureVerbs
  BY DEF MeasureVerbs
<1> DEFINE found == read_field(disk[c.file]) /\ load(disk[c.mesh], c.units) # None
           yes == CoverageHolds(disk[c.file], load(disk[c.mesh], c.units))
<1>9. /\ dexel_deviation(disk, c) = CouldNot \/ (found /\ dexel_deviation(disk, c) = Says(yes))
      /\ dexel_coverage(disk, c) = CouldNot \/ (found /\ dexel_coverage(disk, c) = Says(yes))
  <2> HIDE DEF yes
  <2> QED BY DEF dexel_deviation, dexel_coverage, read_stock, yes
<1>10. c.verb \in MeasureVerbs /\ found => InputsSound(c)
  BY <1>1
<1> HIDE DEF found, yes
<1>3. c.verb \in MeasureVerbs => Honest(c, dexel_deviation(disk, c))
  <2> DEFINE a == dexel_deviation(disk, c)
  <2>1. a = CouldNot \/ (found /\ a = Says(yes))
    BY <1>9
  <2> HIDE DEF a
  <2>2. a.out = None /\ (a = CouldNot => a.exit = 2)
    BY <2>1 DEF CouldNot, Says
  <2>3. c.verb \in MeasureVerbs => Honest(c, a)
    BY <1>10, <2>1, <2>2 DEF Honest
  <2> QED BY <2>3 DEF a
<1>4. c.verb \in MeasureVerbs => Honest(c, dexel_coverage(disk, c))
  <2> DEFINE a == dexel_coverage(disk, c)
  <2>1. a = CouldNot \/ (found /\ a = Says(yes))
    BY <1>9
  <2> HIDE DEF a
  <2>2. a.out = None /\ (a = CouldNot => a.exit = 2)
    BY <2>1 DEF CouldNot, Says
  <2>3. c.verb \in MeasureVerbs => Honest(c, a)
    BY <1>10, <2>1, <2>2 DEF Honest
  <2> QED BY <2>3 DEF a
<1>5. c.verb = "compare" => Honest(c, compare(disk, c))
  BY <1>2 DEF compare, Honest, CouldNot, Says, CompareVerbs
<1>6. c.verb = "deviation-stat" => Honest(c, deviation_stat(disk, c))
  BY <1>2 DEF deviation_stat, Honest, CouldNot, Says, CompareVerbs
<1> QED BY <1>3, <1>4, <1>5, <1>6, <1>8

(* The verbs that read one mesh.                                              *)
LEMMA MeshVerbsAreHonest ==
  ASSUME NEW c, WellFormed(c), FilesKnown(disk), c.verb \in MeshVerbs
  PROVE  Honest(c, mesh(disk, c))
<1> DEFINE shape == load(disk[c.file], c.units)
           a == mesh(disk, c)
<1> SUFFICES Honest(c, a)
  OBVIOUS
<1>1. Must(c.verb) = {"file"} /\ May(c.verb) = {} /\ c.verb # "collide" /\ c.file \in Paths
      /\ c.verb \notin Deciding
  BY ArgumentsOf DEF WellFormed, MeshVerbs, Deciding
<1>2. a = MeshFailed \/ (shape # None /\ a = mesh_answer(shape, c))
  BY DEF mesh
<1>3. CASE a = MeshFailed
  <2> HIDE DEF a
  <2> QED BY <1>1, <1>3 DEF MeshFailed, CouldNot, Honest
<1>4. CASE shape # None /\ a = mesh_answer(shape, c)
  <2>1. shape \in Shapes /\ Sound(disk[c.file])
    BY <1>1, <1>4, LoadIsSound DEF FilesKnown
  <2>2. InputsSound(c)
    BY <1>1, <2>1, ArgumentsAreInputs DEF ArgumentsSound
  <2> HIDE DEF a, shape
  <2>3. a.out = None \/ Writable(a.out)
    <3>1. CASE c.verb = "mesh convert"
      <4>1. a = write_mesh(c.out, TRUE, shape)
        BY <1>4, <3>1 DEF mesh_answer
      <4> QED BY <2>1, <4>1, WriteMeshIsWritable
    <3>2. CASE c.verb # "mesh convert"
      BY <1>4, <3>2 DEF mesh_answer, MeshVerbs, Says, CouldNot
    <3> QED BY <3>1, <3>2
  <2> QED BY <2>2, <2>3 DEF Honest
<1> QED BY <1>2, <1>3, <1>4

(* The verbs that read a tool, of a library or of the command line.           *)
LEMMA ToolVerbsAreHonest ==
  ASSUME NEW c, WellFormed(c), FilesKnown(disk), c.verb \in ToolVerbs
  PROVE  Honest(c, tool(disk, c))
<1> DEFINE T == Tool(disk, c)
           p == CHOOSE p \in T : TRUE
           a == tool(disk, c)
<1> SUFFICES Honest(c, a)
  OBVIOUS
<1>1. Must(c.verb) = {} /\ May(c.verb) = {"tools"} /\ c.verb # "collide"
      /\ c.tools \in Paths \cup {None} /\ c.verb \notin Deciding
      /\ (c.define = None \/ (c.tools = None /\ (c.define = "bad" \/ c.define.mesh \in Shapes)))
  BY ArgumentsOf DEF WellFormed, ToolVerbs, Deciding
<1>2. a = CouldNot \/ (T # {} /\ a = tool_answer(p, c))
  BY DEF tool
<1>3. CASE a = CouldNot
  <2> HIDE DEF a
  <2> QED BY <1>3 DEF CouldNot, Honest
<1>4. CASE T # {} /\ a = tool_answer(p, c)
  <2>1. p \in T
    <3> HIDE DEF T
    <3> QED BY <1>4
  <2>2. p.mesh \in Shapes /\ (c.tools # None => Sound(disk[c.tools]))
    <3>1. CASE c.define # None
      <4>1. T = {c.define} \ {"bad"}
        BY <3>1 DEF Tool
      <4> HIDE DEF T, p
      <4> QED BY <1>1, <2>1, <3>1, <4>1
    <3>2. CASE c.define = None
      <4>1. c.tools # None /\ Has(disk[c.tools], "library")
            /\ T = {t.profile : t \in ById(disk[c.tools], c.tool)}
        BY <1>4, <3>2 DEF Tool
      <4> DEFINE file == disk[c.tools]
      <4>2. KnownFile(file) /\ Has(file, "library")
        BY <1>1, <4>1 DEF FilesKnown
      <4>3. file.tools \in SUBSET ToolKinds
        BY <4>2 DEF KnownFile, Has, Writable, FieldFile, MeshFile, OtherFile
      <4> HIDE DEF T, p, file
      <4>4. PICK t \in ToolKinds : p = t.profile
        BY <2>1, <4>1, <4>3 DEF ById, file
      <4>5. p.mesh \in Shapes
        BY <4>4 DEF ToolKinds
      <4>6. Sound(file)
        BY <4>2, HasIsSound
      <4> QED BY <4>5, <4>6 DEF file
    <3> QED BY <3>1, <3>2
  <2>3. InputsSound(c)
    BY <1>1, <2>2, ArgumentsAreInputs DEF ArgumentsSound
  <2> HIDE DEF a, p, T
  <2>4. a.out = None \/ Writable(a.out)
    <3>1. CASE c.verb = "tool mesh"
      <4>1. a = CouldNot \/ a = write_mesh(c.out, p.solid, p.mesh)
        BY <1>4, <3>1 DEF tool_answer
      <4>2. write_mesh(c.out, p.solid, p.mesh).out = None \/ Writable(write_mesh(c.out, p.solid, p.mesh).out)
        BY <2>2, WriteMeshIsWritable
      <4> QED BY <4>1, <4>2 DEF CouldNot
    <3>2. CASE c.verb # "tool mesh"
      BY <1>4, <3>2 DEF tool_answer, ToolVerbs, Says, CouldNot
    <3> QED BY <3>1, <3>2
  <2> QED BY <2>3, <2>4 DEF Honest
<1> QED BY <1>2, <1>3, <1>4

(* The verbs that read a program.                                             *)
LEMMA ProgramVerbsAreHonest ==
  ASSUME NEW c, WellFormed(c), FilesKnown(disk)
  PROVE  /\ c.verb = "path lint" => Honest(c, path_lint(disk, c))
         /\ c.verb \in PathVerbs => Honest(c, path(disk, c))
         /\ c.verb = "mem-estimate" => Honest(c, mem_estimate(disk, c))
<1>1. ASSUME c.verb \in PathVerbs \cup {"path lint"}, NEW strict, Parsed(disk[c.path], strict),
             Library(disk, c.tools)
      PROVE  InputsSound(c)
  <2>1. Must(c.verb) = {"path"} /\ May(c.verb) = {"tools"} /\ c.verb # "collide"
    BY <1>1, ArgumentsOf DEF PathVerbs
  <2>2. Sound(disk[c.path]) /\ (c.tools # None => Sound(disk[c.tools]))
    BY <1>1, HasIsSound DEF Parsed, Library
  <2> QED BY <2>1, <2>2, ArgumentsAreInputs DEF ArgumentsSound
<1>2. ASSUME c.verb = "path lint" PROVE Honest(c, path_lint(disk, c))
  <2> DEFINE yes == Parsed(disk[c.path], c.strict) /\ Library(disk, c.tools)
  <2>1. yes => InputsSound(c)
    BY <1>1, <1>2
  <2>2. path_lint(disk, c) = Says(yes)
    BY DEF path_lint
  <2>3. c.verb \notin Deciding
    BY <1>2 DEF Deciding
  <2> HIDE DEF yes
  <2> QED BY <2>1, <2>2, <2>3 DEF Honest, Says
<1>3. ASSUME c.verb \in PathVerbs PROVE Honest(c, path(disk, c))
  <2> DEFINE yes == Parsed(disk[c.path], FALSE) /\ Library(disk, c.tools)
  <2>1. yes => InputsSound(c)
    BY <1>1, <1>3
  <2>2. path(disk, c) = CouldNot \/ (yes /\ path(disk, c) = Says(TRUE))
    BY DEF path
  <2> HIDE DEF yes
  <2> QED BY <2>1, <2>2 DEF Honest, Says, CouldNot
<1>4. ASSUME c.verb = "mem-estimate" PROVE Honest(c, mem_estimate(disk, c))
  <2>1. Must(c.verb) = {"mesh"} /\ May(c.verb) = {"path"} /\ c.verb # "collide" /\ c.mesh \in Paths
        /\ c.verb \notin Deciding
    BY <1>4, ArgumentsOf DEF WellFormed, Deciding
  <2>2. CASE mem_estimate(disk, c) = CouldNot
    BY <2>2 DEF CouldNot, Honest
  <2>3. CASE /\ load(disk[c.mesh], c.units) # None
             /\ c.path # None => Parsed(disk[c.path], FALSE)
             /\ mem_estimate(disk, c) = Says(c.limit = None \/ load(disk[c.mesh], c.units).bytes <= c.limit)
    <3>1. Sound(disk[c.mesh])
      BY <2>1, <2>3, LoadIsSound DEF FilesKnown
    <3>2. c.path # None => Sound(disk[c.path])
      BY <2>3, HasIsSound DEF Parsed
    <3>3. InputsSound(c)
      BY <2>1, <3>1, <3>2, ArgumentsAreInputs DEF ArgumentsSound
    <3> QED BY <2>3, <3>3 DEF Honest, Says
  <2> QED BY <2>2, <2>3 DEF mem_estimate
<1> QED BY <1>2, <1>3, <1>4

(* collide reads everything it is given.                                      *)
LEMMA CollideIsHonest ==
  ASSUME NEW c, WellFormed(c), FilesKnown(disk), c.verb = "collide"
  PROVE  Honest(c, collide(disk, c))
<1>1. Must(c.verb) = {"file", "path", "tools"} /\ May(c.verb) = {} /\ c.fixtures \subseteq Paths
  BY ArgumentsOf DEF WellFormed
<1>2. ASSUME read_stock(disk[c.file]), ToReplay(disk, c) # {},
             \A f \in c.fixtures : load(disk[f], c.units) # None
      PROVE  InputsSound(c)
  <2>1. Sound(disk[c.file])
    BY <1>2, HasIsSound DEF read_stock, read_field
  <2>2. Sound(disk[c.path]) /\ Sound(disk[c.tools])
    BY <1>2, HasIsSound DEF ToReplay, Parsed
  <2>3. \A f \in c.fixtures : Sound(disk[f])
    BY <1>1, <1>2, LoadIsSound DEF FilesKnown
  <2> QED BY <1>1, <2>1, <2>2, <2>3, ArgumentsAreInputs DEF ArgumentsSound
<1> QED BY <1>2 DEF collide, Honest, Says, CouldNot

(* The verbs that read no file.                                               *)
LEMMA OwnVerbsAreHonest ==
  ASSUME NEW c, WellFormed(c), c.verb \in OwnVerbs
  PROVE  /\ Honest(c, dexel_convergence)
         /\ Honest(c, roots_solve(c))
         /\ Honest(c, run_selftest(c))
         /\ Honest(c, print_version)
<1>1. InputsSound(c)
  <2>1. Must(c.verb) = {} /\ May(c.verb) = {} /\ c.verb # "collide"
    BY ArgumentsOf DEF OwnVerbs
  <2> QED BY <2>1, ArgumentsAreInputs DEF ArgumentsSound
<1> DEFINE report == [kind |-> "report", whole |-> TRUE]
<1>2. Writable(report)
  BY DEF Writable, OtherFile
<1>3. run_selftest(c).out = None \/ run_selftest(c).out = report
  BY DEF run_selftest, IfNamed, Writes, Says
<1>4. dexel_convergence.out = None /\ roots_solve(c).out = None /\ print_version.out = None
  BY DEF dexel_convergence, roots_solve, print_version, Says, CouldNot
<1> HIDE DEF report
<1> QED BY <1>1, <1>2, <1>3, <1>4 DEF Honest

(* So is every answer.                                                       *)
LEMMA AnswersAreHonest ==
  ASSUME NEW c, WellFormed(c), FilesKnown(disk), c.verb # "run"
  PROVE  Honest(c, Answer(c))
<1>1. CASE c.verb = "dexel build"
  <2>1. Answer(c) = dexel_build(disk, c)
    BY <1>1 DEF Answer, MeshVerbs, PathVerbs, ToolVerbs
  <2>2. Must(c.verb) = {"mesh"} /\ May(c.verb) = {} /\ c.verb # "collide"
    BY <1>1, ArgumentsOf
  <2>3. Honest(c, dexel_build(disk, c))
    <3> QED BY <2>2, BuildIsHonest
  <2> QED BY <2>1, <2>3
<1>2. CASE c.verb \in FieldVerbs
  <2>1. /\ c.verb = "dexel stat" => Answer(c) = dexel_stat(disk, c)
        /\ c.verb = "dexel volume" => Answer(c) = dexel_volume(disk, c)
        /\ c.verb = "dexel slice" => Answer(c) = dexel_slice(disk, c)
        /\ c.verb = "cut-stat" => Answer(c) = cut_stat(disk, c)
        /\ c.verb = "extract" => Answer(c) = extract(disk, c)
    BY DEF Answer, MeshVerbs, PathVerbs, ToolVerbs
  <2> QED BY <1>2, <2>1, FieldVerbsAreHonest DEF FieldVerbs
<1>3. CASE c.verb \in MeasureVerbs \cup CompareVerbs
  <2>1. /\ c.verb = "dexel deviation" => Answer(c) = dexel_deviation(disk, c)
        /\ c.verb = "dexel coverage" => Answer(c) = dexel_coverage(disk, c)
        /\ c.verb = "compare" => Answer(c) = compare(disk, c)
        /\ c.verb = "deviation-stat" => Answer(c) = deviation_stat(disk, c)
    BY DEF Answer, MeshVerbs, PathVerbs, ToolVerbs
  <2> QED BY <1>3, <2>1, TwoFileVerbsAreHonest DEF MeasureVerbs, CompareVerbs
<1>4. CASE c.verb \in MeshVerbs
  <2>1. Answer(c) = mesh(disk, c)
    BY <1>4 DEF Answer, MeshVerbs, PathVerbs, ToolVerbs
  <2> QED BY <1>4, <2>1, MeshVerbsAreHonest
<1>5. CASE c.verb \in ToolVerbs
  <2>1. Answer(c) = tool(disk, c)
    BY <1>5 DEF Answer, MeshVerbs, PathVerbs, ToolVerbs
  <2> QED BY <1>5, <2>1, ToolVerbsAreHonest
<1>6. CASE c.verb \in PathVerbs
  <2>1. Answer(c) = path(disk, c)
    BY <1>6 DEF Answer, MeshVerbs, PathVerbs, ToolVerbs
  <2> QED BY <1>6, <2>1, ProgramVerbsAreHonest
<1>7. CASE c.verb \in {"path lint", "mem-estimate", "collide"}
  <2>1. /\ c.verb = "path lint" => Answer(c) = path_lint(disk, c)
        /\ c.verb = "mem-estimate" => Answer(c) = mem_estimate(disk, c)
        /\ c.verb = "collide" => Answer(c) = collide(disk, c)
    BY DEF Answer, MeshVerbs, PathVerbs, ToolVerbs
  <2> QED BY <1>7, <2>1, ProgramVerbsAreHonest, CollideIsHonest
<1>8. CASE c.verb \in OwnVerbs
  <2>1. /\ c.verb = "dexel convergence" => Answer(c) = dexel_convergence
        /\ c.verb = "roots solve" => Answer(c) = roots_solve(c)
        /\ c.verb = "selftest" => Answer(c) = run_selftest(c)
        /\ c.verb = "version" => Answer(c) = print_version
    BY DEF Answer, MeshVerbs, PathVerbs, ToolVerbs
  <2> QED BY <1>8, <2>1, OwnVerbsAreHonest DEF OwnVerbs
<1> QED BY <1>1, <1>2, <1>3, <1>4, <1>5, <1>6, <1>7, <1>8 DEF WellFormed, VerbNames

-----------------------------------------------------------------------------
(* A session, step by step.                                                  *)

\* What a run was asked for.
Asked(c) ==
  [segments |-> disk[c.path].segments, range |-> c.range, chords |-> c.chords,
   tool |-> c.tool, library |-> disk[c.tools]]

\* A run cuts what it read, and what it cuts is what it was asked for.
RunAsAsked ==
  doing # None =>
    /\ doing \in Invocations /\ doing.verb = "run" /\ Reads(doing)
    /\ pc # "idle"
    /\ stock = disk[doing.file].cells
    /\ SequentialField(motions, stock) = Replay(stock, Asked(doing))

SessionOK == FilesKnown(disk) /\ Driven /\ AnswersAreWhole /\ RunAsAsked

(* What ends a command is noted truly.                                       *)
LEMMA EndedIsWhole ==
  ASSUME NEW c, NEW exit, Ended(c, exit),
         exit = 0 \/ (exit = 1 /\ c.verb \in Deciding) => InputsSound(c)
  PROVE  AnswersAreWhole'
<1> DEFINE s == \A file \in Inputs(c) : Sound(file)
           v == c.verb
<1>1. last' = [verb |-> v, exit |-> exit, sound |-> s]
  BY DEF Ended
<1>2. exit = 0 \/ (exit = 1 /\ v \in Deciding) => s
  BY DEF InputsSound
<1> HIDE DEF s, v
<1>3. last'.verb = v /\ last'.exit = exit /\ last'.sound = s
  BY <1>1
<1>4. AnswersAreWhole' <=>
        ((last' # None /\ (last'.exit = 0 \/ (last'.exit = 1 /\ last'.verb \in Deciding)))
           => last'.sound)
  BY DEF AnswersAreWhole, Deciding
<1> QED BY <1>2, <1>3, <1>4

(* Files stay known where a file that can be written is.                     *)
LEMMA WrittenIsKnown ==
  ASSUME FilesKnown(disk), NEW p, NEW file, Writable(file), disk' = [disk EXCEPT ![p] = file]
  PROVE  FilesKnown(disk)'
BY DEF FilesKnown, KnownFile

(* A write that fails is no answer.                                           *)
LEMMA NoWriteDecides == \A c : CannotWrite(c) = 2 \/ (CannotWrite(c) = 1 /\ c.verb \notin Deciding)
BY DEF CannotWrite, Deciding

(* However an honest answer ends, files are known and answers are whole.     *)
LEMMA DeliveredWhole ==
  ASSUME NEW c, NEW a, Honest(c, a), FilesKnown(disk), Deliver(c, a)
  PROVE  FilesKnown(disk)' /\ AnswersAreWhole'
<1>1. CASE /\ disk' = IF a.out = None THEN disk ELSE [disk EXCEPT ![c.out.path] = a.out]
           /\ Ended(c, a.exit)
  <2>1. AnswersAreWhole'
    BY <1>1, EndedIsWhole DEF Honest
  <2>2. CASE a.out = None
    BY <1>1, <2>1, <2>2
  <2>3. CASE a.out # None
    BY <1>1, <2>1, <2>3, WrittenIsKnown DEF Honest
  <2> QED BY <2>2, <2>3
<1>2. CASE Ended(c, CannotWrite(c)) /\ UNCHANGED disk
  <2>1. AnswersAreWhole'
    <3> DEFINE exit == CannotWrite(c)
    <3>1. Ended(c, exit) /\ (exit = 0 \/ (exit = 1 /\ c.verb \in Deciding) => InputsSound(c))
      BY <1>2, NoWriteDecides
    <3> HIDE DEF exit
    <3> QED BY <3>1, EndedIsWhole
  <2> QED BY <1>2, <2>1
<1>3. ASSUME a.out # None, NEW rest \in Torn(a.out), NEW exit \in {CannotWrite(c), -1},
             disk' = [disk EXCEPT ![c.out.path] = rest] /\ Ended(c, exit)
      PROVE  FilesKnown(disk)' /\ AnswersAreWhole'
  <2>1. exit = 0 \/ (exit = 1 /\ c.verb \in Deciding) => InputsSound(c)
    BY <1>3, NoWriteDecides
  <2>2. AnswersAreWhole'
    BY <1>3, <2>1, EndedIsWhole
  <2>3. Writable(rest)
    BY <1>3, TornIsWritable DEF Honest
  <2>4. FilesKnown(disk)'
    BY <1>3, <2>3, WrittenIsKnown
  <2> QED BY <2>2, <2>4
<1> QED BY <1>1, <1>2, <1>3 DEF Deliver

(* What a run finds when it reads what it is given.                          *)
LEMMA RunReads ==
  ASSUME NEW c, WellFormed(c), c.verb = "run", FilesKnown(disk), Reads(c)
  PROVE  /\ FieldFile(disk[c.file])
         /\ disk[c.path].segments \in Seq(Segments)
         /\ disk[c.tools].tools \in SUBSET ToolKinds
         /\ c.range = None \/ c.range \in Nat \X Nat
         /\ c.chords \in BOOLEAN /\ c.batch_size \in Nat
         /\ Selected(disk[c.path].segments, c.range) # <<>>
         /\ InputsSound(c)
<1>1. Must(c.verb) = {"file", "path"} /\ May(c.verb) = {"tools"}
  BY ArgumentsOf
<1>2. /\ c.file \in Paths /\ c.path \in Paths /\ c.tools \in Paths
      /\ c.range = None \/ c.range \in Nat \X Nat
      /\ c.chords \in BOOLEAN /\ c.batch_size \in Nat
  BY <1>1 DEF WellFormed, Reads
<1>3. Has(disk[c.file], "field") /\ Has(disk[c.path], "program") /\ Has(disk[c.tools], "library")
      /\ Selected(disk[c.path].segments, c.range) # <<>>
  BY DEF Reads, read_stock, read_field, Parsed
<1>4. KnownFile(disk[c.file]) /\ KnownFile(disk[c.path]) /\ KnownFile(disk[c.tools])
  BY <1>2 DEF FilesKnown
<1>5. FieldFile(disk[c.file])
  BY <1>3, <1>4 DEF Has, KnownFile, Writable, FieldFile, MeshFile, OtherFile
<1>6. disk[c.path].segments \in Seq(Segments)
  BY <1>3, <1>4 DEF Has, KnownFile, Writable, FieldFile, MeshFile, OtherFile
<1>7. disk[c.tools].tools \in SUBSET ToolKinds
  BY <1>3, <1>4 DEF Has, KnownFile, Writable, FieldFile, MeshFile, OtherFile
<1>8. InputsSound(c)
  <2>1. Sound(disk[c.file]) /\ Sound(disk[c.path]) /\ Sound(disk[c.tools])
    BY <1>3, HasIsSound
  <2>2. ArgumentsSound(c)
    BY <1>1, <2>1 DEF ArgumentsSound
  <2> QED BY <2>2, ArgumentsAreInputs
<1> QED BY <1>2, <1>3, <1>5, <1>6, <1>7, <1>8

(* Nothing but a command's end disturbs what the last one answered.          *)
LEMMA LastStands == AnswersAreWhole /\ last' = last => AnswersAreWhole'
BY DEF AnswersAreWhole

\* A session between two commands.
LEMMA BetweenRuns ==
  ASSUME FilesKnown(disk)', Driven', AnswersAreWhole', doing' = None
  PROVE  SessionOK'
BY DEF SessionOK, RunAsAsked

(* Files that are not written stay known.                                     *)
LEMMA FilesStand == FilesKnown(disk) /\ disk' = disk => FilesKnown(disk)'
BY DEF FilesKnown

(* A command other than `run`, answered or cut short.                         *)
LEMMA InvokeKeeps ==
  ASSUME SessionOK, NEW c \in Invocations, Invoke(c)
  PROVE  SessionOK'
<1>1. c.verb # "run" /\ doing = None /\ Deliver(c, Answer(c)) /\ UNCHANGED driverVars
      /\ doing' = doing
  BY DEF Invoke, Given
<1>2. Driven'
  BY <1>1, StandstillDrives DEF SessionOK
<1>3. Honest(c, Answer(c))
  <2>1. WellFormed(c)
    BY SessionAssumption
  <2>2. FilesKnown(disk)
    BY DEF SessionOK
  <2> QED BY <1>1, <2>1, <2>2, AnswersAreHonest
<1>4. FilesKnown(disk)' /\ AnswersAreWhole'
  <2> DEFINE a == Answer(c)
  <2>1. Honest(c, a) /\ Deliver(c, a) /\ FilesKnown(disk)
    BY <1>1, <1>3 DEF SessionOK
  <2> HIDE DEF a
  <2> QED BY <2>1, DeliveredWhole
<1> QED BY <1>1, <1>2, <1>4, BetweenRuns

(* A `run` that does not get as far as cutting.                               *)
LEMMA RefusedRunKeeps ==
  ASSUME SessionOK, NEW c \in Invocations, run_refused(c)
  PROVE  SessionOK'
<1> DEFINE exit == IF c.usable /\ read_stock(disk[c.file]) /\ uneven(disk[c.file], Min(disk[c.file].axes))
                   THEN Crash ELSE 2
<1>1. doing = None /\ Ended(c, exit) /\ UNCHANGED <<driverVars, disk, doing>>
  BY DEF run_refused, Given
<1>2. exit # 0 /\ exit # 1
  BY DEF Crash
<1> HIDE DEF exit
<1>3. AnswersAreWhole'
  BY <1>1, <1>2, EndedIsWhole
<1>4. Driven' /\ FilesKnown(disk)' /\ doing' = None
  BY <1>1, StandstillDrives, FilesStand DEF SessionOK
<1> QED BY <1>3, <1>4, BetweenRuns

(* A `run` begins: its motions are those it was asked for, from scratch.      *)
LEMMA RunKeeps ==
  ASSUME SessionOK, NEW c \in Invocations, run(c)
  PROVE  SessionOK'
<1> DEFINE segments == disk[c.path].segments
           read == disk[c.file].cells
           given == [threads |-> c.threads, batch_size |-> c.batch_size, mem_limit |-> c.mem_limit]
<1>1. /\ c.verb = "run" /\ Reads(c) /\ UNCHANGED <<disk, last>> /\ doing' = c
      /\ \E profiles \in resolve_tools(disk[c.tools], c.tool, segments) :
           Begin(RunList(segments, c.range, c.chords, profiles), read, given)
  BY DEF run, RunList
<1>2. PICK profiles \in resolve_tools(disk[c.tools], c.tool, segments) :
        Begin(RunList(segments, c.range, c.chords, profiles), read, given)
  BY <1>1
<1> DEFINE asked == Asked(c)
           list == RunList(segments, c.range, c.chords, profiles)
<1>3. WellFormed(c) /\ FilesKnown(disk)
  BY SessionAssumption DEF SessionOK
<1>4. /\ FieldFile(disk[c.file])
      /\ segments \in Seq(Segments) /\ disk[c.tools].tools \in SUBSET ToolKinds
      /\ c.range = None \/ c.range \in Nat \X Nat
      /\ c.chords \in BOOLEAN /\ c.batch_size \in Nat
      /\ Selected(segments, c.range) # <<>>
  BY <1>1, <1>3, RunReads
<1>5. /\ asked.segments = segments /\ asked.range = c.range /\ asked.chords = c.chords
      /\ asked.tool = c.tool /\ asked.library = disk[c.tools]
  BY DEF Asked
<1>6. list \in Seq(Motions) /\ \A cells : SequentialField(list, cells) = Replay(cells, asked)
  <2> HIDE DEF asked
  <2>1. /\ asked.segments \in Seq(Segments) /\ asked.library.tools \in SUBSET ToolKinds
        /\ asked.range = None \/ asked.range \in Nat \X Nat
        /\ asked.chords \in BOOLEAN
        /\ profiles \in resolve_tools(asked.library, asked.tool, asked.segments)
        /\ Selected(asked.segments, asked.range) # <<>>
    BY <1>2, <1>4, <1>5
  <2>2. /\ RunList(asked.segments, asked.range, asked.chords, profiles) \in Seq(Motions)
        /\ \A cells : SequentialField(RunList(asked.segments, asked.range, asked.chords, profiles), cells)
                        = Replay(cells, asked)
    BY <2>1, RunIsReplay
  <2> QED BY <1>5, <2>2
<1>7. read \in Fields
  BY <1>4 DEF FieldFile
<1>8. given.batch_size \in Nat
  BY <1>4
<1> HIDE DEF list, read, given, asked
<1>9. Driven'
  BY <1>2, <1>6, <1>7, <1>8, BeginDrives DEF list
<1>10. motions' = list /\ stock' = read /\ pc' # "idle"
  BY <1>2 DEF Begin, list
<1>11. AnswersAreWhole' /\ FilesKnown(disk)'
  BY <1>1, <1>3, LastStands, FilesStand DEF SessionOK
<1>12. RunAsAsked'
  <2>1. Reads(c)'
    BY <1>1 DEF Reads
  <2>2. Asked(c)' = asked
    BY <1>1 DEF Asked, asked
  <2>3. stock' = (disk[c.file].cells)'
    BY <1>1, <1>10 DEF read
  <2>4. SequentialField(motions', stock') = Replay(stock', asked)
    BY <1>6, <1>10
  <2> QED BY <1>1, <1>10, <2>1, <2>2, <2>3, <2>4 DEF RunAsAsked
<1> QED BY <1>9, <1>11, <1>12 DEF SessionOK

(* It cuts.                                                                   *)
LEMMA CuttingKeeps ==
  ASSUME SessionOK, Cutting_
  PROVE  SessionOK'
<1>1. CutStep /\ UNCHANGED <<disk, doing, last, left>>
  BY DEF Cutting_, sessionVars
<1>2. motions' = motions /\ stock' = stock /\ pc' # "idle"
  BY <1>1 DEF CutStep, CutRay, CutRunParallel, CheckGrowth, Sum
<1>3. Driven' /\ AnswersAreWhole' /\ FilesKnown(disk)'
  BY <1>1, CutStepDrives, LastStands, FilesStand DEF SessionOK
<1>4. RunAsAsked'
  <2>1. \A c : Reads(c)' <=> Reads(c)
    BY <1>1 DEF Reads
  <2>2. \A c : Asked(c)' = Asked(c)
    BY <1>1 DEF Asked
  <2> QED BY <1>1, <1>2, <2>1, <2>2 DEF RunAsAsked, SessionOK
<1> QED BY <1>3, <1>4 DEF SessionOK

(* It is killed.                                                              *)
LEMMA KillKeeps ==
  ASSUME SessionOK, Kill
  PROVE  SessionOK'
<1>1. Ended(doing, -1) /\ doing' = None /\ pc' = "idle" /\ disk' = disk
  BY DEF Kill
<1>2. AnswersAreWhole'
  <2> DEFINE exit == -1
  <2>1. Ended(doing, exit) /\ exit # 0 /\ exit # 1
    BY <1>1
  <2> HIDE DEF exit
  <2> QED BY <2>1, EndedIsWhole
<1>3. Driven' /\ FilesKnown(disk)'
  BY <1>1, FilesStand DEF SessionOK, Driven
<1> QED BY <1>1, <1>2, <1>3, BetweenRuns

(* Nothing happens.                                                           *)
LEMMA StandstillKeeps ==
  ASSUME SessionOK, UNCHANGED allVars
  PROVE  SessionOK'
<1>1. UNCHANGED driverVars /\ UNCHANGED <<disk, doing, last, left>>
  BY DEF allVars, sessionVars
<1>2. UNCHANGED <<motions, stock, pc>>
  BY <1>1 DEF driverVars
<1>3. Driven' /\ AnswersAreWhole' /\ FilesKnown(disk)'
  BY <1>1, StandstillDrives, LastStands, FilesStand DEF SessionOK
<1>4. RunAsAsked'
  <2>1. \A c : Reads(c)' <=> Reads(c)
    BY <1>1 DEF Reads
  <2>2. \A c : Asked(c)' = Asked(c)
    BY <1>1 DEF Asked
  <2> QED BY <1>1, <1>2, <2>1, <2>2 DEF RunAsAsked, SessionOK
<1> QED BY <1>3, <1>4 DEF SessionOK

(* What a finished run writes is a field with one more cut.                  *)
LEMMA CutIsAField ==
  ASSUME NEW file, FieldFile(file), NEW cells \in Fields, NEW asked, cells = Replay(file.cells, asked),
         NEW cut, cut = [file EXCEPT !.cells = cells, !.cuts = Append(@, asked)]
  PROVE  FieldFile(cut)
<1>1. /\ DOMAIN cut = DOMAIN file /\ cut.kind = "field" /\ cut.cells = cells /\ cut.from = file.from
      /\ cut.cuts = Append(file.cuts, asked)
  BY DEF FieldFile
<1>2. PICK A : file.cuts \in Seq(A)
  BY DEF FieldFile
<1>3. Append(file.cuts, asked) \in Seq(A \union {asked})
  BY <1>2
<1>4. Remade(file.from, Append(file.cuts, asked)) = Replay(Remade(file.from, file.cuts), asked)
  BY <1>2, RemadeOfAppend
<1>5. Remade(file.from, file.cuts) = file.cells
  BY DEF FieldFile
<1> QED BY <1>1, <1>3, <1>4, <1>5 DEF FieldFile

(* It ends: its field is what its motions make of the stock, one at a time.   *)
LEMMA FinishKeeps ==
  ASSUME SessionOK, Finish
  PROVE  SessionOK'
<1> DEFINE c == doing
           segments == disk[c.path].segments
           skipped == \E s \in Range(Selected(segments, c.range)) : s.lost
           asked == Asked(c)
           file == disk[c.file]
           cut == [file EXCEPT !.cells = field, !.cuts = Append(@, asked)]
           a == IfNamed(c.out, Writes(~skipped, cut))
<1>1. /\ doing # None /\ doing' = None /\ pc' = "idle"
      /\ \/ pc = "refused" /\ Ended(c, 2) /\ UNCHANGED disk
         \/ pc = "done" /\ Deliver(c, a)
  BY DEF Finish, Asked
<1>2. c \in Invocations /\ c.verb = "run" /\ Reads(c) /\ stock = file.cells
      /\ SequentialField(motions, stock) = Replay(stock, asked)
  BY <1>1 DEF SessionOK, RunAsAsked
<1>3. WellFormed(c) /\ FilesKnown(disk)
  BY <1>2, SessionAssumption DEF SessionOK
<1>4. FieldFile(file) /\ InputsSound(c)
  <2> HIDE DEF c
  <2> QED BY <1>2, <1>3, RunReads
<1>5. Driven'
  BY <1>1 DEF Driven
<1>6. CASE pc = "refused" /\ Ended(c, 2) /\ UNCHANGED disk
  <2> DEFINE exit == 2
  <2>1. Ended(c, exit) /\ exit # 0 /\ exit # 1
    BY <1>6
  <2> HIDE DEF exit, c
  <2>2. AnswersAreWhole'
    BY <2>1, EndedIsWhole
  <2>3. FilesKnown(disk)'
    BY <1>3, <1>6, FilesStand
  <2> QED BY <1>1, <1>5, <2>2, <2>3, BetweenRuns
<1>7. CASE pc = "done" /\ Deliver(c, a)
  <2>1. DriverTypeOK /\ RunsAreInvisible
    BY <1>7, DrivenIsInvisible DEF SessionOK, Driven
  <2>2. field \in Fields /\ motions \in Seq(Motions) /\ lo = Len(motions) + 1
    BY <1>7, <2>1 DEF DriverTypeOK
  <2>3. CutSoFar = motions
    <3>1. lo - 1 = Len(motions) /\ Len(motions) \in Nat
      BY <2>2
    <3>2. CutSoFar = SubSeq(motions, 1, Len(motions))
      BY <1>7, <3>1 DEF CutSoFar
    <3> QED BY <2>2, <3>2
  <2>4. field = SequentialField(motions, stock)
    BY <1>7, <2>1, <2>3 DEF RunsAreInvisible
  <2>5. field = Replay(file.cells, asked)
    BY <1>2, <2>4
  <2> HIDE DEF asked, file
  <2>6. FieldFile(cut)
    BY <1>4, <2>2, <2>5, CutIsAField
  <2> HIDE DEF cut, skipped
  <2>7. PICK exit : Writes(~skipped, cut) = [exit |-> exit, out |-> cut]
    BY WritesIsARecord
  <2> DEFINE where == c.out
  <2>8. a = IfNamed(where, [exit |-> exit, out |-> cut])
    BY <2>7
  <2> HIDE DEF a, where
  <2>9. a.out = None \/ a.out = cut
    BY <2>8, WritesAtMost
  <2>10. Honest(c, a)
    BY <1>4, <2>6, <2>9 DEF Honest, Writable
  <2> HIDE DEF c
  <2>11. FilesKnown(disk)' /\ AnswersAreWhole'
    BY <1>3, <1>7, <2>10, DeliveredWhole
  <2> QED BY <1>1, <1>5, <2>11, BetweenRuns
<1> QED BY <1>1, <1>6, <1>7

(* The invariant holds at first ...                                           *)
LEMMA SessionStarts == SessionInit => SessionOK
<1> SUFFICES ASSUME SessionInit PROVE SessionOK
  OBVIOUS
<1>1. disk \in Disks /\ doing = None /\ last = None /\ pc = "idle"
  BY DEF SessionInit, Idle
<1>2. FilesKnown(disk)
  BY <1>1, SessionAssumption, FirstFilesKnown DEF FilesKnown
<1>3. Driven /\ AnswersAreWhole /\ RunAsAsked
  BY <1>1 DEF Driven, AnswersAreWhole, RunAsAsked
<1> QED BY <1>2, <1>3 DEF SessionOK

(* ... and after every step ...                                               *)
LEMMA SessionKeeps == SessionOK /\ [SessionNext]_allVars => SessionOK'
<1> SUFFICES ASSUME SessionOK, [SessionNext]_allVars PROVE SessionOK'
  OBVIOUS
<1>1. ASSUME NEW c \in Invocations, Invoke(c) \/ run_refused(c) \/ run(c) PROVE SessionOK'
  BY <1>1, InvokeKeeps, RefusedRunKeeps, RunKeeps
<1> QED BY <1>1, CuttingKeeps, FinishKeeps, KillKeeps, StandstillKeeps DEF SessionNext

(* A field that can be read is what its cuts make of what it was built from. *)
LEMMA KnownIsRemade == FilesKnown(disk) => ResumedRunIsTheWhole
<1> SUFFICES ASSUME FilesKnown(disk), NEW p \in DOMAIN disk, read_field(disk[p])
             PROVE  disk[p].cells = Remade(disk[p].from, disk[p].cuts)
  BY DEF ResumedRunIsTheWhole
<1>1. KnownFile(disk[p]) /\ disk[p].kind = "field" /\ disk[p] # None
  BY DEF FilesKnown, read_field, Has
<1> QED BY <1>1 DEF KnownFile, Writable, FieldFile, MeshFile, OtherFile

(* ... so always.                                                             *)
LEMMA SessionIsOK == SessionSpec => []SessionOK
<1> QED BY SessionStarts, SessionKeeps, PTL DEF SessionSpec

(* The cutting loop of `run` (run.rs, sweep/batch.rs): at every run boundary, and*)
(* when the command stops on the ceiling, the field and the counters are those of*)
(* the motions so far one at a time, and on one thread so is the volume in the*)
(* end, bit for bit. The invariant follows the loop ray by ray, in the middle of*)
(* a run too, where a ray has been through it or has not.                     *)
THEOREM RunsAreInvisibleHolds == SessionSpec => []RunsAreInvisible
<1>1. SessionOK => RunsAreInvisible
  BY DrivenIsInvisible DEF SessionOK
<1> QED BY <1>1, SessionIsOK, PTL

(* A field a session leaves (run.rs, --segment-range) holds what the stock it was*)
(* built from holds after exactly the runs made on it, one motion at a time: the*)
(* loop is invisible, a range selects what it names and nothing else, and every*)
(* run that is written is appended to those before it.                        *)
THEOREM ResumedRunIsTheWholeHolds == SessionSpec => []ResumedRunIsTheWhole
<1>1. SessionOK => ResumedRunIsTheWhole
  BY KnownIsRemade DEF SessionOK
<1> QED BY <1>1, SessionIsOK, PTL

(* A command that answers found every file it was given, and no binary file of*)
(* them cut short (main.rs and the verbs' own reading): verb by verb, an answer*)
(* comes after every file was read as what it should be.                      *)
THEOREM AnswersAreWholeHolds == SessionSpec => []AnswersAreWhole
<1>1. SessionOK => AnswersAreWhole
  BY DEF SessionOK
<1> QED BY <1>1, SessionIsOK, PTL
=============================================================================
