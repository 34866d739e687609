------------------------------- MODULE Sweep -------------------------------
(* Material removal: the intervals of a ray inside a tool (tool/raycast.rs) and  *)
(* inside the volume a moving tool sweeps, in closed form where there is one and *)
(* by steps elsewhere (sweep/horizontal.rs, plunge.rs, arc.rs, reference.rs),    *)
(* and their subtraction from a bundle (sweep/cut.rs).                           *)
(*                                                                               *)
(* A motion is [kind, ...]: "linear", with the tip's start and end, or "arc",    *)
(* with its center and radius, the bearing it starts from and how far it turns   *)
(* in quarters of a turn (negative for clockwise), the tip's coordinate along    *)
(* the arc's axis, its rise over the whole arc, and the plane, 3 for G17, 2 for  *)
(* G18, 1 for G19. A level motion of a linear kind runs along x or y.            *)
(*                                                                               *)
(* A swept span is [t0, t1, n0, n1] with whole bounds; a cast ray is a field's   *)
(* with a sense of 1 or -1. The instances keep crossings a unit away from what   *)
(* they are compared with, or exactly on it.                                     *)
EXTENDS Profile, Field

CONSTANT FAR    \* stands for infinity

Through(ray, t) == [ray.origin EXCEPT ![ray.w] = @ + ray.sense * t]

\* What follows each of a set of numbers but the last.
Steps(S) == {p \in S \X S : p[1] < p[2] /\ ~\E x \in S : p[1] < x /\ x < p[2]}

\* Numbers in ascending order.
Ascending(S) ==
  [n \in 1 .. Cardinality(S) |-> CHOOSE x \in S : Cardinality({y \in S : y < x}) = n - 1]
-----------------------------------------------------------------------------
(* spans.rs, as sets of whole numbers: the spans where `Holds` of being in a and *)
(* being in b is true; a bound's normal is a's where both have one.              *)
Bounds2(spans) == UNION {{spans[n].t0, spans[n].t1} : n \in DOMAIN spans}

Covers(spans, lo, hi) == \E n \in DOMAIN spans : spans[n].t0 <= lo /\ hi <= spans[n].t1

NormalAt(spans, t) ==
  LET from == {n \in DOMAIN spans : spans[n].t0 = t}
      to == {n \in DOMAIN spans : spans[n].t1 = t}
  IN IF to # {} THEN spans[Min(to)].n1 ELSE spans[Min(from)].n0

Reverse3(n) == [l \in 1 .. 3 |-> -n[l]]

combine(op, in_a, in_b) ==
  CASE op = "union" -> in_a \/ in_b
    [] op = "intersect" -> in_a /\ in_b
    [] op = "difference" -> in_a /\ ~in_b

\* The spans made of the steps held, each bound facing as Facing says.
Joined(held, Facing(_)) ==
  LET starts == Ascending({p[1] : p \in held} \ {p[2] : p \in held})
      ends == {p[2] : p \in held} \ {p[1] : p \in held}
      End(t) == Min({e \in ends : e > t})
  IN [n \in DOMAIN starts |-> [t0 |-> starts[n], t1 |-> End(starts[n]),
                               n0 |-> Facing(starts[n]), n1 |-> Facing(End(starts[n]))]]

\* What is left where b was taken away faces the other way.
boolean_scan(op, a, b) ==
  Joined({p \in Steps(Bounds2(a) \union Bounds2(b)) :
            combine(op, Covers(a, p[1], p[2]), Covers(b, p[1], p[2]))},
         LAMBDA t : IF t \in Bounds2(a) THEN NormalAt(a, t)
                    ELSE IF op = "difference" THEN Reverse3(NormalAt(b, t)) ELSE NormalAt(b, t))

union(a, b) == boolean_scan("union", a, b)

subtract(a, b) == boolean_scan("difference", a, b)

Bare(lo, hi) == <<[t0 |-> lo, t1 |-> hi, n0 |-> PLACEHOLDER, n1 |-> PLACEHOLDER]>>

clipped_to(a, bounds) == boolean_scan("intersect", a, bounds)
-----------------------------------------------------------------------------
(* raycast.rs *)
\* Every coordinate doubled, so that midpoints are whole.
Doubled(elements) ==
  [n \in DOMAIN elements |->
     [f \in DOMAIN elements[n] |->
        IF f \in {"start", "end", "center"} THEN <<2 * elements[n][f][1], 2 * elements[n][f][2]>>
        ELSE elements[n][f]]]

\* Inside, at half of p.
contains_half(elements, p) ==
  contains_rz(Doubled(elements), Root(p[1] * p[1] + p[2] * p[2]), p[3])

contains_xyz(elements, p) == contains_rz(elements, Root(p[1] * p[1] + p[2] * p[2]), p[3])

\* An element's radii at a height, its ends counted; an annular face has none.
RadiiAt(e, z) ==
  IF e.kind = "arc" \/ z # e.end[2] THEN crossings_at(e, z)
  ELSE IF e.start[2] = e.end[2] THEN {} ELSE {e.end[1]}

\* An element's heights at a radius; a cylinder has none.
HeightsAt(e, r) ==
  LET d == Away(e.end, e.start)
  IN IF e.kind = "segment"
     THEN IF d[1] = 0 \/ r \notin Between(Extremes(e, 1)) THEN {}
          ELSE IF d[2] = 0 THEN {e.start[2]}
          ELSE {e.start[2] + ((r - e.start[1]) * d[2] * Sign(d[1])) \div (d[1] * Sign(d[1]))}
     ELSE LET dr == r - e.center[1]
              rest == radius(e) * radius(e) - dr * dr
          IN IF rest < 0 THEN {}
             ELSE {e.center[2] + dz : dz \in {x \in {-Root(rest), Root(rest)} : contains_angle(e, <<dr, x>>)}}

\* Where a ray may cross the surface, the disc that closes the tool included.
element_crossings(elements, ray) ==
  LET o == ray.origin
  IN IF ray.w = 3
     THEN LET r == Root(o[1] * o[1] + o[2] * o[2])
          IN {ray.sense * (z - o[3]) :
                z \in (UNION {HeightsAt(elements[n], r) : n \in DOMAIN elements})
                        \union (IF r <= top(elements)[1] THEN {top(elements)[2]} ELSE {})}
     ELSE LET off == o[3 - ray.w]
              chords == {c \in UNION {RadiiAt(elements[n], o[3]) : n \in DOMAIN elements} :
                           c * c >= off * off}
          IN {s * Root(c * c - off * off) - ray.sense * o[ray.w] : c \in chords, s \in {-1, 1}}

\* The crossings only bound the candidates; the middle of each says whether it
\* is inside. A ray that starts inside has no surface there.
intersect_ray(elements, ray) ==
  Joined({p \in Steps({0} \union {t \in element_crossings(elements, ray) : t >= 0}) :
            contains_half(elements, [l \in 1 .. 3 |-> Through(ray, p[1])[l] + Through(ray, p[2])[l]])},
         LAMBDA t : IF t = 0 /\ contains_xyz(elements, ray.origin) THEN PLACEHOLDER
                    ELSE surface_normal(elements, Through(ray, t)))

spans_in_tool_at(elements, tip, ray) ==
  intersect_ray(elements, [ray EXCEPT !.origin = Minus(@, tip)])
-----------------------------------------------------------------------------
(* Motions (sweep/mod.rs, arc.rs) *)
\* The four bearings, counter-clockwise.
Bearings == <<<<1, 0>>, <<0, 1>>, <<-1, 0>>, <<0, -1>>>>

Bearing(quarters) == Bearings[(quarters % 4) + 1]

ToUnit(turns) == turns * Sign(turns)

\* The tip k quarters into an arc; the axes of its plane are u, v and w.
ArcAt(m, k) ==
  LET c == cyclic(m.plane)
      b == Bearing(m.from + (Sign(m.turns) * k))
  IN [m.center EXCEPT ![c[1]] = @ + m.radius * b[1], ![c[2]] = @ + m.radius * b[2],
                      ![c[3]] = m.z + (m.rise * k) \div ToUnit(m.turns)]

\* The n-th of N even steps along a motion.
PositionAt(m, n, N) ==
  IF m.kind = "arc" THEN ArcAt(m, (n * ToUnit(m.turns)) \div N)
  ELSE [l \in 1 .. 3 |-> m.start[l] + ((m.end[l] - m.start[l]) * n) \div N]

case(m) ==
  IF m.kind = "arc"
  THEN IF m.rise # 0 THEN "Helix" ELSE IF m.plane = 3 THEN "Arc" ELSE "Ramp"
  ELSE LET d == Minus(m.end, m.start)
           level == d[3] = 0
           upright == d[1] = 0 /\ d[2] = 0
       IN IF level THEN IF upright THEN "Stationary" ELSE "Horizontal"
          ELSE IF upright THEN "Plunge" ELSE "Ramp"

\* The steps that keep a motion sampled well enough: of an arc the quarters of
\* it, of a line the steps of at most twice the tolerance.
substeps_for_error(m, tolerance) ==
  IF m.kind = "arc" THEN ToUnit(m.turns)
  ELSE LET d == Minus(m.end, m.start)
       IN Larger(1, (Root(Dot(d, d)) + 2 * tolerance - 1) \div (2 * tolerance))

\* A method is [analytic, steps, tolerance]. The analytic one plans no steps where
\* it counts on the closed form; whatever is stepped takes one at least.
plan(method, m) ==
  IF ~method.analytic THEN Larger(1, method.steps)
  ELSE IF case(m) \in {"Stationary", "Horizontal", "Arc"} THEN 0
  ELSE substeps_for_error(m, method.tolerance)

\* An arc's box is that of the tips it is sampled at.
swept_bounds(elements, m) ==
  LET tips == IF m.kind = "arc" THEN {ArcAt(m, k) : k \in 0 .. ToUnit(m.turns)} ELSE {m.start, m.end}
      Reach(l) == IF l = 3 THEN 0 ELSE max_radius(elements)
  IN [min |-> [l \in 1 .. 3 |-> Min({p[l] : p \in tips}) - Reach(l)],
      max |-> [l \in 1 .. 3 |-> Max({p[l] : p \in tips})
                                  + IF l = 3 THEN total_length(elements) ELSE Reach(l)]]
-----------------------------------------------------------------------------
(* reference.rs: the static tool at every step. *)
stepped_spans(elements, m, N, ray) ==
  LET swept[n \in 0 .. N] ==
        LET here == spans_in_tool_at(elements, PositionAt(m, n, N), ray)
        IN IF n = 0 THEN here ELSE union(swept[n - 1], here)
  IN swept[N]
-----------------------------------------------------------------------------
(* horizontal.rs: the tool at both ends, and the prism between them, its cross  *)
(* section the tool cut through the axis.                                       *)
\* Along the motion and across it, from the start.
Frame(m, v) ==
  LET d == Minus(m.end, m.start)
      u == <<Sign(d[1]), Sign(d[2])>>
  IN <<v[1] * u[1] + v[2] * u[2], v[2] * u[1] - v[1] * u[2]>>

slab_interval(a, da, length) ==
  IF da = 0 THEN IF 0 <= a /\ a <= length THEN Bare(-FAR, FAR) ELSE <<>>
  ELSE LET ts == {-a * da, (length - a) * da} IN Bare(Min(ts), Max(ts))

\* Back out of the cross section.
Restored(m, spans) ==
  LET d == Minus(m.end, m.start)
      Out(n) == IF n = PLACEHOLDER THEN n ELSE <<-Sign(d[2]) * n[1], Sign(d[1]) * n[1], n[3]>>
  IN [n \in DOMAIN spans |-> [spans[n] EXCEPT !.n0 = Out(@), !.n1 = Out(@)]]

prism_spans(elements, m, ray) ==
  LET at == Frame(m, Minus(ray.origin, m.start))
      dir == Frame(m, direction(ray.w))
      height == ray.origin[3] - m.start[3]
      length == Frame(m, Minus(m.end, m.start))[1]
      slab == slab_interval(at[1], dir[1], length)
      local == [origin |-> <<at[2], 0, height>>, w |-> IF ray.w = 3 THEN 3 ELSE 1,
                sense |-> IF ray.w = 3 THEN 1 ELSE dir[2]]
  IN IF slab = <<>> THEN <<>>
     ELSE IF ray.w # 3 /\ dir[2] = 0
     THEN IF contains_rz(elements, at[2] * Sign(at[2]), height) THEN slab ELSE <<>>
     ELSE clipped_to(Restored(m, intersect_ray(elements, local)), slab)

\* Slip: the prism without the tool at its ends.
horizontal_prism_only(elements, m, ray) == prism_spans(elements, m, ray)

horizontal_spans(elements, m, ray) ==
  union(union(spans_in_tool_at(elements, m.start, ray), spans_in_tool_at(elements, m.end, ray)),
        prism_spans(elements, m, ray))
-----------------------------------------------------------------------------
(* plunge.rs *)
\* Where a ray along w passes within `reach` of an upright axis.
Chord(ray, axis, reach) ==
  LET v == Minus(ray.origin, axis)
      rest == reach * reach - v[3 - ray.w] * v[3 - ray.w]
  IN IF reach <= 0 \/ rest <= 0 THEN <<>> ELSE Bare(-v[ray.w] - Root(rest), -v[ray.w] + Root(rest))

\* The widest the tool is at any height that passes the ray's.
widest_past(elements, w, dz) == max_radius_over_z_at(elements, Min({w, w - dz}), Max({w, w - dz}))

\* Along the motion the tool's spans are drawn out; across it the tool leaves a
\* disc as wide as the widest part that passes.
DrawnOut(base, dz) ==
  LET swept[n \in 0 .. Len(base)] ==
        IF n = 0 THEN <<>>
        ELSE union(swept[n - 1], <<[base[n] EXCEPT !.t0 = @ + Min({0, dz}), !.t1 = @ + Max({0, dz})]>>)
  IN swept[Len(base)]

\* The wall faces as the tool does at the height `widest` is found at.
Walled(elements, axis, ray, widest) ==
  LET chord == Chord(ray, axis, widest[1])
      Facing(t) == LET p == Minus(Through(ray, t), axis)
                   IN surface_normal(elements, <<p[1], p[2], widest[2]>>)
  IN [n \in DOMAIN chord |-> [chord[n] EXCEPT !.n0 = Facing(chord[n].t0), !.n1 = Facing(chord[n].t1)]]

plunge_spans(elements, m, ray) ==
  LET dz == m.end[3] - m.start[3]
  IN IF ray.w = 3 THEN DrawnOut(spans_in_tool_at(elements, m.start, ray), dz)
     ELSE Walled(elements, m.start, ray, widest_past(elements, ray.origin[3] - m.start[3], dz))
-----------------------------------------------------------------------------
(* arc.rs: the tool at both ends, and between them what is near enough to the   *)
(* circle, in the directions the arc passes.                                    *)
\* How far into the turn a direction is, in halves of a quarter.
IntoTurn(m, v) ==
  LET to == IF v = <<0, 0>> THEN Bearing(0) ELSE v
      Off(q) == <<Inner(Bearing(q), to), Wedge(Bearing(q), to)>>
      q == CHOOSE k \in 0 .. 3 : Off(k)[1] > 0 /\ Off(k)[2] >= 0
      eighths == 2 * q + IF Off(q)[2] = 0 THEN 0 ELSE 1
  IN (Sign(m.turns) * (eighths - 2 * m.from)) % 8

wedge_contains(m, v) == ToUnit(m.turns) >= 4 \/ IntoTurn(m, v) <= 2 * ToUnit(m.turns)

\* Where along the ray cross(u, q) has the sign wanted.
half_plane(u, ray, axis, sense) ==
  LET v == Minus(ray.origin, axis)
      d == direction(ray.w)
      a == sense * Wedge(u, <<v[1], v[2]>>)
      b == sense * Wedge(u, <<d[1], d[2]>>)
  IN IF b = 0 THEN IF a >= 0 THEN Bare(-FAR, FAR) ELSE <<>>
     ELSE IF b > 0 THEN Bare(-a * b, FAR) ELSE Bare(-FAR, -a * b)

\* Between the two ends of up to half a turn, and on either side of one of them
\* otherwise.
wedge_intervals(m, ray) ==
  LET ends == {m.from, m.from + m.turns}
      after == half_plane(Bearing(Min(ends)), ray, m.center, 1)
      before == half_plane(Bearing(Max(ends)), ray, m.center, -1)
  IN IF ToUnit(m.turns) >= 4 THEN Bare(-FAR, FAR)
     ELSE IF ToUnit(m.turns) <= 2 THEN clipped_to(after, before) ELSE union(after, before)

\* The tool that reaches p stands on the circle in p's direction.
middle_normal(elements, m, p) ==
  LET v == Minus(p, m.center)
      d == Root(v[1] * v[1] + v[2] * v[2])
      off == d - m.radius
      n == profile_normal(elements, <<off * Sign(off), p[3] - m.z>>)
  IN IF off = 0 THEN lift(n, v, 0) ELSE lift(n, <<Sign(off) * v[1], Sign(off) * v[2]>>, d)

annulus_spans(elements, m, ray) ==
  LET reach == max_radius_over_z_at(elements, ray.origin[3] - m.z, ray.origin[3] - m.z)[1]
      ring == subtract(Chord(ray, m.center, m.radius + reach), Chord(ray, m.center, m.radius - reach))
  IN IF reach <= 0 THEN <<>> ELSE clipped_to(ring, wedge_intervals(m, ray))

Faced(elements, m, ray, spans) ==
  LET N(t) == middle_normal(elements, m, Through(ray, t))
  IN [n \in DOMAIN spans |-> [spans[n] EXCEPT !.n0 = N(spans[n].t0), !.n1 = N(spans[n].t1)]]

arc_spans(elements, m, ray) ==
  LET v == Minus(ray.origin, m.center)
      off == Root(v[1] * v[1] + v[2] * v[2]) - m.radius
      middle == IF ray.w # 3 THEN annulus_spans(elements, m, ray)
                ELSE IF ~wedge_contains(m, <<v[1], v[2]>>) THEN <<>>
                ELSE intersect_ray(elements, [ray EXCEPT !.origin = <<off * Sign(off), 0, @[3] - m.z>>])
  IN union(union(spans_in_tool_at(elements, ArcAt(m, 0), ray),
                 spans_in_tool_at(elements, ArcAt(m, ToUnit(m.turns)), ray)),
           Faced(elements, m, ray, middle))
-----------------------------------------------------------------------------
(* cut.rs *)
\* A closed form, unless it declines: a plunge and the rays across an arc take a
\* tool with no material beyond a gap.
closed_form(elements, convex, m, ray) ==
  \/ case(m) \in {"Stationary", "Horizontal"}
  \/ case(m) = "Plunge" /\ convex
  \/ case(m) = "Arc" /\ (ray.w = 3 \/ convex)

swept_for_ray(elements, convex, method, m, ray) ==
  IF method.analytic /\ closed_form(elements, convex, m, ray)
  THEN CASE case(m) = "Stationary" -> spans_in_tool_at(elements, m.start, ray)
         [] case(m) = "Horizontal" -> horizontal_spans(elements, m, ray)
         [] case(m) = "Plunge" -> plunge_spans(elements, m, ray)
         [] case(m) = "Arc" -> arc_spans(elements, m, ray)
  ELSE stepped_spans(elements, m, Larger(1, plan(method, m)), ray)

\* Half a cell of slack, for each of the two directions its own.
transverse_overlaps(box, lattice, origin) ==
  \A n \in 1 .. 2 :
    LET l == cyclic(lattice.axis)[n]
    IN /\ 2 * origin[l] >= 2 * box.min[l] - lattice.spacing[n]
       /\ 2 * origin[l] <= 2 * box.max[l] + lattice.spacing[n]

\* A field's spans have fractions for bounds; the instances cut whole ones.
Whole(spans) == [n \in DOMAIN spans |-> [spans[n] EXCEPT !.t0 = @[1] \div @[2], !.t1 = @[1] \div @[2]]]

Fractions(spans) ==
  [n \in DOMAIN spans |->
     [t0 |-> <<spans[n].t0, 1>>, t1 |-> <<spans[n].t1, 1>>, n0 |-> spans[n].n0, n1 |-> spans[n].n1]]

Remaining(material, swept) == Fractions(subtract(Whole(material), swept))

\* Rays the box misses and rays of air are left as they are.
cut_bundle(bundle, elements, method, m) ==
  LET box == swept_bounds(elements, m)
      convex == is_radially_convex(elements)
      Swept(ray) == swept_for_ray(elements, convex, method, m,
                                  [origin |-> ray.origin, w |-> ray.w, sense |-> 1])
      Cut(r) == LET ray == ray_at(bundle.lattice, r - 1)
                IN IF bundle.arena[r] = <<>> \/ ~transverse_overlaps(box, bundle.lattice, ray.origin)
                   THEN bundle.arena[r] ELSE Remaining(bundle.arena[r], Swept(ray))
  IN [bundle EXCEPT !.arena = [r \in DOMAIN bundle.arena |-> Cut(r)]]
=============================================================================
