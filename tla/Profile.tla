------------------------------ MODULE Profile ------------------------------
(* The generating profile of a tool: its validation (tool/profile.rs,            *)
(* selfintersect.rs), the queries the sweeps ask of it (properties.rs,           *)
(* sweep/plunge.rs) and the outward normal of its surface (normal.rs).           *)
(*                                                                               *)
(* A profile is a chain of elements in the half-plane <<r, z>>, revolved about   *)
(* r = 0; a disc closes it at its last point. An element is [kind, start, end,   *)
(* role], an "arc" also [center, turn] with turn 1 for counter-clockwise and -1  *)
(* for clockwise; the roles are 0 cutting, 1 non-cutting, 2 holder. Coordinates  *)
(* are whole, so points that differ are further apart than any tolerance, and so *)
(* are radii; r changes by whole numbers as z does along a segment.              *)
EXTENDS Mesh

\* The root, rounded up; exact wherever it decides anything.
Root(n) == CHOOSE k \in 0 .. n : k * k >= n /\ \A j \in {k - 1} : j < 0 \/ j * j < n

Away(p, q) == <<p[1] - q[1], p[2] - q[2]>>

Wedge(a, b) == a[1] * b[2] - a[2] * b[1]

Inner(a, b) == a[1] * b[1] + a[2] * b[2]

radius(e) == LET a == Away(e.start, e.center) IN Root(Inner(a, a))

\* How much of a turn past the start, in halves and what lies between them.
Part(e, v) ==
  LET a == Away(e.start, e.center)
      w == e.turn * Wedge(a, v)
  IN IF w > 0 THEN 1 ELSE IF w < 0 THEN 3 ELSE IF Inner(a, v) >= 0 THEN 0 ELSE 2

\* The direction v from the centre is one the arc passes, ends included.
contains_angle(e, v) ==
  LET to == Away(e.end, e.center)
  IN \/ Part(e, v) < Part(e, to)
     \/ Part(e, v) = Part(e, to) /\ e.turn * Wedge(v, to) >= 0

\* Where the element can be furthest out along a coordinate: its ends, and where
\* an arc turns round.
Extremes(e, l) ==
  {e.start[l], e.end[l]} \union
    IF e.kind = "arc"
    THEN {e.center[l] + s * radius(e) :
            s \in {x \in {-1, 1} : contains_angle(e, [k \in 1 .. 2 |-> IF k = l THEN x ELSE 0])}}
    ELSE {}

Between(S) == Min(S) .. Max(S)
-----------------------------------------------------------------------------
(* selfintersect.rs *)
StrictlyAlong(p, e) ==
  LET along == Away(e.end, e.start)
      u == Inner(Away(p, e.start), along)
  IN 0 < u /\ u < Inner(along, along)

\* Where two segments cross; <<>> stands for a proper crossing. Two on one line
\* meet at the first end that is inside the other.
segments_cross(a, b) ==
  LET side(s, p) == orient2d(s.start, s.end, p, 1, 2)
      ends == <<<<b.start, a>>, <<b.end, a>>, <<a.start, b>>, <<a.end, b>>>>
      inside == SelectSeq(ends, LAMBDA end : StrictlyAlong(end[1], end[2]))
  IN IF side(a, b.start) * side(a, b.end) < 0 /\ side(b, a.start) * side(b, a.end) < 0 THEN {<<>>}
     ELSE IF side(a, b.start) = 0 /\ side(a, b.end) = 0 /\ inside # <<>> THEN {inside[1][1]}
     ELSE {}

lies_on(e, p) ==
  IF e.kind = "segment"
  THEN LET along == Away(e.end, e.start)
           u == Inner(Away(p, e.start), along)
       IN 0 <= u /\ u <= Inner(along, along) /\ Wedge(along, Away(p, e.start)) = 0
  ELSE LET v == Away(p, e.center)
       IN Inner(v, v) = radius(e) * radius(e) /\ contains_angle(e, v)

\* With an arc, the points the two share; those of the instances are whole.
candidate_points(a, b) ==
  {p \in Between(Extremes(a, 1)) \X Between(Extremes(a, 2)) : lies_on(a, p) /\ lies_on(b, p)}

\* Neighbours may meet where one ends and the other begins; nothing else may.
first_crossing(elements) ==
  \E i, j \in DOMAIN elements :
    /\ i < j
    /\ LET a == elements[i]
           b == elements[j]
           meet == IF a.kind = "segment" /\ b.kind = "segment" THEN segments_cross(a, b)
                   ELSE candidate_points(a, b)
       IN \E at \in meet : ~(j = i + 1 /\ at = a.end)
-----------------------------------------------------------------------------
(* Profile::new: the first fault from the tip upward, then crossings. *)
ElementFault(elements, i) ==
  LET e == elements[i]
      SameRadius == LET a == Away(e.start, e.center)
                        b == Away(e.end, e.center)
                    IN Inner(a, a) = Inner(b, b)
  IN IF i > 1 /\ e.start # elements[i - 1].end THEN "Discontinuous"
     ELSE IF e.kind = "arc" /\ e.start = e.end THEN "ClosedArc"
     ELSE IF e.kind = "arc" /\ ~SameRadius THEN "InconsistentArcRadius"
     ELSE IF e.start = e.end THEN "ZeroLength"
     ELSE IF Min(Extremes(e, 1)) < 0 THEN "NegativeRadius"
     ELSE IF Min(Extremes(e, 2)) < 0 THEN "BelowTip"
     ELSE IF i > 1 /\ e.role < elements[i - 1].role THEN "RolesOutOfOrder"
     ELSE "None"

\* The first of a sequence of faults that is one.
FirstFault(faults) ==
  LET bad == {i \in DOMAIN faults : faults[i] # "None"}
  IN IF bad = {} THEN "None" ELSE faults[Min(bad)]

OrElse(fault, next) == IF fault # "None" THEN fault ELSE next

profile_fault(elements) ==
  IF elements = <<>> THEN "Empty"
  ELSE IF elements[1].start # <<0, 0>> THEN "TipNotAtOrigin"
  ELSE OrElse(FirstFault([i \in DOMAIN elements |-> ElementFault(elements, i)]),
              IF first_crossing(elements) THEN "SelfIntersecting" ELSE "None")

max_radius(elements) == Max(UNION {Extremes(elements[i], 1) : i \in DOMAIN elements})

total_length(elements) == Max(UNION {Extremes(elements[i], 2) : i \in DOMAIN elements})

top(elements) == Last(elements).end
-----------------------------------------------------------------------------
(* properties.rs *)
\* The radii at which an element crosses a height. A segment has its lower end
\* (the one it starts from) and not the other; an arc has both.
crossings_at(e, z) ==
  IF e.kind = "segment"
  THEN LET d == Away(e.end, e.start)
           n == (z - e.start[2]) * Sign(d[2])
       IN IF 0 <= n /\ n < d[2] * Sign(d[2]) THEN {e.start[1] + n * (d[1] \div (d[2] * Sign(d[2])))}
          ELSE {}
  ELSE LET dz == z - e.center[2]
           rest == radius(e) * radius(e) - dz * dz
       IN IF rest <= 0 THEN {}
          ELSE {e.center[1] + dr : dr \in {x \in {-Root(rest), Root(rest)} : contains_angle(e, <<x, dz>>)}}

\* Odd many crossings further out.
contains_rz(elements, r, z) ==
  /\ 0 <= z /\ z <= total_length(elements)
  /\ FoldLeft(LAMBDA n, e : n + Cardinality({c \in crossings_at(e, z) : c > r}), 0, elements) % 2 = 1
-----------------------------------------------------------------------------
(* normal.rs, at a point of the surface: the first element it lies on, or the   *)
(* top. The tangent turned clockwise, or out of the arc's centre, and in for an *)
(* arc that runs clockwise. Not scaled to unit length.                          *)
element_normal(e, p) ==
  IF e.kind = "segment" THEN LET t == Away(e.end, e.start) IN <<t[2], -t[1]>>
  ELSE LET v == Away(p, e.center) IN <<e.turn * v[1], e.turn * v[2]>>

profile_normal(elements, p) ==
  LET on == {i \in DOMAIN elements : lies_on(elements[i], p)}
  IN IF on = {} THEN <<0, 1>> ELSE element_normal(elements[Min(on)], p)

\* Spread round the axis; on it, up or down.
lift(n, at, rho) ==
  IF rho = 0 THEN <<0, 0, IF n[2] >= 0 THEN 1 ELSE -1>>
  ELSE <<n[1] * at[1], n[1] * at[2], n[2] * rho>>

surface_normal(elements, at) ==
  LET rho == Root(at[1] * at[1] + at[2] * at[2])
  IN lift(profile_normal(elements, <<rho, at[3]>>), at, rho)
-----------------------------------------------------------------------------
(* plunge.rs *)
\* Where an element is in a window of heights: its ends, the edges of the window
\* and an arc's outermost point.
InWindow(e, lo, hi) ==
  {e.start, e.end}
    \union (IF e.kind = "segment"
            THEN {<<r, z>> : r \in crossings_at(e, lo), z \in {lo}}
                   \union {<<r, z>> : r \in crossings_at(e, hi), z \in {hi}}
            ELSE {<<e.center[1] + s * Root(radius(e) * radius(e) - (z - e.center[2]) * (z - e.center[2])), z>> :
                    s \in {-1, 1},
                    z \in {w \in {lo, hi} : (w - e.center[2]) * (w - e.center[2]) <= radius(e) * radius(e)}}
                 \union {<<e.center[1] + radius(e), e.center[2]>>})

\* The largest radius in the window, and where; <<0, lo>> when nothing is there.
Furthest(reached, lo) ==
  LET best == Max({0} \union {p[1] : p \in reached})
  IN <<best, IF best = 0 THEN lo ELSE CHOOSE z \in {p[2] : p \in reached} : <<best, z>> \in reached>>

max_radius_over_z_at(elements, lo, hi) ==
  Furthest({p \in UNION {{q \in InWindow(elements[i], lo, hi) : lies_on(elements[i], q)} :
                            i \in DOMAIN elements} : lo <= p[2] /\ p[2] <= hi}, lo)

\* No material beyond a gap, at any height: sampled, here at whole coordinates.
is_radially_convex(elements) ==
  \A z \in 1 .. total_length(elements) - 1 :
    LET inside == {r \in 0 .. max_radius(elements) - 1 : contains_rz(elements, r, z)}
    IN inside = {} \/ inside = 0 .. Max(inside)
-----------------------------------------------------------------------------
(* tessellate.rs. A tolerance is "none" when it is not a positive length, or how *)
(* closely it follows an arc: "coarse" by one chord, "fine" by the chords through *)
(* its whole points. A ring of four stands for 8 to 4096 divisions.              *)
Past(e, p, q) ==
  LET a == Away(p, e.center)
      b == Away(q, e.center)
  IN \/ Part(e, a) < Part(e, b)
     \/ Part(e, a) = Part(e, b) /\ e.turn * Wedge(a, b) > 0

Onward(e, points) ==
  [n \in 1 .. Cardinality(points) |->
     CHOOSE p \in points : Cardinality({q \in points : Past(e, q, p)}) = n - 1]

\* The points of an arc past its start, in order.
Chords(e, tolerance) ==
  Onward(e, IF tolerance = "fine"
            THEN {p \in Between(Extremes(e, 1)) \X Between(Extremes(e, 2)) : lies_on(e, p) /\ p # e.start}
            ELSE {e.end})

stations(elements, tolerance) ==
  <<<<0, 0>>>> \o FlattenSeq([n \in DOMAIN elements |->
    IF elements[n].kind = "segment" THEN <<elements[n].end>> ELSE Chords(elements[n], tolerance)])

\* A station on the axis is a single point.
Ring(s) ==
  IF s[1] = 0 THEN <<<<0, 0, s[2]>>>>
  ELSE <<<<s[1], 0, s[2]>>, <<0, s[1], s[2]>>, <<-s[1], 0, s[2]>>, <<0, -s[1], s[2]>>>>

\* Slip: the fan round a tip is wound as the bands are.
BandOneHand(lo, hi) ==
  FlattenSeq([k \in 1 .. 4 |->
    LET k1 == (k % 4) + 1
    IN IF Len(lo) = 1 /\ Len(hi) = 1 THEN <<>>
       ELSE IF Len(lo) = 1 THEN <<<<lo[1], hi[k], hi[k1]>>>>
       ELSE IF Len(hi) = 1 THEN <<<<lo[k], lo[k1], hi[1]>>>>
       ELSE <<<<lo[k], lo[k1], hi[k1]>>, <<lo[k], hi[k1], hi[k]>>>>])

\* The band between two rings, given by the numbers of their vertices.
Band(lo, hi) ==
  FlattenSeq([k \in 1 .. 4 |->
    LET k1 == (k % 4) + 1
    IN IF Len(lo) = 1 /\ Len(hi) = 1 THEN <<>>
       ELSE IF Len(lo) = 1 THEN <<<<lo[1], hi[k1], hi[k]>>>>
       ELSE IF Len(hi) = 1 THEN <<<<lo[k], lo[k1], hi[1]>>>>
       ELSE <<<<lo[k], lo[k1], hi[k1]>>, <<lo[k], hi[k1], hi[k]>>>>])

Cap(centre, ring) == [k \in 1 .. 4 |-> <<centre, ring[k], ring[(k % 4) + 1]>>]

\* Rings from the tip up, bands between them, and a cap unless the top is a point.
Banded(rings, last) ==
  LET before == [n \in DOMAIN rings |-> Len(FlattenSeq(SubSeq(rings, 1, n - 1)))]
      Numbers(n) == [k \in DOMAIN rings[n] |-> before[n] + k]
      points == FlattenSeq(rings)
      bands == FlattenSeq([n \in 1 .. Len(rings) - 1 |-> Band(Numbers(n), Numbers(n + 1))])
      capped == last[1] > 0
  IN [vertices |-> IF capped THEN Append(points, <<0, 0, last[2]>>) ELSE points,
      triangles |-> IF capped THEN bands \o Cap(Len(points) + 1, Numbers(Len(rings))) ELSE bands]

Rings(at) == [n \in DOMAIN at |-> Ring(at[n])]

tessellate(elements, tolerance) == Banded(Rings(stations(elements, tolerance)), top(elements))
=============================================================================
