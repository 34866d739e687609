------------------------------ MODULE Contour ------------------------------
(* Dual contouring of a tri-dexel field (contour/mod.rs): the grid of ray        *)
(* positions with a ring of virtual corners around it, the vote that decides a   *)
(* corner, the crossing on each edge whose ends differ, one vertex for each      *)
(* connected group of a cell's inside corners, and a quad around each such edge. *)
(*                                                                               *)
(* Grid corners and cells count from 1, the ring included, so grid corner c      *)
(* stands on ray c - 2 of the lattice. A mesh vertex is <<i, j, k, component>>:  *)
(* its cell and the component it stands for. Where in (or near) its cell the     *)
(* error solve and the clamp put it is left out.                                 *)
EXTENDS Field

Ringed(c, out) == <<c[1] - out>> \o c \o <<Last(c) + out>>

\* One corner more at each end, as far out as the X bundle's larger cell.
WithRing(bundles) ==
  LET out == spacing_max(bundles[1].lattice)
  IN <<Ringed(corner_coordinates(bundles, 1), out), Ringed(corner_coordinates(bundles, 2), out),
       Ringed(corner_coordinates(bundles, 3), out)>>

Corners(at) == [l \in 1 .. 3 |-> Len(at[l])]

\* The ray of a bundle through a corner, or none when the corner is outside
\* the bundle's transverse range.
OnARay(bundle, corner) ==
  LET c == cyclic(bundle.lattice.axis)
  IN \A n \in 1 .. 2 : corner[c[n]] - 2 \in 0 .. bundle.lattice.counts[n] - 1

RayThrough(bundle, corner) ==
  LET c == cyclic(bundle.lattice.axis)
  IN index(bundle.lattice, corner[c[1]] - 2, corner[c[2]] - 2)

SpansThrough(bundle, corner) == bundle.arena[RayThrough(bundle, corner) + 1]

Behind(bundle) == bundle.lattice.origin[bundle.lattice.axis] - spacing_max(bundle.lattice)

\* The parameter of an ordinate on any of a bundle's rays.
Parameter(bundle, ordinate) == <<ordinate - Behind(bundle), 1>>

contains(span, t) == AtOrBefore(span.t0, t) /\ Precedes(t, span.t1)

bundle_says_inside(bundle, at, corner) ==
  LET w == bundle.lattice.axis
      spans == SpansThrough(bundle, corner)
  IN \E n \in DOMAIN spans : contains(spans[n], Parameter(bundle, at[w][corner[w]]))

\* The majority of the bundles that can answer; a tie is outside.
classify_corner(bundles, at, corner) ==
  LET votes == {a \in 1 .. 3 : OnARay(bundles[a], corner)}
      yes == {a \in votes : bundle_says_inside(bundles[a], at, corner)}
  IN Cardinality(yes) * 2 > Cardinality(votes)
-----------------------------------------------------------------------------
(* Crossings. An edge is [axis, lo]; a crossing [at, normal], where `at` is an  *)
(* ordinate as a fraction.                                                      *)
High(edge) == [edge.lo EXCEPT ![edge.axis] = @ + 1]

\* The bounds of the edge's own ray, in the order they are looked at.
Bounding(bundle, edge) ==
  FlattenSeq([n \in DOMAIN SpansThrough(bundle, edge.lo) |->
                LET s == SpansThrough(bundle, edge.lo)[n]
                IN <<[t |-> s.t0, normal |-> s.n0, begins |-> TRUE],
                     [t |-> s.t1, normal |-> s.n1, begins |-> FALSE]>>])

\* Slip: the first bound on the edge is taken, whichever way it turns.
crossing_on_any_turn(bundle, at, edge, inside_lo) ==
  IF ~OnARay(bundle, edge.lo) THEN <<>>
  ELSE SelectSeq(Bounding(bundle, edge),
                 LAMBDA b : /\ Precedes(Parameter(bundle, at[edge.axis][edge.lo[edge.axis]]), b.t)
                            /\ Precedes(b.t, Parameter(bundle, at[edge.axis][High(edge)[edge.axis]])))

\* The bounds strictly inside the edge that turn the way the edge's ends do.
crossing_on(bundle, at, edge, inside_lo) ==
  IF ~OnARay(bundle, edge.lo) THEN <<>>
  ELSE SelectSeq(Bounding(bundle, edge),
                 LAMBDA b : /\ Precedes(Parameter(bundle, at[edge.axis][edge.lo[edge.axis]]), b.t)
                            /\ Precedes(b.t, Parameter(bundle, at[edge.axis][High(edge)[edge.axis]]))
                            /\ b.begins # inside_lo)

\* The first such bound, or the middle of the edge with no normal.
edge_crossing(bundles, at, edge, inside_lo) ==
  LET bundle == bundles[edge.axis]
      found == crossing_on(bundle, at, edge, inside_lo)
  IN IF found # <<>>
     THEN [at |-> <<found[1].t[1] + Behind(bundle) * found[1].t[2], found[1].t[2]>>,
           normal |-> found[1].normal]
     ELSE [at |-> <<at[edge.axis][edge.lo[edge.axis]] + at[edge.axis][High(edge)[edge.axis]], 2>>,
           normal |-> PLACEHOLDER]

OnPlane(at) == (1 .. Len(at[1])) \X (1 .. Len(at[2]))

\* The inside corners of one plane, as <<i, j>>.
build_plane(bundles, at, k) ==
  {c \in OnPlane(at) : classify_corner(bundles, at, Append(c, k))}

\* Its crossings, by edge: none where both ends are alike.
PlaneCrossings(bundles, at, k, inside) ==
  LET edges == {e \in [axis : {1, 2}, c : OnPlane(at)] :
                  LET hi == [e.c EXCEPT ![e.axis] = @ + 1]
                  IN hi \in OnPlane(at) /\ Cardinality({e.c, hi} \intersect inside) = 1}
  IN {LET edge == [axis |-> e.axis, lo |-> Append(e.c, k)]
      IN [edge |-> edge, inside_lo |-> e.c \in inside,
          crossing |-> edge_crossing(bundles, at, edge, e.c \in inside)] : e \in edges}

build_z_crossings(bundles, at, k, lower, upper) ==
  {LET edge == [axis |-> 3, lo |-> Append(c, k)]
   IN [edge |-> edge, inside_lo |-> c \in lower,
       crossing |-> edge_crossing(bundles, at, edge, c \in lower)] :
     c \in (lower \ upper) \union (upper \ lower)}
-----------------------------------------------------------------------------
(* The corners of a cell are 0 to 7, by the bits of their offset.               *)
corner_offset(c) == <<c % 2, (c \div 2) % 2, c \div 4>>

CELL_EDGES == {e \in SUBSET (0 .. 7) :
                 \E a, b \in 0 .. 7 :
                   /\ e = {a, b}
                   /\ Cardinality({l \in 1 .. 3 : corner_offset(a)[l] # corner_offset(b)[l]}) = 1}

\* Slip: all the inside corners of a cell are one component.
OneComponent(inside, corner) == inside

\* The component of an inside corner: what a flood from it along the edges of
\* the cell reaches. The code numbers components by their lowest corners.
component_of(inside, corner) ==
  LET reach[n \in 0 .. 7] ==
        IF n = 0 THEN {corner}
        ELSE LET near == reach[n - 1]
             IN near \union {c \in inside : \E r \in near : {c, r} \in CELL_EDGES}
  IN reach[7]

\* A component with no edge to an outside corner has no vertex.
HasVertex(inside, component) ==
  \E e \in CELL_EDGES : e \intersect component # {} /\ ~(e \subseteq inside)

\* The inside corners of each cell of a slab, from its two planes.
place_slab_vertices(lower, upper, n) ==
  [cell \in (1 .. n[1] - 1) \X (1 .. n[2] - 1) |->
     {c \in 0 .. 7 :
        LET d == corner_offset(c)
        IN <<cell[1] + d[1], cell[2] + d[2]>> \in IF d[3] = 0 THEN lower ELSE upper}]
-----------------------------------------------------------------------------
(* Quads. The four cells around an edge, in the order its two other axes turn.  *)
Around(edge) ==
  LET c == cyclic(edge.axis)
      Back(u, v) == [edge.lo EXCEPT ![c[1]] = @ - u, ![c[2]] = @ - v]
  IN <<Back(1, 1), Back(0, 1), Back(0, 0), Back(1, 0)>>

corner_bits_of(corner, cell) ==
  (corner[1] - cell[1]) + 2 * (corner[2] - cell[2]) + 4 * (corner[3] - cell[3])

\* Material to air: out of the low corner one way, into it the other.
Wind(quad, inside_lo) ==
  IF inside_lo THEN <<<<quad[1], quad[2], quad[3]>>, <<quad[1], quad[3], quad[4]>>>>
  ELSE <<<<quad[1], quad[3], quad[2]>>, <<quad[1], quad[4], quad[3]>>>>

\* The cells around the edge are the slab's, or those of the slab below it.
push_quad(edge, inside_lo, below, here, k) ==
  LET corner == IF inside_lo THEN edge.lo ELSE High(edge)
      Inside(cell) == (IF cell[3] = k THEN here ELSE below)[<<cell[1], cell[2]>>]
      Vertex(cell) ==
        LET inside == Inside(cell)
            bits == corner_bits_of(corner, cell)
            component == IF bits \in inside THEN component_of(inside, bits) ELSE {}
        IN IF HasVertex(inside, component) THEN <<Append(cell, component)>> ELSE <<>>
      quad == FlattenSeq([s \in 1 .. 4 |-> Vertex(Around(edge)[s])])
  IN IF Len(quad) < 4 THEN <<>> ELSE Wind(quad, inside_lo)

\* The four cells need the edge interior along both other axes.
Interior(edge, n) ==
  \A l \in 1 .. 3 \ {edge.axis} : edge.lo[l] \in 2 .. n[l] - 1

\* Corners of a plane in the order they are visited: j, then i.
PlaneOrder(ni, nj) == [m \in 1 .. ni * nj |-> <<((m - 1) % ni) + 1, ((m - 1) \div ni) + 1>>]

emit_z_quads(lower, upper, here, n, k) ==
  LET at == PlaneOrder(n[1], n[2])
  IN FlattenSeq([m \in DOMAIN at |->
       LET edge == [axis |-> 3, lo |-> Append(at[m], k)]
       IN IF (at[m] \in lower) = (at[m] \in upper) \/ ~Interior(edge, n) THEN <<>>
          ELSE push_quad(edge, at[m] \in lower, here, here, k)])

\* Slip: the cells of the slab below are taken from this one.
EmitXyFromOneSlab(axis, plane, below, here, n, k) ==
  LET at == PlaneOrder(IF axis = 1 THEN n[1] - 1 ELSE n[1], IF axis = 2 THEN n[2] - 1 ELSE n[2])
  IN FlattenSeq([m \in DOMAIN at |->
       LET edge == [axis |-> axis, lo |-> Append(at[m], k)]
           hi == [at[m] EXCEPT ![axis] = @ + 1]
       IN IF (at[m] \in plane) = (hi \in plane) \/ ~Interior(edge, n) THEN <<>>
          ELSE push_quad(edge, at[m] \in plane, here, here, k)])

\* One slab behind the sweep: these edges lie on the plane between two slabs.
emit_xy_quads(axis, plane, below, here, n, k) ==
  LET at == PlaneOrder(IF axis = 1 THEN n[1] - 1 ELSE n[1], IF axis = 2 THEN n[2] - 1 ELSE n[2])
  IN FlattenSeq([m \in DOMAIN at |->
       LET edge == [axis |-> axis, lo |-> Append(at[m], k)]
           hi == [at[m] EXCEPT ![axis] = @ + 1]
       IN IF (at[m] \in plane) = (hi \in plane) \/ ~Interior(edge, n) THEN <<>>
          ELSE push_quad(edge, at[m] \in plane, below, here, k)])
=============================================================================
