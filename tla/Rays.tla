-------------------------------- MODULE Rays --------------------------------
(* Casting an axis-parallel line through a mesh (mesh/bvh.rs): the three edge    *)
(* functions of a triangle with their ties broken by Simulation of Simplicity,   *)
(* the bounding-volume hierarchy that decides which triangles are asked, and     *)
(* the crossings in the order the field pairs them.                              *)
(*                                                                               *)
(* A ray is [origin, w]: it runs along world axis w, at unit speed. A ray        *)
(* parameter is a fraction <<num, den>> with den > 0, never rounded. The float   *)
(* filter in front of the exact predicates has nothing to do here.               *)
EXTENDS Mesh

CONSTANT LEAF_SIZE    \* the most triangles a leaf holds

ASSUME LeafAssumption == LEAF_SIZE \in Nat \ {0}

Precedes(s, t) == s[1] * t[2] < t[1] * s[2]

AtOrBefore(s, t) == s[1] * t[2] <= t[1] * s[2]

direction(w) == [l \in 1 .. 3 |-> IF l = w THEN 1 ELSE 0]

\* The second point on the ray that every predicate is given.
PointTwo(ray) == [ray.origin EXCEPT ![ray.w] = @ + 1]
-----------------------------------------------------------------------------
(* Simulation of Simplicity: the lower-numbered vertex carries the larger       *)
(* perturbation, and within a vertex x before y before z. A line that is the    *)
(* edge itself is decided by the order of the two numbers.                      *)
FirstNonZero(a, b) == IF a # 0 THEN a ELSE b

perturbation_coefficient(o, p, v) ==
  <<orient2d(o, p, v, 2, 3), orient2d(o, p, v, 3, 1), orient2d(o, p, v, 1, 2)>>

Leading(c) == FirstNonZero(c[1], FirstNonZero(c[2], c[3]))

\* Slip: a line that meets an edge is on its left.
SosTieLeft(o, p, vi, i, vj, j) == FirstNonZero(orient3d(o, p, vi, vj), 1)

sos_edge_function(o, p, vi, i, vj, j) ==
  LET of_i == Leading(perturbation_coefficient(o, p, vj))
      of_j == -Leading(perturbation_coefficient(o, p, vi))
  IN FirstNonZero(orient3d(o, p, vi, vj),
       IF i < j THEN FirstNonZero(of_i, FirstNonZero(of_j, 1))
                ELSE FirstNonZero(of_j, FirstNonZero(of_i, -1)))

\* A hit whose sign is positive enters the solid.
classify(ray, c, i) ==
  LET o == ray.origin
      p == PointTwo(ray)
      next == <<2, 3, 1>>
      signs == [k \in 1 .. 3 |-> sos_edge_function(o, p, c[k], i[k], c[next[k]], i[next[k]])]
  IN IF \A k \in 1 .. 3 : orient3d(o, p, c[k], c[next[k]]) = 0 THEN "Coplanar"
     ELSE IF \A k \in 1 .. 3 : signs[k] = signs[1]
          THEN IF signs[1] = 1 THEN "Entering" ELSE "Leaving"
          ELSE "Miss"

plane_parameter(ray, c) ==
  LET n == Cross(Minus(c[2], c[1]), Minus(c[3], c[1]))
      num == Dot(Minus(c[1], ray.origin), n)
  IN IF n[ray.w] > 0 THEN <<num, n[ray.w]>> ELSE <<-num, -n[ray.w]>>
-----------------------------------------------------------------------------
(* The hierarchy: a range of triangles is split at the median of its centroids  *)
(* along the longest axis of its bounds, the lower axis and the lower triangle  *)
(* first in a tie, and a subtree is walked when the ray meets its bounds.       *)
Bounds(points) ==
  [min |-> [l \in 1 .. 3 |-> Min({p[l] : p \in points})],
   max |-> [l \in 1 .. 3 |-> Max({p[l] : p \in points})]]

longest_axis(b) ==
  LET e == [l \in 1 .. 3 |-> b.max[l] - b.min[l]]
  IN Min({l \in 1 .. 3 : \A k \in 1 .. 3 : e[k] <= e[l]})

\* An axis-parallel line meets a box when it is inside it across the line.
slab_test(b, ray) ==
  \A l \in 1 .. 3 \ {ray.w} : b.min[l] <= ray.origin[l] /\ ray.origin[l] <= b.max[l]

CornersOf(mesh, range) == UNION {Range(corners(mesh, range[n])) : n \in DOMAIN range}

\* Three times the centroid, along one axis.
Centroid(mesh, t, l) == LET c == corners(mesh, t) IN c[1][l] + c[2][l] + c[3][l]

\* The triangles in the leaves the ray reaches.
Reached(mesh, ray) ==
  LET Walk[range \in Seq(Triangles(mesh))] ==
        LET bounds == Bounds(CornersOf(mesh, range))
            axis == longest_axis(bounds)
            order == SortSeq(range, LAMBDA a, b :
                       \/ Centroid(mesh, a, axis) < Centroid(mesh, b, axis)
                       \/ Centroid(mesh, a, axis) = Centroid(mesh, b, axis) /\ a < b)
            mid == Len(range) \div 2
        IN IF ~slab_test(bounds, ray) THEN {}
           ELSE IF Len(range) <= LEAF_SIZE THEN Range(range)
           ELSE Walk[SubSeq(order, 1, mid)] \union Walk[SubSeq(order, mid + 1, Len(range))]
  IN IF mesh.triangles = <<>> THEN {} ELSE Walk[[t \in Triangles(mesh) |-> t]]

intersect_ray_all(mesh, ray) ==
  LET test == [t \in Reached(mesh, ray) |->
                 classify(ray, corners(mesh, t), mesh.triangles[t])]
      hit == {t \in Triangles(mesh) : t \in DOMAIN test /\ test[t] \in {"Entering", "Leaving"}}
      at == [t \in hit |-> plane_parameter(ray, corners(mesh, t))]
      order == Listed(hit, LAMBDA a, b : \/ Precedes(at[a], at[b])
                                         \/ ~Precedes(at[b], at[a]) /\ a < b)
  IN [coplanar |-> \E t \in DOMAIN test : test[t] = "Coplanar",
      hits |-> [n \in DOMAIN order |-> [t |-> at[order[n]], triangle |-> order[n],
                                        entering |-> test[order[n]] = "Entering"]]]
=============================================================================
