-------------------------------- MODULE Mesh --------------------------------
(* Triangle meshes in exact coordinates: welding a soup of facets on a          *)
(* lattice, the exact predicates, what `validate` decides about a mesh, and     *)
(* what a build drops and moves before it casts a ray (mesh/mod.rs, weld.rs,    *)
(* validate.rs, predicates/mod.rs, dexel/field.rs).                             *)
(*                                                                              *)
(* A point is a triple of integers. Every coordinate of the instances is a      *)
(* whole number of units, so what the code decides with exact predicates is     *)
(* decided here by the sign of an integer; rounding is left out. A mesh is      *)
(* [vertices, triangles], a triangle three indices into the vertices, from 1.   *)
EXTENDS Integers, Sequences, FiniteSets, SequencesExt

Sign(n) == IF n > 0 THEN 1 ELSE IF n < 0 THEN -1 ELSE 0

Minus(a, b) == <<a[1] - b[1], a[2] - b[2], a[3] - b[3]>>

Cross(a, b) == <<a[2] * b[3] - a[3] * b[2], a[3] * b[1] - a[1] * b[3], a[1] * b[2] - a[2] * b[1]>>

Dot(a, b) == a[1] * b[1] + a[2] * b[2] + a[3] * b[3]

\* The orientation of three points in the plane of coordinates u and v.
orient2d(a, b, c, u, v) ==
  Sign((a[u] - c[u]) * (b[v] - c[v]) - (a[v] - c[v]) * (b[u] - c[u]))

\* The sign of det[a - d; b - d; c - d].
orient3d(a, b, c, d) == Sign(Dot(Minus(a, d), Cross(Minus(b, d), Minus(c, d))))
-----------------------------------------------------------------------------
(* TriMesh *)
\* The elements of a set in an order.
Listed(S, Before(_, _)) ==
  [n \in 1 .. Cardinality(S) |-> CHOOSE x \in S : Cardinality({y \in S : Before(y, x)}) = n - 1]

Triangles(mesh) == 1 .. Len(mesh.triangles)

corners(mesh, t) == [k \in 1 .. 3 |-> mesh.vertices[mesh.triangles[t][k]]]

face_normal(mesh, t) ==
  LET c == corners(mesh, t) IN Cross(Minus(c[2], c[1]), Minus(c[3], c[1]))

\* Six times the enclosed volume, by the divergence theorem.
signed_volume(mesh) ==
  FoldLeft(LAMBDA sum, t : LET c == corners(mesh, t) IN sum + Dot(c[1], Cross(c[2], c[3])),
           0, [t \in Triangles(mesh) |-> t])
-----------------------------------------------------------------------------
(* weld: a coordinate is rounded to the nearest lattice plane, half away from   *)
(* zero, and vertices with the same key become one vertex, numbered in          *)
(* ascending order of the keys.                                                 *)
quantise(value, lattice) ==
  IF value >= 0 THEN (2 * value + lattice) \div (2 * lattice)
                ELSE -((lattice - 2 * value) \div (2 * lattice))

Key(v, lattice) == [l \in 1 .. 3 |-> quantise(v[l], lattice)]

KeyBefore(a, b) ==
  \/ a[1] < b[1]
  \/ a[1] = b[1] /\ a[2] < b[2]
  \/ a[1] = b[1] /\ a[2] = b[2] /\ a[3] < b[3]

\* Slip: first come, first numbered: the order of the file reaches the mesh.
NumberedAsRead(mesh, lattice) ==
  LET keys == [i \in DOMAIN mesh.vertices |-> Key(mesh.vertices[i], lattice)]
      distinct == FoldLeft(LAMBDA seen, k : IF k \in {seen[i] : i \in DOMAIN seen}
                                            THEN seen ELSE Append(seen, k), <<>>, keys)
      index == [k \in {keys[i] : i \in DOMAIN keys} |-> CHOOSE n \in DOMAIN distinct : distinct[n] = k]
  IN [vertices |-> [n \in DOMAIN distinct |-> [l \in 1 .. 3 |-> distinct[n][l] * lattice]],
      triangles |-> [t \in Triangles(mesh) |->
                       [k \in 1 .. 3 |-> index[keys[mesh.triangles[t][k]]]]]]

weld(mesh, lattice) ==
  LET keys == [i \in DOMAIN mesh.vertices |-> Key(mesh.vertices[i], lattice)]
      distinct == {keys[i] : i \in DOMAIN keys}
      index == [k \in distinct |-> 1 + Cardinality({m \in distinct : KeyBefore(m, k)})]
      at == [n \in 1 .. Cardinality(distinct) |-> CHOOSE k \in distinct : index[k] = n]
  IN [vertices |-> [n \in DOMAIN at |-> [l \in 1 .. 3 |-> at[n][l] * lattice]],
      triangles |-> [t \in Triangles(mesh) |->
                       [k \in 1 .. 3 |-> index[keys[mesh.triangles[t][k]]]]]]
-----------------------------------------------------------------------------
(* validate *)
collinear_exact(a, b, c) ==
  orient2d(a, b, c, 1, 2) = 0 /\ orient2d(a, b, c, 2, 3) = 0 /\ orient2d(a, b, c, 3, 1) = 0

Degenerate(mesh, t) ==
  LET i == mesh.triangles[t]
      c == corners(mesh, t)
  IN i[1] = i[2] \/ i[2] = i[3] \/ i[3] = i[1] \/ collinear_exact(c[1], c[2], c[3])

\* Every use a triangle makes of an edge, as [of, from, to].
EdgeUses(triangles) ==
  {u \in UNION {{[of |-> t, from |-> triangles[t][k], to |-> triangles[t][(k % 3) + 1]] :
                   k \in 1 .. 3} : t \in DOMAIN triangles} : u.from # u.to}

Along(uses, u) == {w \in uses : {w.from, w.to} = {u.from, u.to}}

is_manifold(uses) == \A u \in uses : Cardinality(Along(uses, u)) = 2

is_watertight(uses) == \A u \in uses : Cardinality(Along(uses, u)) # 1

\* Only edges with two triangles are asked.
is_orientation_consistent(uses) ==
  \A u \in uses : Cardinality(Along(uses, u)) = 2 =>
                    \A w \in Along(uses, u) : w = u \/ w.from = u.to

is_solid(mesh) ==
  LET uses == EdgeUses(mesh.triangles)
  IN is_manifold(uses) /\ is_watertight(uses) /\ is_orientation_consistent(uses)
       /\ signed_volume(mesh) > 0
-----------------------------------------------------------------------------
(* What a build does to the mesh first. A placement is [by, det]: a move, after *)
(* a reflection in x when the determinant is negative; one with determinant 0   *)
(* collapses the mesh. A mirrored mesh is wound the other way.                  *)
drop_degenerate(mesh) ==
  [mesh EXCEPT !.triangles =
     LET kept == Listed({t \in Triangles(mesh) : ~Degenerate(mesh, t)}, LAMBDA a, b : a < b)
     IN [n \in DOMAIN kept |-> mesh.triangles[kept[n]]]]

transform_point(at, v) == <<at.det * v[1] + at.by[1], v[2] + at.by[2], v[3] + at.by[3]>>

\* Slip: the winding is kept when the mesh is mirrored.
PlaceKeepingWinding(mesh, at) ==
  [mesh EXCEPT !.vertices = [i \in DOMAIN @ |-> transform_point(at, @[i])]]

place(mesh, at) ==
  [vertices |-> [i \in DOMAIN mesh.vertices |-> transform_point(at, mesh.vertices[i])],
   triangles |-> IF at.det < 0
                 THEN [t \in Triangles(mesh) |->
                         LET i == mesh.triangles[t] IN <<i[1], i[3], i[2]>>]
                 ELSE mesh.triangles]
=============================================================================
