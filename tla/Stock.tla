------------------------------- MODULE Stock -------------------------------
(* Stock from a mesh file to a contoured mesh: `chipbreaker dexel build` welds a *)
(* mesh, casts a bundle of rays along each axis and writes the field;            *)
(* `chipbreaker extract` reads a field back and sweeps a surface out of it       *)
(* (dexel.rs, extract.rs; mesh/, dexel/ and contour/ in the core).               *)
(*                                                                               *)
(* A source is [kind, ...]: "mesh", a soup of facets with the options it is      *)
(* built under, or "field", a field some run has cut and written. Between the    *)
(* two commands the file may be damaged.                                         *)
EXTENDS Contour

CONSTANTS Sources,     \* what the commands are run on
          Damages,     \* [at, value], a value replaced; [keep], the rest cut off
          MaxRays      \* stands for u32::MAX rays

\* The soup names the corners of its facets, however often and each within less
\* than half the lattice of where it stands; what it stands for is on the lattice.
StandsFor(soup, facets, lattice) ==
  /\ soup.vertices \in Seq([1 .. 3 -> Int])
  /\ soup.triangles \in Seq([1 .. 3 -> DOMAIN soup.vertices])
  /\ \A t \in DOMAIN soup.triangles :
       /\ facets[t] \in [1 .. 3 -> [1 .. 3 -> Int]]
       /\ \A k, l \in 1 .. 3 :
            LET strays == soup.vertices[soup.triangles[t][k]][l] - facets[t][k][l]
            IN facets[t][k][l] % lattice = 0 /\ -lattice < 2 * strays /\ 2 * strays < lattice

ASSUME MeshesAssumption ==
  \A s \in Sources :
    s.kind = "mesh" => s.weld \in Int /\ (s.weld > 0 => StandsFor(s.soup, s.facets, s.weld))

\* A mesh is built along some axes; a field was written by this release or by one
\* that knew one spacing only.
ASSUME FieldsAssumption ==
  \A s \in Sources :
    /\ s.kind = "mesh" => s.axes \subseteq 1 .. 3 /\ s.axes # {}
    /\ s.kind = "field" =>
         /\ s.version \in 1 .. FORMAT_VERSION /\ IsTri(s.tri)
         /\ s.version < 4 =>
              \A a \in 1 .. 3 : s.tri.bundles[a] # None =>
                s.tri.bundles[a].lattice.spacing[1] = s.tri.bundles[a].lattice.spacing[2]

VARIABLES source,      \* one of Sources
          phase,       \* how far the commands are
          why,         \* of a refusal
          mesh,        \* the welded mesh
          bundles,     \* the bundles built, axis by axis
          cast,        \* the bundle being cast: [mesh, lattice, arena]
          file,        \* the field file
          damaged,
          field,       \* what was read back
          sweep,       \* the contouring sweep: [at, n, k, lower, below, by_axis, crossings]
          surface      \* the contoured mesh's triangles

vars == <<source, phase, why, mesh, bundles, cast, file, damaged, field, sweep, surface>>

Refuse(reason) == phase' = "Refused" /\ why' = reason

Init ==
  /\ source \in Sources
  /\ phase = IF source.kind = "field" THEN "Written" ELSE "Raw"
  /\ why = "None" /\ mesh = None /\ bundles = <<>> /\ cast = None
  /\ file = IF source.kind = "field" THEN write_tri(source.tri, source.version) ELSE <<>>
  /\ damaged = FALSE /\ field = None /\ sweep = None /\ surface = <<>>
-----------------------------------------------------------------------------
(* dexel build *)
Weld ==
  /\ phase = "Raw"
  /\ IF source.weld <= 0
     THEN Refuse("InvalidLattice") /\ UNCHANGED mesh
     ELSE mesh' = weld(source.soup, source.weld) /\ phase' = "Building" /\ UNCHANGED why
  /\ UNCHANGED <<source, bundles, cast, file, damaged, field, sweep, surface>>

axis == Len(bundles) + 1

Waiting == phase = "Building" /\ cast = None /\ axis <= 3

SkipAxis ==
  /\ Waiting /\ axis \notin source.axes
  /\ bundles' = Append(bundles, None)
  /\ UNCHANGED <<source, phase, why, mesh, cast, file, damaged, field, sweep, surface>>

\* The bounds are those of every vertex, the ones of dropped triangles too.
LatticeFor(placed) ==
  anisotropic(grow(Bounds(Range(placed.vertices)), source.margin), source.spacing, axis)

Begin ==
  /\ Waiting /\ axis \in source.axes
  /\ LET placed == place(drop_degenerate(mesh), source.placement)
     IN IF mesh.triangles = <<>> THEN Refuse("EmptyMesh") /\ UNCHANGED cast
        ELSE IF source.placement.det = 0 THEN Refuse("BadPlacement") /\ UNCHANGED cast
        ELSE IF \E l \in 1 .. 3 : source.spacing[l] <= 0 THEN Refuse("BadSpacing") /\ UNCHANGED cast
        ELSE IF ray_count(LatticeFor(placed)) > MaxRays THEN Refuse("TooManyRays") /\ UNCHANGED cast
        ELSE /\ cast' = [mesh |-> placed, lattice |-> LatticeFor(placed), arena |-> <<>>]
             /\ UNCHANGED <<phase, why>>
  /\ UNCHANGED <<source, mesh, bundles, file, damaged, field, sweep, surface>>

Refusal(seen) ==
  IF seen.coplanar THEN "Coplanar"
  ELSE IF Len(seen.hits) % 2 = 1 THEN "OddCrossings" ELSE "None"

\* Rays in ascending order; the last one completes the bundle.
CastRay ==
  /\ phase = "Building" /\ cast # None
  /\ \E seen \in {intersect_ray_all(cast.mesh, ray_at(cast.lattice, Len(cast.arena)))} :
       IF Refusal(seen) # "None" THEN Refuse(Refusal(seen)) /\ UNCHANGED <<bundles, cast>>
       ELSE \E arena \in {Append(cast.arena, SpansOf(cast.mesh, seen.hits))} :
              /\ IF Len(arena) = ray_count(cast.lattice)
                 THEN /\ bundles' = Append(bundles, [lattice |-> cast.lattice, arena |-> arena,
                                                     placement |-> source.placement])
                      /\ cast' = None
                 ELSE cast' = [cast EXCEPT !.arena = arena] /\ UNCHANGED bundles
              /\ UNCHANGED <<phase, why>>
  /\ UNCHANGED <<source, mesh, file, damaged, field, sweep, surface>>

Register ==
  /\ phase = "Building" /\ cast = None /\ axis = 4
  /\ IF check_registration(bundles) THEN phase' = "Built" /\ UNCHANGED why
                                    ELSE Refuse("Registration")
  /\ UNCHANGED <<source, mesh, bundles, cast, file, damaged, field, sweep, surface>>

Provenance == [source_triangles |-> Len(mesh.triangles)]

\* As built, or cut since. A single bundle is written in the single-bundle format.
Write ==
  /\ phase \in {"Built", "Cut"}
  /\ LET built == {a \in 1 .. 3 : bundles[a] # None}
     IN file' = IF Cardinality(built) > 1
                THEN write_tri([provenance |-> Provenance, bundles |-> bundles], FORMAT_VERSION)
                ELSE write(bundles[Min(built)], FORMAT_VERSION)
  /\ phase' = "Written"
  /\ UNCHANGED <<source, why, mesh, bundles, cast, damaged, field, sweep, surface>>

Damage ==
  /\ phase = "Written" /\ ~damaged /\ source.fragile
  /\ \E d \in Damages :
       IF "keep" \in DOMAIN d
       THEN d.keep < Len(file) /\ file' = SubSeq(file, 1, d.keep)
       ELSE d.at <= Len(file) /\ file[d.at] # d.value /\ file' = [file EXCEPT ![d.at] = d.value]
  /\ damaged' = TRUE
  /\ UNCHANGED <<source, phase, why, mesh, bundles, cast, field, sweep, surface>>
-----------------------------------------------------------------------------
(* extract *)
Read ==
  /\ phase = "Written"
  /\ \E kind \in {detect(file)} :
       \E read_back \in {IF kind = "Tri" THEN read_tri(file)
                         ELSE IF kind = "Single" THEN read(file, 1) ELSE Failed("NotAField")} :
         IF read_back.next = 0 THEN Refuse(read_back.got) /\ UNCHANGED field
         ELSE /\ field' = read_back.got
              /\ phase' = IF kind = "Tri" THEN "Read" ELSE "ReadSingle"
              /\ UNCHANGED why
  /\ UNCHANGED <<source, mesh, bundles, cast, file, damaged, sweep, surface>>

\* A file of one bundle is read by other commands, and refused by this one.
StartSweep ==
  /\ phase \in {"Read", "ReadSingle"}
  /\ IF phase = "ReadSingle" THEN Refuse("SingleBundle") /\ UNCHANGED sweep
     ELSE IF \E a \in 1 .. 3 : field.bundles[a] = None
     THEN Refuse("MissingBundle") /\ UNCHANGED sweep
     ELSE /\ \E at \in {WithRing(field.bundles)} :
               \E lower \in {build_plane(field.bundles, at, 1)} :
                 sweep' = [at |-> at, n |-> Corners(at), k |-> 1, lower |-> lower,
                           below |-> None, by_axis |-> <<<<>>, <<>>, <<>>>>,
                           crossings |-> PlaneCrossings(field.bundles, at, 1, lower)]
          /\ phase' = "Sweeping" /\ UNCHANGED why
  /\ UNCHANGED <<source, mesh, bundles, cast, file, damaged, field, surface>>

\* One slab: the plane above it, its crossings and cells, and the quads of the
\* edges all of whose cells the sweep now holds.
SweepSlab ==
  /\ phase = "Sweeping" /\ sweep.k < sweep.n[3]
  /\ LET k == sweep.k
         n == sweep.n
     IN \E upper \in {build_plane(field.bundles, sweep.at, k + 1)} :
        \E here \in {place_slab_vertices(sweep.lower, upper, n)} :
          sweep' =
            [sweep EXCEPT !.k = k + 1, !.lower = upper, !.below = here,
              !.crossings = PlaneCrossings(field.bundles, sweep.at, k + 1, upper)
                              \union build_z_crossings(field.bundles, sweep.at, k, sweep.lower, upper),
              !.by_axis = <<IF k = 1 THEN @[1]
                            ELSE @[1] \o emit_xy_quads(1, sweep.lower, sweep.below, here, n, k),
                            IF k = 1 THEN @[2]
                            ELSE @[2] \o emit_xy_quads(2, sweep.lower, sweep.below, here, n, k),
                            @[3] \o emit_z_quads(sweep.lower, upper, here, n, k)>>]
  /\ UNCHANGED <<source, phase, why, mesh, bundles, cast, file, damaged, field, surface>>

\* The buckets are joined: X edges, then Y, then Z.
Extracted ==
  /\ phase = "Sweeping" /\ sweep.k = sweep.n[3]
  /\ surface' = sweep.by_axis[1] \o sweep.by_axis[2] \o sweep.by_axis[3]
  /\ phase' = "Extracted"
  /\ UNCHANGED <<source, why, mesh, bundles, cast, file, damaged, field, sweep>>

Next == \/ Weld \/ SkipAxis \/ Begin \/ CastRay \/ Register \/ Write
        \/ Damage \/ Read \/ StartSweep \/ SweepSlab \/ Extracted

Spec == Init /\ [][Next]_vars
-----------------------------------------------------------------------------
(* Properties. A mesh source also says what it stands for: `facets`, the        *)
(* triangles before any jitter, and for a solid its convex `pieces`, each a set *)
(* of half-spaces <<n, d>>, the points q with n . q <= d.                       *)

\* Welding (weld.rs:49): a soup whose facets stray by less than half the lattice
\* becomes the mesh it stands for, with the vertices numbered by where they are
\* and not by the order in which the file names them.
WeldIsCanonical ==
  mesh # None =>
    /\ \A t \in Triangles(mesh) : corners(mesh, t) = source.facets[t]
    /\ \A i, j \in DOMAIN mesh.vertices : i < j => KeyBefore(mesh.vertices[i], mesh.vertices[j])

\* Sample points on a ray, in thirds of a unit, in the coordinates of the source.
Third(ray, n) == [l \in 1 .. 3 |-> 3 * ray.origin[l] + (IF l = ray.w THEN n ELSE 0)]

Unplaced(q) ==
  LET m == [l \in 1 .. 3 |-> q[l] - 3 * source.placement.by[l]]
  IN [m EXCEPT ![1] = source.placement.det * @]

StrictlyInside(q) == \E piece \in source.pieces : \A h \in piece : Dot(h[1], q) < 3 * h[2]

StrictlyOutside(q) == \A piece \in source.pieces : \E h \in piece : Dot(h[1], q) > 3 * h[2]

\* A mesh `validate` calls a solid is never refused for an odd number of
\* crossings, wherever its vertices and edges lie on a ray (bvh.rs: the perturbed
\* edge functions of two triangles that share an edge disagree about it), and the
\* three lattices of one build always agree about the corners they share. The
\* field is the solid: a point of a ray strictly inside the solid is in a span,
\* one strictly outside in none, and a span that is not a mere touch has its
\* normals facing out of it (field.rs:356-392).
FieldIsTheSolid ==
  /\ why = "OddCrossings" => ~is_solid(mesh)
  /\ why # "Registration"
  /\ phase = "Built" /\ source.pieces # {} =>
    \A a \in {x \in 1 .. 3 : bundles[x] # None} :
      LET b == bundles[a]
      IN \A r \in DOMAIN b.arena :
           LET ray == ray_at(b.lattice, r - 1)
               spans == b.arena[r]
           IN /\ \A n \in 0 .. 3 * (b.lattice.length + 2 * spacing_max(b.lattice)) :
                   LET q == Unplaced(Third(ray, n))
                       material == \E s \in DOMAIN spans : contains(spans[s], <<n, 3>>)
                   IN (StrictlyInside(q) => material) /\ (StrictlyOutside(q) => ~material)
              /\ \A s \in DOMAIN spans : Precedes(spans[s].t0, spans[s].t1) =>
                                          spans[s].n0[a] < 0 /\ spans[s].n1[a] > 0

\* A file reads back as the field that was written, normals apart in the files of
\* version 2; one that was cut short, or whose magic, version, flags, axis or counts
\* were replaced, is not read as a field; and one nobody damaged is refused only for
\* what it holds, one bundle or too few (io.rs). There is no checksum: a coordinate,
\* a placement or a normal that was replaced would be read as it stands.
WithoutNormals(spans) ==
  [n \in DOMAIN spans |-> [t0 |-> spans[n].t0, t1 |-> spans[n].t1,
                           n0 |-> PLACEHOLDER, n1 |-> PLACEHOLDER]]

Blank(bundle) ==
  IF bundle = None THEN None
  ELSE [bundle EXCEPT !.arena = [r \in DOMAIN bundle.arena |-> WithoutNormals(bundle.arena[r])]]

AsWritten ==
  IF source.kind = "mesh"
  THEN IF Cardinality(source.axes) > 1 THEN [provenance |-> Provenance, bundles |-> bundles]
       ELSE bundles[Min(source.axes)]
  ELSE IF source.version >= 3 THEN source.tri
       ELSE [source.tri EXCEPT !.bundles = [a \in 1 .. 3 |-> Blank(@[a])]]

FilesReadBack ==
  /\ field # None => ~damaged /\ field = AsWritten
  /\ phase = "Refused" /\ file # <<>> => damaged \/ why \in {"SingleBundle", "MissingBundle"}

\* Every crossing lies strictly inside its edge; its normal, where it has one and
\* the mesh is not inside out, faces the end in the air; and where the ray of the edge itself has one end in
\* and the other out as the vote does, neither of them on a bound, the crossing
\* is a bound and not the middle of the edge (contour/mod.rs:611-631).
CrossingsTurn ==
  sweep # None =>
    \A c \in sweep.crossings :
      LET e == c.edge
          bundle == field.bundles[e.axis]
          ends == <<sweep.at[e.axis][e.lo[e.axis]], sweep.at[e.axis][High(e)[e.axis]]>>
          Own(corner) == bundle_says_inside(bundle, sweep.at, corner)
          bounds == {b.t : b \in Range(Bounding(bundle, e))}
          Clear(ordinate) == \A t \in bounds : LET p == Parameter(bundle, ordinate)
                                               IN Precedes(p, t) \/ Precedes(t, p)
          agrees == /\ OnARay(bundle, e.lo)
                    /\ Own(e.lo) = c.inside_lo /\ Own(High(e)) = ~c.inside_lo
                    /\ Clear(ends[1]) /\ Clear(ends[2])
      IN /\ Precedes(<<ends[1], 1>>, c.crossing.at) /\ Precedes(c.crossing.at, <<ends[2], 1>>)
         /\ c.crossing.normal # PLACEHOLDER /\ (mesh # None => is_solid(mesh)) =>
              Sign(c.crossing.normal[e.axis]) = IF c.inside_lo THEN 1 ELSE -1
         /\ agrees => \E t \in bounds : c.crossing.at = <<t[1] + Behind(bundle) * t[2], t[2]>>

\* The directed edges of the surface, and how often one is used.
Directed(uses) == {<<u.from, u.to>> : u \in uses}

Times(uses, d) == Cardinality({u \in uses : <<u.from, u.to>> = d})

\* As often one way as the other.
Balanced(uses) ==
  \A d \in {Directed(uses)} :
    /\ \A e \in d : <<e[2], e[1]>> \in d
    /\ Cardinality(uses) # Cardinality(d) => \A e \in d : Times(uses, e) = Times(uses, <<e[2], e[1]>>)

\* The ring reaches past the stock: its cells are not so flat that the first
\* ordinate, half a cell in, is as far from the face as the ring's step.
RingClears ==
  \A l \in 1 .. 3 : \A a \in 1 .. 3 \ {l} :
    field.bundles[a].lattice.spacing[Which(a, l)] < 2 * spacing_max(field.bundles[1].lattice)

InsideCorners ==
  {c \in (1 .. sweep.n[1]) \X (1 .. sweep.n[2]) \X (1 .. sweep.n[3]) :
     classify_corner(field.bundles, sweep.at, c)}

\* Six times the volume the surface encloses, its vertices in the middle of
\* their cells: six for every corner it goes round.
Enclosed ==
  FoldLeft(LAMBDA sum, t : LET p == [k \in 1 .. 3 |-> SubSeq(t[k], 1, 3)]
                           IN sum + Dot(p[1], Cross(p[2], p[3])), 0, surface)

CornersOfCell(cell) == {[l \in 1 .. 3 |-> cell[l] + corner_offset(c)[l]] : c \in 0 .. 7}

Apart(p, q) == Cardinality({l \in 1 .. 3 : p[l] # q[l]})

\* Of two corners diagonal on a face: inside corners join them round the rest of
\* the cell, over the two corners next to them and one of the others.
JoinedRound(rest, inside, p, q) ==
  /\ {r \in rest : Apart(r, p) = 1 \/ Apart(r, q) = 1} \subseteq inside
  /\ Cardinality(rest \intersect inside) >= 3

\* Where the surface pinches, an edge used more than once each way, two cells
\* share a face with two inside corners, diagonally opposite, and each cell joins
\* those two round its other side.
PinchIsDiagonal(uses, e, inside) ==
  LET cells == {CornersOfCell(e[1]), CornersOfCell(e[2])}
      face == CornersOfCell(e[1]) \intersect CornersOfCell(e[2])
  IN /\ Times(uses, e) = 2 /\ Cardinality(face) = 4
     /\ \E p, q \in face :
          /\ face \intersect inside = {p, q} /\ Apart(p, q) = 2
          /\ \A cell \in cells : JoinedRound(cell \ face, inside, p, q)

\* As long as the ring clears the stock, the surface is closed, and what it
\* encloses, facing out, are the inside corners, whatever the three bundles say
\* and however often they disagree (contour/mod.rs:575-577: a hole is the one
\* outcome extraction may not produce). No quad is missing, turned round or
\* emitted twice. Except for pinches across a diagonal it is a manifold: the
\* split into components (contour/mod.rs:708-737) leaves no other way to fail.
SurfaceIsClosed ==
  phase = "Extracted" /\ RingClears =>
    \A uses \in {EdgeUses(surface)} : \A d \in {Directed(uses)} : \A inside \in {InsideCorners} :
      /\ Balanced(uses)
      /\ Enclosed = 6 * Cardinality(inside)
      /\ Cardinality(uses) # Cardinality(d) =>
           \A e \in d : Times(uses, e) > 1 => PinchIsDiagonal(uses, e, inside)
=============================================================================
