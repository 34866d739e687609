----------------------------- MODULE MCMilling -----------------------------
(* Instances of Milling: meshes and fields without tools; tools of every    *)
(* form, tessellated; libraries edited by hand; and motions of every case        *)
(* through a box, on rays that meet the tools at whole numbers.                  *)
EXTENDS Milling
-----------------------------------------------------------------------------
(* Meshes that put vertices, edges and faces on the rays, broken meshes, and cut   *)
(* fields whose bundles agree or do not.                                           *)
\* Meshes are given by their facets, three points each.
Soup(facets) ==
  [vertices |-> FlattenSeq(facets),
   triangles |-> [t \in DOMAIN facets |-> <<3 * t - 2, 3 * t - 1, 3 * t>>]]

\* Every second corner of the soup strays by one unit, a quarter of the lattice.
Jittered(facets) ==
  [t \in DOMAIN facets |-> [k \in 1 .. 3 |->
     IF (t + k) % 2 = 0 THEN <<facets[t][k][1] + 1, facets[t][k][2] - 1, facets[t][k][3]>>
                        ELSE facets[t][k]]]

\* A set of points in the order of their coordinates.
InOrder(points) ==
  LET rank == [p \in points |-> 1 + Cardinality({q \in points : KeyBefore(q, p)})]
  IN [n \in 1 .. Cardinality(points) |-> CHOOSE p \in points : rank[p] = n]

Here == [by |-> <<0, 0, 0>>, det |-> 1]

MeshSource(facets, pieces, spacing) ==
  [kind |-> "mesh", soup |-> Soup(facets), facets |-> facets, pieces |-> pieces, weld |-> 4,
   spacing |-> spacing, margin |-> 0, placement |-> Here, axes |-> {1, 2, 3}, fragile |-> FALSE]
-----------------------------------------------------------------------------
(* Tetrahedra with their corners on a 3 x 3 x 2 grid: with one ray through the   *)
(* middle along each axis, it meets corners, edges and faces.                    *)
Outward(x, y, z, away) ==
  IF Dot(Cross(Minus(y, x), Minus(z, x)), Minus(away, x)) < 0 THEN <<x, y, z>> ELSE <<x, z, y>>

HalfSpace(f) == LET n == Cross(Minus(f[2], f[1]), Minus(f[3], f[1])) IN <<n, Dot(n, f[1])>>

TetraFacets(s) ==
  LET p == InOrder(s)
  IN <<Outward(p[4], p[2], p[3], p[1]), Outward(p[1], p[3], p[4], p[2]),
       Outward(p[1], p[2], p[4], p[3]), Outward(p[1], p[2], p[3], p[4])>>

Solid(facets, spacing) == MeshSource(facets, {{HalfSpace(f) : f \in Range(facets)}}, spacing)

Flat(s) == \E d \in s : \E a, b, c \in s \ {d} : Cardinality({a, b, c}) = 3 /\ orient3d(a, b, c, d) = 0

TetraPoints == {0, 4, 8} \X {0, 4, 8} \X {0, 8}

Tetrahedra ==
  {Solid(TetraFacets(s), <<8, 8, 8>>) :
     s \in {x \in {{<<0, 0, 0>>, <<8, 8, 8>>, p, q} : p, q \in TetraPoints} :
              Cardinality(x) = 4 /\ ~Flat(x)}}
-----------------------------------------------------------------------------
(* Solids made of cubes.                                                         *)
Shift(p, l, by) == [p EXCEPT ![l] = @ + by]

Side(cell, l, up) ==
  LET c == cyclic(l)
      p == IF up THEN Shift(cell, l, 4) ELSE cell
      u == Shift(p, c[1], 4)
      v == Shift(p, c[2], 4)
      uv == Shift(u, c[2], 4)
  IN IF up THEN <<<<p, u, uv>>, <<p, uv, v>>>> ELSE <<<<p, uv, u>>, <<p, v, uv>>>>

CubeFacets(cells) ==
  LET order == InOrder(cells)
      Exposed(cell, l, up) == IF Shift(cell, l, IF up THEN 4 ELSE -4) \in cells THEN <<>>
                              ELSE Side(cell, l, up)
  IN FlattenSeq([n \in DOMAIN order |->
       FlattenSeq([l \in 1 .. 3 |-> Exposed(order[n], l, FALSE) \o Exposed(order[n], l, TRUE)])])

CubePiece(cell) ==
  {<<Shift(<<0, 0, 0>>, l, 1), cell[l] + 4>> : l \in 1 .. 3}
    \union {<<Shift(<<0, 0, 0>>, l, -1), -cell[l]>> : l \in 1 .. 3}

Cubes(cells, spacing) == MeshSource(CubeFacets(cells), {CubePiece(c) : c \in cells}, spacing)

CubeSolids ==
  {Cubes(cells, h) : cells \in SUBSET ({0, 4} \X {0, 4} \X {0}) \ {{}}, h \in {<<4, 4, 4>>, <<8, 4, 4>>}}

Hollow == Cubes(({0, 4, 8} \X {0, 4, 8} \X {0, 4, 8}) \ {<<4, 4, 4>>}, <<4, 4, 4>>)
-----------------------------------------------------------------------------
(* One tetrahedron, mistreated. *)
Corner == TetraFacets({<<0, 0, 0>>, <<8, 0, 0>>, <<0, 8, 0>>, <<0, 0, 8>>})

Good == Solid(Corner, <<4, 4, 4>>)

\* One edge split on one side only, the gap closed by a sliver.
Sliver ==
  LET f == Corner[1]
      m == [i \in 1 .. 3 |-> (f[1][i] + f[2][i]) \div 2]
  IN <<<<f[1], m, f[3]>>, <<m, f[2], f[3]>>, Corner[2], Corner[3], Corner[4], <<f[1], f[2], m>>>>

Turned(facets) == [t \in DOMAIN facets |-> <<facets[t][1], facets[t][3], facets[t][2]>>]

Mistreated ==
  {[Good EXCEPT !.soup = Soup(Jittered(Corner)), !.fragile = TRUE],
   [Good EXCEPT !.soup = Soup(Jittered(Reverse(Corner))), !.facets = Reverse(Corner)],
   [Good EXCEPT !.soup = Soup(Sliver), !.facets = Sliver],
   [Good EXCEPT !.soup = Soup(Sliver), !.facets = Sliver, !.spacing = <<8, 8, 8>>],
   [Good EXCEPT !.placement = [by |-> <<4, -8, 0>>, det |-> -1]],
   [Good EXCEPT !.margin = 4],
   [Good EXCEPT !.axes = {3}], [Good EXCEPT !.axes = {1, 3}],
   [Good EXCEPT !.soup = Soup(Tail(Corner)), !.facets = Tail(Corner), !.pieces = {}],
   [Good EXCEPT !.soup = Soup(Turned(Corner)), !.facets = Turned(Corner), !.pieces = {}],
   [Good EXCEPT !.soup = Soup(<<>>), !.facets = <<>>, !.pieces = {}],
   [Good EXCEPT !.weld = 0], [Good EXCEPT !.spacing = <<4, 0, 4>>],
   [Good EXCEPT !.spacing = <<2, 2, 2>>],
   [Good EXCEPT !.placement = [by |-> <<0, 0, 0>>, det |-> 0], !.pieces = {}]}
-----------------------------------------------------------------------------
(* Cut fields. `says[a]` is the set of ray positions bundle a calls material, on  *)
(* a grid of n positions h apart.                                                *)
Bundle(a, n, h, says) ==
  LET c == cyclic(a)
      lattice == [axis |-> a, origin |-> <<0, 0, 0>>, spacing |-> <<h[c[1]], h[c[2]]>>,
                  counts |-> <<n[c[1]], n[c[2]]>>,
                  extent |-> <<n[c[1]] * h[c[1]], n[c[2]] * h[c[2]]>>, length |-> n[a] * h[a]]
      Position(ray, k) ==
        LET at == coords(lattice, ray)
        IN [l \in 1 .. 3 |-> IF l = c[1] THEN at[1] + 1 ELSE IF l = c[2] THEN at[2] + 1 ELSE k]
      In(ray, k) == k \in 1 .. n[a] /\ Position(ray, k) \in says
      T(k) == <<k * h[a] + spacing_max(lattice), 1>>
      Spans(ray) ==
        LET from == SelectSeq([k \in 1 .. n[a] |-> k], LAMBDA k : In(ray, k) /\ ~In(ray, k - 1))
            to == SelectSeq([k \in 1 .. n[a] |-> k], LAMBDA k : In(ray, k) /\ ~In(ray, k + 1))
        IN [m \in DOMAIN from |-> [t0 |-> T(from[m] - 1), t1 |-> T(to[m]),
                                   n0 |-> Shift(<<0, 0, 0>>, a, -1), n1 |-> direction(a)]]
  IN [lattice |-> lattice, arena |-> [r \in 1 .. ray_count(lattice) |-> Spans(r - 1)],
      placement |-> Here]

FieldSource(bundle, version) ==
  [kind |-> "field", version |-> version, fragile |-> FALSE, placement |-> Here,
   tri |-> [provenance |-> [source_triangles |-> 12], bundles |-> bundle]]

Positions(n) == (1 .. n[1]) \X (1 .. n[2]) \X (1 .. n[3])

Agreeing(n, h, says, version) == FieldSource([a \in 1 .. 3 |-> Bundle(a, n, h, says)], version)

\* Every pattern of corners on a grid, the three bundles agreeing.
Patterns(n, h, version) == {Agreeing(n, h, says, version) : says \in SUBSET Positions(n)}

\* Every vote of three bundles, each for itself.
Disagreeing(n, h) ==
  {FieldSource([a \in 1 .. 3 |-> Bundle(a, n, h, says[a])], 4) :
     says \in [1 .. 3 -> SUBSET Positions(n)]}

\* One Z ray of two positions, any unions of half cells on it: bounds on corners,
\* two bounds on an edge. The other bundles have one vote a corner.
HalfCells ==
  LET n == <<1, 1, 2>>
      h == <<2, 2, 2>>
      z(halves) ==
        LET from == SelectSeq([k \in 1 .. 4 |-> k], LAMBDA k : k \in halves /\ k - 1 \notin halves)
            to == SelectSeq([k \in 1 .. 4 |-> k], LAMBDA k : k \in halves /\ k + 1 \notin halves)
        IN [Bundle(3, n, h, {}) EXCEPT !.arena =
              <<[m \in DOMAIN from |-> [t0 |-> <<from[m] + 1, 1>>, t1 |-> <<to[m] + 2, 1>>,
                                        n0 |-> <<0, 0, -1>>, n1 |-> <<0, 0, 1>>]]>>]
  IN {FieldSource(<<Bundle(1, n, h, x), Bundle(2, n, h, y), z(halves)>>, 4) :
        x \in SUBSET Positions(n), y \in SUBSET Positions(n), halves \in SUBSET (1 .. 4)}

OldFiles == Patterns(<<1, 1, 2>>, <<2, 2, 2>>, 2) \union Patterns(<<1, 1, 2>>, <<2, 2, 2>>, 3)

\* The larger X cell, as far as the ring still clears it, and further.
Stretched == Patterns(<<2, 1, 2>>, <<6, 2, 4>>, 4) \union Patterns(<<2, 1, 2>>, <<2, 4, 6>>, 4)
Overstretched == Patterns(<<2, 1, 1>>, <<4, 2, 2>>, 4) \union Patterns(<<1, 1, 1>>, <<8, 2, 4>>, 4)

\* Patterns on a grid large enough for a face whose cells both go round it.
SparseGrid ==
  {Agreeing(<<2, 2, 3>>, <<2, 2, 2>>, says, 4) :
     says \in UNION {kSubset(k, Positions(<<2, 2, 3>>)) : k \in 0 .. 5}}

MCSources ==
  Tetrahedra \union CubeSolids \union {Hollow} \union Mistreated
    \union SparseGrid \union Disagreeing(<<1, 1, 3>>, <<2, 2, 2>>)
    \union HalfCells \union OldFiles \union Stretched \union Overstretched

\* Cut short anywhere, or one value of the header replaced.
MCDamages ==
  {[keep |-> n] : n \in 0 .. 120}
    \union {[at |-> a, value |-> v] : a \in {2, 6}, v \in {0, 5}}
    \union {[at |-> 1, value |-> None], [at |-> 4, value |-> 2],
            [at |-> 5, value |-> None], [at |-> 7, value |-> 3],
            [at |-> 16, value |-> 3], [at |-> 17, value |-> 0]}
-----------------------------------------------------------------------------
NoTools == [tools |-> <<>>, edits |-> {}, motions |-> <<>>, override |-> None,
            method |-> [analytic |-> TRUE, tolerance |-> 6, steps |-> 1], tolerance |-> "none"]

Untooled == {s @@ NoTools : s \in MCSources}
-----------------------------------------------------------------------------
(* Tools *)
Shank(diameter, overall) == [diameter |-> diameter, overall |-> overall, holder |-> <<>>]

Plain == Shank(20, 48)

FlatMill == [form |-> "flat", diameter |-> 20, flute |-> 24, shank |-> Plain]
Necked == [FlatMill EXCEPT !.shank = Shank(12, 48)]
Slim == [FlatMill EXCEPT !.diameter = 10, !.shank = Shank(10, 48)]
BallMill == [form |-> "ball", diameter |-> 20, flute |-> 24, shank |-> Plain]
BullMill == [form |-> "bull", diameter |-> 20, corner |-> 2, flute |-> 24, shank |-> Plain]
Chamfer == [form |-> "chamfer", diameter |-> 20, tip |-> 4, slope |-> 1, flute |-> 24, shank |-> Plain]
Drill == [form |-> "drill", diameter |-> 20, slope |-> 1, flute |-> 24, shank |-> Plain]
Tapered == [form |-> "tapered", tip |-> 4, slope |-> 1, flute |-> 8, shank |-> Plain]
Barrel == [form |-> "barrel", diameter |-> 20, barrel |-> 25, flute |-> 24, shank |-> Plain]
Alone == [form |-> "holder", shank |-> Shank(0, 0)]

Gripped(drawing) ==
  [drawing EXCEPT !.shank.holder = <<[bottom |-> 24, top |-> 24, length |-> 6],
                                     [bottom |-> 30, top |-> 20, length |-> 4]>>]

Path(points) ==
  [n \in 1 .. Len(points) - 1 |-> [kind |-> "segment", start |-> points[n], end |-> points[n + 1], role |-> 0]]

\* A pilot inside a ring.
HoleSaw == [form |-> "form", shank |-> Plain,
            cutting |-> Path(<<<<0, 0>>, <<2, 0>>, <<2, 10>>, <<6, 10>>, <<6, 0>>, <<10, 0>>, <<10, 24>>>>),
            pieces |-> {[in |-> 0, out |-> 2, from |-> 0, to |-> 48],
                        [in |-> 6, out |-> 10, from |-> 0, to |-> 48],
                        [in |-> 0, out |-> 10, from |-> 10, to |-> 48]}]

Forms == {FlatMill, Necked, BallMill, BullMill, Chamfer, Drill, Tapered, Barrel, HoleSaw}

Tool(drawing, number) ==
  [drawing |-> drawing, id |-> [name |-> <<"T", number>>, padded |-> FALSE, printable |-> TRUE],
   number |-> number, gauge |-> 60, description |-> "a tool"]

ToolSource(tools, tolerance) ==
  [kind |-> "tools", tools |-> tools, tolerance |-> tolerance, fragile |-> FALSE] @@ NoTools

Tessellated ==
  {ToolSource(<<Tool(d, 1)>>, t) : d \in Forms \union {Gripped(d) : d \in Forms} \union {Gripped(Alone)},
                                   t \in {"coarse", "fine", "none"}}
-----------------------------------------------------------------------------
(* Drawings that are refused, and libraries edited by hand. *)
Refused ==
  {[FlatMill EXCEPT !.diameter = 0], [FlatMill EXCEPT !.flute = 0], [BallMill EXCEPT !.flute = 8],
   [BullMill EXCEPT !.corner = 12], [BullMill EXCEPT !.corner = -2], [Chamfer EXCEPT !.tip = 22],
   [Chamfer EXCEPT !.slope = 0], [Chamfer EXCEPT !.flute = 6], [Tapered EXCEPT !.tip = -2],
   [Drill EXCEPT !.flute = 8], [Barrel EXCEPT !.barrel = 8], [Barrel EXCEPT !.flute = 18],
   [FlatMill EXCEPT !.shank = Shank(0, 48)], [FlatMill EXCEPT !.shank = Shank(20, 20)],
   Alone, [Gripped(FlatMill) EXCEPT !.shank.holder[1].bottom = 18],
   [Gripped(FlatMill) EXCEPT !.shank.holder[2].length = 0]}
    \union {[HoleSaw EXCEPT !.cutting = c] :
              c \in {<<>>, Path(<<<<2, 0>>, <<10, 24>>>>), Path(<<<<0, 0>>, <<10, 0>>, <<10, -4>>, <<12, 24>>>>),
                     Path(<<<<0, 0>>, <<-4, 4>>, <<10, 24>>>>), <<HoleSaw.cutting[1], HoleSaw.cutting[3]>>,
                     Path(<<<<0, 0>>, <<10, 0>>, <<10, 12>>, <<4, 12>>, <<4, 8>>, <<14, 8>>, <<14, 24>>>>)}}

RefusedTools ==
  {<<Tool(d, 1)>> : d \in Refused}
    \union {<<[Tool(FlatMill, 1) EXCEPT !.id = i]>> :
              i \in {[name |-> <<>>, padded |-> FALSE, printable |-> TRUE],
                     [name |-> <<"T", 1>>, padded |-> TRUE, printable |-> TRUE],
                     [name |-> <<"T", 1>>, padded |-> FALSE, printable |-> FALSE]}}
    \union {<<[Tool(FlatMill, 1) EXCEPT !.gauge = 40]>>, <<Tool(FlatMill, 1), Tool(BallMill, 1)>>,
            <<Tool(FlatMill, 1), [Tool(BallMill, 2) EXCEPT !.id = Tool(FlatMill, 1).id]>>}

At(tool, element, name, values) ==
  {<<tool, element, name, v>> : v \in values}

\* Of a library of two tools, the first a ball mill whose arc is element 1.
Edits ==
  UNION {At(0, 0, "schema", {None, "other"}), At(0, 0, "version", {None, 1}), At(0, 0, "tools", {None}),
         At(0, 0, "comment", {"mine"}), At(1, 0, "comment", {"mine"}), At(1, 1, "comment", {"mine"}),
         At(1, 0, "id", {None, Tool(FlatMill, 2).id, [name |-> <<>>, padded |-> FALSE, printable |-> TRUE]}),
         At(1, 0, "number", {None, 2, 3, 9}), At(1, 0, "description", {None, "other"}),
         At(1, 0, "gauge_length", {None, 20, 48}), At(1, 0, "profile", {None, <<>>}),
         At(1, 1, "kind", {None, "segment", "spline"}), At(1, 2, "kind", {"arc"}),
         At(1, 1, "role", {None, "holder", "brush"}), At(1, 2, "role", {"holder"}),
         At(1, 3, "role", {"holder"}), At(1, 1, "direction", {None, "cw", "up"}),
         At(1, 2, "direction", {"cw"}),
         At(1, 1, "center", {None, <<0, 9>>, <<0, 10, 0>>, <<None, 10>>}),
         At(1, 1, "start", {None, <<2, 0>>}), At(1, 1, "end", {<<0, 0>>}),
         At(1, 2, "end", {None, <<8, 24>>}), At(1, 3, "end", {<<10, 40>>, <<14, 48>>, <<10, 8>>})}

Edited == [ToolSource(<<Tool(BallMill, 1), Tool(FlatMill, 2)>>, "coarse") EXCEPT !.edits = Edits]
-----------------------------------------------------------------------------
(* Cuts. A box of three rays by three by two. *)
Box(size) ==
  LET P(x, y, z) == <<x * size[1], y * size[2], z * size[3]>>
      Quad(a, b, c, d) == <<<<a, b, c>>, <<a, c, d>>>>
  IN [facets |-> Quad(P(0,0,0), P(0,1,0), P(1,1,0), P(1,0,0)) \o Quad(P(0,0,1), P(1,0,1), P(1,1,1), P(0,1,1))
              \o Quad(P(0,0,0), P(0,0,1), P(0,1,1), P(0,1,0)) \o Quad(P(1,0,0), P(1,1,0), P(1,1,1), P(1,0,1))
              \o Quad(P(0,0,0), P(1,0,0), P(1,0,1), P(0,0,1)) \o Quad(P(0,1,0), P(0,1,1), P(1,1,1), P(1,1,0)),
      piece |-> {<<Shift(<<0, 0, 0>>, l, 1), size[l]>> : l \in 1 .. 3}
                  \union {<<Shift(<<0, 0, 0>>, l, -1), 0>> : l \in 1 .. 3}]

Stock3 == LET box == Box(<<24, 24, 16>>) IN MeshSource(box.facets, {box.piece}, <<8, 8, 8>>)

Line(tool, start, end) == [kind |-> "linear", tool |-> tool, start |-> start, end |-> end]

Arc(tool, r, from, turns, rise, plane, center) ==
  [kind |-> "arc", tool |-> tool, radius |-> r, from |-> from, turns |-> turns, rise |-> rise,
   plane |-> plane, center |-> center, z |-> center[plane]]

Milled(tools, motions, axes) ==
  [tools |-> tools, motions |-> motions] @@ [Stock3 EXCEPT !.axes = axes] @@ NoTools

Level == {Line(1, <<12, 12, 8>>, <<12, 12, 8>>), Line(1, <<4, 12, 8>>, <<20, 12, 8>>),
          Line(1, <<20, 12, 0>>, <<4, 12, 0>>), Line(1, <<12, -12, 8>>, <<12, 12, 8>>),
          Line(1, <<4, 20, -8>>, <<4, 4, -8>>)}

Plunges == {Line(1, <<12, 12, 16>>, <<12, 12, 0>>), Line(1, <<12, 12, -8>>, <<12, 12, 16>>)}

Ramps == {Line(1, <<4, 12, 16>>, <<20, 12, 0>>)}

\* Stepped in quarters, of which every tip is on the rays.
Curved == {Arc(1, 8, 0, 2, -16, 3, <<12, 12, 16>>), Arc(1, 8, 1, -2, -16, 3, <<12, 12, 16>>),
           Arc(1, 8, 0, 1, 0, 2, <<12, 12, 8>>), Arc(1, 8, 1, -2, 0, 1, <<12, 12, 8>>)}

Stepped(steps) == [NoTools.method EXCEPT !.analytic = FALSE, !.steps = steps]

\* A pocket, its tools changed.
Pocket == <<Line(1, <<12, 12, 16>>, <<12, 12, 8>>), Line(2, <<12, 12, 8>>, <<20, 12, 8>>),
            Line(2, <<20, 12, 8>>, <<20, 12, 16>>)>>

Two == <<Tool(FlatMill, 1), Tool(BallMill, 2)>>

ToolSources == Tessellated \union {ToolSource(t, "coarse") : t \in RefusedTools} \union {Edited}

All == {1, 2, 3}

CutSources ==
  {Milled(<<Tool(d, 1)>>, <<m>>, All) :
     d \in {FlatMill, BallMill, BullMill, Chamfer, Drill}, m \in Level \union Ramps}
    \union {Milled(<<Tool(d, 1)>>, <<m>>, {1, 3}) :
              d \in {FlatMill, Necked, BallMill, BullMill, HoleSaw}, m \in Plunges}
    \union {Milled(<<Tool(Slim, 1)>>, <<Arc(1, r, f, t, 0, 3, <<12, 12, 8>>)>>, All) :
              r \in {3, 12}, f \in {0, 1}, t \in {1, 2, 3, 4, 8, -1, -3}}
    \union {Milled(<<Tool(d, 1)>>, <<m>>, All) : d \in {FlatMill, BallMill}, m \in Curved}
    \union {[Milled(<<Tool(d, 1)>>, <<m>>, All) EXCEPT !.method = Stepped(n)] :
              d \in {BallMill, BullMill}, m \in {l \in Level : l.start[2] > 0}, n \in {0, 1, 2}}
    \union {Milled(t, Pocket, {1, 3}) : t \in {Two, SubSeq(Two, 1, 1)}}
    \union {[Milled(Two, Pocket, {1, 3}) EXCEPT !.override = id] :
              id \in {Two[1].id, Two[2].id, [Two[1].id EXCEPT !.name = <<"T", 9>>]}}

MCMillSources == Untooled \union ToolSources \union CutSources

\* The plunge of a tool with a flat tip, seen by rays across it as well.
PlungeSources == {Milled(<<Tool(FlatMill, 1)>>, <<Line(1, <<12, 12, 16>>, <<12, 12, 0>>)>>, All)}
=============================================================================
