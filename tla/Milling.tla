------------------------------ MODULE Milling ------------------------------
(* Stock and the tools that cut it: a library is drawn, written, edited by hand  *)
(* and read back (tool/), a tool is tessellated, and `chipbreaker run` sweeps    *)
(* the tools through a built field before it is written (run.rs, sweep/).        *)
(*                                                                               *)
(* A source of Stock also has `tools`, each [drawing, id, number, gauge,         *)
(* description], the `edits` one of which may be made to the library, the        *)
(* `motions`, each with the number of its tool, the `override` of `--tool`, the  *)
(* `method` and the `tolerance` of a tessellation; one of kind "tools" has no    *)
(* mesh. The field goes from the build to the cut without its file.              *)
EXTENDS Stock, Catalog, Sweep

\* A field comes without tools: it was cut before it was written.
ASSUME KindsAssumption ==
  \A s \in Sources : s.kind \in {"mesh", "field", "tools"} /\ (s.kind = "field" => s.tools = <<>>)

\* What an edit may put where the file has an array: an array, its objects, or None.
EditIsTyped(e) ==
  e[4] # None => /\ e[1] = 0 /\ e[3] = "tools" => AreTools(e[4])
                 /\ e[1] # 0 /\ e[2] = 0 /\ e[3] = "profile" => AreObjects(e[4])

Drawn(tool) ==
  [id |-> tool.id, number |-> tool.number, gauge |-> tool.gauge, description |-> tool.description,
   profile |-> DrawnElements(tool.drawing)]

\* The library drawn of a source.
DrawnBy(s) == [n \in DOMAIN s.tools |-> Drawn(s.tools[n])]

ASSUME ToolsAssumption ==
  \A s \in Sources :
    /\ IsArray(s.tools)
    /\ \A n \in DOMAIN s.tools : /\ IsDrawing(s.tools[n].drawing)
                                /\ s.tools[n].number \in Int /\ s.tools[n].number <= MaxNumber
                                /\ s.tools[n].gauge \in Int
    /\ \A e \in s.edits : EditIsTyped(e)

\* What is cut is cut by a tool: along a line from tip to tip, or along an arc over
\* whole quarters.
ASSUME MotionsAssumption ==
  \A s \in Sources :
    /\ IsArray(s.motions) /\ (s.tools = <<>> => s.motions = <<>>)
    /\ s.method.steps \in Int /\ s.method.tolerance \in Nat \ {0}
    /\ \A n \in DOMAIN s.motions :
         LET m == s.motions[n]
         IN IF m.kind = "arc" THEN m.turns \in Int
            ELSE m.start \in [1 .. 3 -> Int] /\ m.end \in [1 .. 3 -> Int]

\* None is a value of no type a reader asks for.
Words == Range(RoleNames) \union {"segment", "arc", "ccw", "cw", TOOL_FILE_SCHEMA}

ASSUME NoneAssumption ==
  /\ None \notin Int /\ None \notin Int \X Int /\ None \notin Words
  /\ \A s \in Sources :
       LET tools == library_to_json(DrawnBy(s)).tools
       IN tools # None /\ \A n \in DOMAIN tools : tools[n].id # None /\ tools[n].profile # None

VARIABLES tooling,     \* how far the library is
          document,    \* the library file
          library,     \* the tools read from it
          toolmesh,    \* a tool, tessellated
          done         \* motions cut

tool_vars == <<tooling, document, library, toolmesh, done>>

all_vars == <<vars, tool_vars>>

StockSame == UNCHANGED <<source, mesh, bundles, cast, file, damaged, field, sweep, surface>>

MillInit ==
  /\ Init
  /\ tooling = IF source.tools = <<>> THEN "Tooled" ELSE "Drawing"
  /\ document = None /\ library = <<>> /\ toolmesh = None /\ done = 0
-----------------------------------------------------------------------------
(* The library *)
\* Its profile, its name, its length.
DrawFault(tool) ==
  OrElse(drawing_fault(tool.drawing),
    OrElse(IF id_fault(tool.id) # "None" THEN "BadId" ELSE "None",
           gauge_fault(DrawnElements(tool.drawing), tool.gauge)))

\* A library of sound tools, two of which may share a name or a number.
DrawnOr(fault, drawn) ==
  IF fault = "None"
  THEN document' = library_to_json(drawn) /\ tooling' = "Filed" /\ UNCHANGED <<phase, why>>
  ELSE Refuse(fault) /\ tooling' = "Refused" /\ UNCHANGED document

Draw ==
  /\ tooling = "Drawing"
  /\ LET drawn == DrawnBy(source)
     IN DrawnOr(OrElse(FirstFault([n \in DOMAIN source.tools |-> DrawFault(source.tools[n])]),
                       IF duplicated(drawn) THEN "Duplicate" ELSE "None"), drawn)
  /\ StockSame /\ UNCHANGED <<library, toolmesh, done>>

Put(map, name, value) ==
  [f \in DOMAIN map \union {name} |-> IF f = name THEN value ELSE map[f]]

\* One field of the root, a tool or an element, by hand: <<tool, element, field,
\* value>>, 0 for none.
EditTool(map, e) ==
  IF e[2] = 0 THEN Put(map, e[3], e[4])
  ELSE [map EXCEPT !.profile[e[2]] = Put(@, e[3], e[4])]

Edit(doc, e) ==
  IF e[1] = 0 THEN Put(doc, e[3], e[4]) ELSE [doc EXCEPT !.tools[e[1]] = EditTool(@, e)]

EditLibrary ==
  /\ tooling = "Filed"
  /\ \E e \in source.edits : document' = Edit(document, e)
  /\ tooling' = "Edited"
  /\ StockSame /\ UNCHANGED <<phase, why, library, toolmesh, done>>

numbers == {source.motions[n].tool : n \in DOMAIN source.motions}

\* Every number of the program, or the one tool named for all of them.
resolve_tools(tools) ==
  IF source.override # None THEN \E n \in DOMAIN tools : tools[n].id = source.override
  ELSE \A number \in numbers : \E n \in DOMAIN tools : tools[n].number = number

ReadOr(fault) ==
  IF fault = "None"
  THEN library' = from_json(document) /\ tooling' = "Tooled" /\ UNCHANGED <<phase, why>>
  ELSE Refuse(fault) /\ tooling' = "Refused" /\ UNCHANGED library

ReadLibrary ==
  /\ tooling \in {"Filed", "Edited"}
  /\ ReadOr(OrElse(library_fault(document),
                   IF resolve_tools(from_json(document)) THEN "None" ELSE "UnknownTool"))
  /\ StockSame /\ UNCHANGED <<document, toolmesh, done>>

Tessellate ==
  /\ tooling = "Tooled" /\ source.kind = "tools"
  /\ IF source.tolerance = "none" THEN Refuse("BadTolerance") /\ tooling' = "Refused" /\ UNCHANGED toolmesh
     ELSE /\ toolmesh' = tessellate(library[1].profile, source.tolerance)
          /\ tooling' = "Meshed" /\ UNCHANGED <<phase, why>>
  /\ StockSame /\ UNCHANGED <<document, library, done>>
-----------------------------------------------------------------------------
(* run *)
profile_of(number) ==
  LET mine == {n \in DOMAIN library : IF source.override # None THEN library[n].id = source.override
                                      ELSE library[n].number = number}
  IN library[Min(mine)].profile

CutMotion ==
  /\ tooling = "Tooled" /\ phase \in {"Built", "Cut"} /\ done < Len(source.motions)
  /\ LET m == source.motions[done + 1]
     IN bundles' = [a \in 1 .. 3 |-> IF bundles[a] = None THEN None
                                     ELSE cut_bundle(bundles[a], profile_of(m.tool), source.method, m)]
  /\ done' = done + 1 /\ phase' = "Cut"
  /\ UNCHANGED <<source, why, mesh, cast, file, damaged, field, sweep, surface,
                 tooling, document, library, toolmesh>>

\* What Stock does of itself: a mesh is built once the tools are at hand, and
\* written once every motion has been cut.
StockStep ==
  /\ tooling = "Tooled" /\ source.kind # "tools" /\ UNCHANGED tool_vars
  /\ \/ Weld \/ SkipAxis \/ Begin \/ CastRay \/ Register
     \/ done = Len(source.motions) /\ Write
     \/ Damage \/ Read \/ StartSweep \/ SweepSlab \/ Extracted

MillNext == StockStep \/ Draw \/ EditLibrary \/ ReadLibrary \/ Tessellate \/ CutMotion

MillSpec == MillInit /\ [][MillNext]_all_vars
-----------------------------------------------------------------------------
(* Properties. Where a tool of a drawing is, and where it has been, point by     *)
(* point: coordinates doubled and relative to the tip, `rr` the square of the    *)
(* distance from the axis. Open pieces if `strict`, closed ones otherwise; a     *)
(* drawing of the form "form" lists its pieces, rings [in, out, from, to].       *)
Less(a, b, strict) == IF strict THEN a < b ELSE a <= b

InRing(rr, z, from, to, inner, outer, strict) ==
  /\ Less(2 * from, z, strict) /\ Less(z, 2 * to, strict)
  /\ Less(rr, 4 * outer * outer, strict) /\ (inner > 0 => Less(4 * inner * inner, rr, strict))

\* Below the top of the flutes.
InFlutes(d, rr, z, strict) ==
  LET wide == d.diameter
      InCone(tip) == LET r == tip + d.slope * z
                    IN Less(rr, IF r < wide THEN r * r ELSE wide * wide, strict)
      corner == 2 * d.corner
      flat == wide - corner
      tall == corner * corner - (z - corner) * (z - corner)
      over == rr - flat * flat - tall
  IN /\ Less(0, z, strict) /\ Less(z, 2 * d.flute, strict)
     /\ CASE d.form = "flat" -> Less(rr, wide * wide, strict)
          [] d.form = "ball" -> Less(rr + (IF z < wide THEN (z - wide) * (z - wide) ELSE 0), wide * wide, strict)
          [] d.form = "bull" -> IF z >= corner THEN Less(rr, wide * wide, strict)
                                ELSE over < 0 \/ Less(over * over, 4 * flat * flat * tall, strict)
          [] d.form = "chamfer" -> InCone(d.tip)
          [] d.form = "drill" -> InCone(0)

InTool(d, rr, z, strict) ==
  IF d.form = "form" THEN \E p \in d.pieces : InRing(rr, z, p.from, p.to, p.in, p.out, strict)
  ELSE \/ InFlutes(d, rr, z, strict)
       \/ InRing(rr, z, d.flute, d.shank.overall, 0, d.shank.diameter \div 2, strict)

\* With the tip at a point.
InToolAt(d, tip, q, strict) ==
  LET v == <<q[1] - 2 * tip[1], q[2] - 2 * tip[2], q[3] - 2 * tip[3]>>
  IN InTool(d, v[1] * v[1] + v[2] * v[2], v[3], strict)

\* On the circle of a level arc, in the bearing of the point.
InToolRound(d, m, q, strict) ==
  LET v == <<q[1] - 2 * m.center[1], q[2] - 2 * m.center[2]>>
      r == Root(v[1] * v[1] + v[2] * v[2])
      off == r - 2 * m.radius
      exact == r * r = v[1] * v[1] + v[2] * v[2]
      Reaches(o) == InTool(d, o * o, q[3] - 2 * m.z, strict)
      between == IF exact THEN {off} ELSE {off - 1, off}
  IN /\ wedge_contains(m, v)
     /\ IF strict THEN \A o \in between : Reaches(o) ELSE \E o \in between : Reaches(o)

\* Every position of a line, every one planned of a motion that is stepped, and
\* of a level arc those of its ends and of the bearings in between.
InSweep(d, method, m, q, strict) ==
  LET line == m.kind = "linear"
      length == IF line THEN LET delta == Minus(m.end, m.start)
                             IN Max({delta[l] * Sign(delta[l]) : l \in 1 .. 3}) ELSE 0
      stepped == ~method.analytic \/ case(m) \in {"Ramp", "Helix"} \/ d.form = "form"
      N == IF stepped THEN Larger(1, plan(method, m)) ELSE IF line THEN Larger(1, length) ELSE 1
  IN \/ \E n \in 0 .. N : InToolAt(d, PositionAt(m, n, N), q, strict)
     \/ ~line /\ ~stepped /\ InToolRound(d, m, q, strict)

drawing_of(number) ==
  LET mine == {n \in DOMAIN source.tools : IF source.override # None THEN source.tools[n].id = source.override
                                            ELSE source.tools[n].number = number}
  IN source.tools[Min(mine)].drawing

InSweeps(q, strict) ==
  \E n \in 1 .. done :
    InSweep(drawing_of(source.motions[n].tool), source.method, source.motions[n], q, strict)

InStock(q) == \E piece \in source.pieces : \A h \in piece : Dot(h[1], q) < 2 * h[2]

\* The middle of each unit of a ray, in doubled coordinates.
Middle(ray, n) == [l \in 1 .. 3 |-> 2 * ray.origin[l] + (IF l = ray.w THEN 2 * n + 1 ELSE 0)]

IsMaterial(spans, n) == \E s \in DOMAIN spans : contains(spans[s], <<2 * n + 1, 2>>)

FacesOut(span, a) == Precedes(span.t0, span.t1) => span.n0[a] < 0 /\ span.n1[a] > 0

Plunged == \E n \in 1 .. done : case(source.motions[n]) = "Plunge"

\* What is left after a cut is the stock the tools have not been in, whichever of
\* the closed forms, or none, the motion and the ray chose: no unit of a ray is
\* cut that no position of a tool covers, none is left that one does, and what is
\* left faces out of it (cut.rs:383-489). The walls of a plunge are another
\* property's.
CutIsTheSweep ==
  phase = "Cut" =>
    \A a \in {x \in 1 .. 3 : bundles[x] # None} :
      LET b == bundles[a]
      IN \A r \in DOMAIN b.arena :
           LET ray == ray_at(b.lattice, r - 1)
           IN /\ \A n \in 0 .. b.lattice.length + 2 * spacing_max(b.lattice) :
                   LET q == Middle(ray, n)
                       left == IsMaterial(b.arena[r], n)
                   IN /\ left => InStock(q) /\ ~InSweeps(q, TRUE)
                      /\ InStock(q) /\ ~InSweeps(q, FALSE) => left
              /\ ~(Plunged /\ a # 3) => \A s \in DOMAIN b.arena[r] : FacesOut(b.arena[r][s], a)

\* The wall a plunge leaves faces out of it as well: `the outward direction there
\* is the tool's surface normal', which `on a cylinder' is radial
\* (plunge.rs:88-93), and a face that a ray along X meets cannot point along Z
\* (tests/deviation_ladder.rs:301-303).
WallsFaceOut ==
  phase = "Cut" =>
    \A a \in {x \in 1 .. 3 : bundles[x] # None} :
      \A r \in DOMAIN bundles[a].arena :
        \A s \in DOMAIN bundles[a].arena[r] : FacesOut(bundles[a].arena[r][s], a)

\* A library that is accepted is the one the file spells out: written again it is
\* the same document, but for a description the reader did not find; and a file
\* nobody edited is accepted (io.rs).
Undescribed(doc) ==
  [doc EXCEPT !.tools = [n \in DOMAIN @ |-> [f \in DOMAIN @[n] \ {"description"} |-> @[n][f]]]]

LibraryReadsBack ==
  /\ library # <<>> => Undescribed(library_to_json(library)) = Undescribed(document)
  /\ phase = "Refused" /\ document # None /\ library = <<>> =>
       \/ source.edits # {}
       \/ why = "UnknownTool"

\* The mesh of a tool is a solid: closed, every triangle facing out, and of the
\* volume of the frusta between its rings (tessellate.rs:237-305, where the bands,
\* the fans and the cap do not share a winding).
FrustaVolume(elements, tolerance) ==
  LET at == stations(elements, tolerance)
  IN FoldLeft(LAMBDA sum, n : sum + 4 * (at[n + 1][2] - at[n][2])
                                    * (at[n][1] * at[n][1] + at[n][1] * at[n + 1][1] + at[n + 1][1] * at[n + 1][1]),
              0, [n \in 1 .. Len(at) - 1 |-> n])

ToolMeshIsSolid ==
  toolmesh # None => /\ is_solid(toolmesh)
                     /\ signed_volume(toolmesh) = FrustaVolume(library[1].profile, source.tolerance)
=============================================================================
