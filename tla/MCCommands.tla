----------------------------- MODULE MCCommands ------------------------------
(* Three bundles of two rays, three cells to a ray; removing `chip` splits a full *)
(* ray into two spans. A block to build stock from, a part to compare with, a     *)
(* program of two tools with an arc and an arc that has lost its data, and        *)
(* sessions of a few commands over them.                                          *)
EXTENDS Commands

CONSTANTS big, small, chip

Cells == {big, small, chip}
Weights == [c \in Cells |-> CASE c = big -> 4 [] c = small -> 1 [] c = chip -> 0]
MCSpans == [m \in SUBSET Cells |-> IF m = {} THEN 0 ELSE IF m = {big, small} THEN 2 ELSE 1]

Full == [b \in Bundle |-> [r \in Ray |-> Cells]]
Bare == [b \in Bundle |-> [r \in Ray |-> {}]]
Cone == [b \in Bundle |-> [r \in Ray |-> IF r = 0 THEN {big} ELSE {}]]

Shape(facets, material) ==
  [facets |-> facets, solid |-> material # Bare, crosses |-> FALSE, leaks |-> FALSE,
   builds |-> facets > 0, bytes |-> 10, cells |-> material,
   normals |-> CASE facets = 12 -> {{1}, {2}, {3}} [] facets = 1 -> {{1, 2}} [] OTHER -> {},
   pieces |-> {}]
Empty == Shape(0, Bare)
Shard == [Shape(1, Cone) EXCEPT !.solid = FALSE, !.leaks = TRUE, !.crosses = TRUE, !.builds = FALSE]
Whole(material) == [Shape(12, material) EXCEPT !.pieces = {Empty, Shard}]
\* Every surface extraction may make, and what the meshes at first are cut short to.
MCShapes ==
  {Empty, Shard}
    \cup [facets : {12}, solid : BOOLEAN, crosses : {FALSE}, leaks : {FALSE}, builds : {TRUE},
          bytes : {10}, cells : Fields, normals : {{{1}, {2}, {3}}}, pieces : {{Empty, Shard}}]
Lacks(cells, nominal) ==
  \E b \in Bundle, r \in Ray : cells[b][r] # {} /\ ~(nominal[b][r] \subseteq cells[b][r])
-----------------------------------------------------------------------------
Sweep(number, isExact, first, last_, cells) ==
  [exact |-> isExact, tool |-> number, box |-> [b \in Bundle |-> <<first, last_>>],
   swept |-> [b \in Bundle |-> [r \in Ray |->
                IF first <= r /\ r <= last_ /\ (b = 1 \/ r >= first) THEN cells ELSE {}]]]
Both(motion, wider) == "mill" :> motion @@ "drill" :> wider

Segment(number, native) ==
  [tool |-> number, lost |-> FALSE, native |-> native, chords |-> None]
Line == Segment(1, Both(Sweep(1, TRUE, 0, 1, {chip}), Sweep(1, TRUE, 0, 1, {chip, small})))
Arc == [Segment(1, Both(Sweep(1, FALSE, 1, 1, {small, chip}), Sweep(1, FALSE, 1, 1, {small})))
          EXCEPT !.chords = Both(<<Sweep(1, TRUE, 1, 1, {small}), Sweep(1, TRUE, 0, 1, {chip})>>,
                                 <<Sweep(1, TRUE, 1, 1, {small})>>)]
Peck == Segment(2, Both(Sweep(2, TRUE, 1, 1, {big}), Sweep(2, TRUE, 1, 1, Cells)))
Edge == Segment(2, Both(Sweep(2, TRUE, 0, 1, {small}), Sweep(2, TRUE, 0, 1, {small})))
Lost == [Line EXCEPT !.lost = TRUE]

MCCutters == {"mill", "drill"}

NC(segments) ==
  [kind |-> "program", whole |-> TRUE, segments |-> segments, parses |-> TRUE,
   strictly |-> segments # <<>>, retracts |-> FALSE, hits |-> FALSE]
Tools(set) ==
  [kind |-> "library", whole |-> TRUE, tools |->
     {[id |-> id, number |-> IF id = "mill" THEN 1 ELSE 2, holder |-> id = "mill",
       profile |-> [id |-> id, solid |-> TRUE, mesh |-> Whole(Cone), leaks |-> FALSE]] :
        id \in set}]
Mesh(form, shape) == [kind |-> "mesh", whole |-> TRUE, form |-> form, shape |-> shape]
Stock(material, spacing) ==
  [kind |-> "field", whole |-> TRUE, axes |-> AxisOf, spacing |-> spacing,
   cells |-> material, from |-> material, cuts |-> <<>>]

MCPaths == {"block", "part", "stock", "next", "facing", "broken", "tools", "mills"}

MCDisks ==
  {[block |-> Mesh("stl", Whole(Full)), part |-> Mesh("obj", Whole(Cone)),
    stock |-> Stock(Full, <<4, 4, 4>>), next |-> None,
    facing |-> NC(<<Line, Arc, Peck, Peck, Edge>>), broken |-> NC(<<Edge, Line, Lost>>),
    tools |-> Tools({"mill", "drill"}), mills |-> Tools({"mill"})]}
-----------------------------------------------------------------------------
To(path_) == [path |-> path_, form |-> "stla"]

Build(mesh_, out, axes, finer, dry) ==
  [verb |-> "dexel build", mesh |-> mesh_, units |-> "mm", res |-> 4, finer |-> finer,
   axes |-> axes, limit |-> None, dry |-> dry, out |-> out]

RunOf(file, program, library, tool_, range, out, threads, size, limit) ==
  [verb |-> "run", usable |-> TRUE, file |-> file, path |-> program, tools |-> library,
   tool |-> tool_, range |-> range, chords |-> size = 1, threads |-> threads,
   batch_size |-> size, mem_limit |-> limit, out |-> out]

Runs ==
  {RunOf(file, "facing", "tools", None, range, To(out), threads, size, None) :
     file \in {"stock", "next"}, range \in {<<0, 2>>, <<2, 9>>}, out \in {"stock", "next"},
     threads \in {1}, size \in {0, 3}}
    \cup {RunOf("stock", "facing", "tools", None, None, To("next"), threads, size, None) :
            threads \in {0, 1, 2}, size \in {1, 2, 5}}
    \cup {RunOf("stock", "broken", "tools", "drill", None, To("next"), 1, 2, limit) :
            limit \in {None, 6, 7}}
    \cup {RunOf("stock", "broken", "mills", None, None, None, 1, 2, None),
          RunOf("stock", "facing", "mills", None, <<0, 1>>, None, 1, 2, None),
          RunOf("next", "facing", "tools", None, <<7, 9>>, To("next"), 2, 2, None)}

OfField(verb_) == [verb |-> verb_, file |-> "next", usable |-> TRUE]
OfMesh(verb_, file) ==
  [verb |-> verb_, file |-> file, units |-> "mm", usable |-> TRUE, crossings |-> TRUE]
OfProgram(verb_) ==
  [verb |-> verb_, path |-> "facing", tools |-> "tools", strict |-> TRUE, usable |-> TRUE]
OfTool(verb_) == [verb |-> verb_, tools |-> "tools", tool |-> "drill", define |-> None,
                  usable |-> TRUE, out |-> To("part")]
Against(verb_) == [verb |-> verb_, file |-> "next", nominal |-> "part", units |-> "mm",
                   stock |-> None, tolerance |-> 1, below_floor |-> FALSE, allowed |-> FALSE]

Others ==
  {Build("block", To("next"), AxisOf, None, FALSE), Build("block", To("next"), {3}, None, FALSE),
   Build("block", To("stock"), AxisOf, 1, FALSE), Build("part", To("stock"), {1, 2}, None, FALSE),
   Build("part", To("next"), AxisOf, None, TRUE),
   [verb |-> "extract", file |-> "next", usable |-> TRUE, out |-> To("part")],
   [verb |-> "extract", file |-> "stock", usable |-> TRUE, out |-> [path |-> "block", form |-> "stl"]],
   [verb |-> "dexel slice", file |-> "stock", axis |-> None, plane |-> 2, out |-> To("part")],
   [verb |-> "collide", file |-> "next", usable |-> TRUE, path |-> "facing", tools |-> "tools",
    tool |-> None, fixtures |-> {"part"}, units |-> "mm"],
   [verb |-> "mem-estimate", mesh |-> "part", units |-> "mm", res |-> 4, path |-> "facing",
    limit |-> 9],
   [verb |-> "dexel convergence"], [verb |-> "version"],
   [verb |-> "roots solve", usable |-> TRUE], [verb |-> "selftest", out |-> To("next")]}
    \cup {OfField(v) : v \in {"dexel stat", "dexel volume", "cut-stat"}}
    \cup {OfMesh(v, "part") : v \in {"mesh inspect", "mesh bvh", "mesh validate", "mesh raycast",
                                     "mesh parity"}}
    \cup {[verb |-> "mesh convert", file |-> "block", units |-> "mm", usable |-> TRUE,
           out |-> To("part")]}
    \cup {[verb |-> v, file |-> "next", mesh |-> "part", units |-> "mm"] :
            v \in {"dexel deviation", "dexel coverage"}}
    \cup {OfProgram(v) : v \in {"path lint", "path parse", "path dump"}}
    \cup {OfTool(v) : v \in {"tool describe", "tool mesh", "tool parity"}}
    \cup {Against(v) : v \in {"compare", "deviation-stat"}}

MCInvocations == Runs \cup Others
==============================================================================
