-------------------------------- MODULE Verbs --------------------------------
(* The verbs of the command line that read files, answer, and at most write one  *)
(* (crates/chipbreaker/src: main.rs, dexel.rs, mesh.rs, path.rs, tool.rs,        *)
(* extract.rs, compare.rs, collide.rs, memest.rs, roots.rs). Commands has their  *)
(* files, and `run`; verify, report-diff and job have modules of their own.      *)
(*                                                                               *)
(* A verb is a function of its arguments `c` and the files `d` it finds. What it *)
(* comes to is an answer, [exit, out]: the exit code, and what it means to write *)
(* to --out, None if nothing. Wording is left out, of text and JSON alike.       *)
(*                                                                               *)
(* A file is None or a record with its `kind` and whether it is `whole`:         *)
(* - a field has the axes of its bundles, a spacing along each axis, its         *)
(*   material `cells`, and two marks that are not in the file, for properties:   *)
(*   what it was built `from` and the `cuts` made since;                         *)
(* - a mesh has its `form` and a `shape`, what can be found out about it;        *)
(* - a program has its segments, whether it parses and parses strictly, what a   *)
(*   replay of it meets; a library has a set of tools;                           *)
(* - anything else is text, a report or a picture.                               *)
EXTENDS Integers, Sequences, FiniteSets

CONSTANTS
  None,
  NoShape,       \* the shape of a mesh of no facets
  Surface(_),    \* the shape extraction makes of a field's material
  Missing(_, _)  \* whether material lacks, where it has some, what a shape has

AxisOf == 1 .. 3

CouldNot == [exit |-> 2, out |-> None]
Crash == 101
Says(yes) == [exit |-> IF yes THEN 0 ELSE 1, out |-> None]
Writes(yes, content) == [Says(yes) EXCEPT !.out = content]

\* A verb that was asked not to write only answers.
IfNamed(out, answer) == IF out = None THEN [answer EXCEPT !.out = None] ELSE answer
-------------------------------------------------------------------------------
(* Reading. *)

Has(file, kind) == file # None /\ file.kind = kind /\ file.whole

\* Slip: a field file that ends early is read as far as it goes.
read_as_far(file) == file # None /\ file.kind = "field"

\* dexel.rs: either format of field.
read_field(file) == Has(file, "field")

\* run.rs, and word for word in collide.rs, extract.rs and compare.rs: a file of
\* more than one bundle.
read_stock(file) == read_field(file) /\ Cardinality(file.axes) > 1

AllAxes(field) == field.axes = AxisOf

\* A bundle whose two spacings differ has no one spacing; asked for it, the program
\* panics (lattice.rs:288).
uneven(field, axis) == \E k, l \in AxisOf \ {axis} : field.spacing[k] # field.spacing[l]

\* Only binary STL and the fields have zero bytes; any other text is an OBJ of
\* no faces. A text mesh that was cut short is a mesh of fewer facets.
Format(file) ==
  CASE file.kind = "mesh" -> file.form
    [] file.kind = "field" -> "stl"
    [] OTHER -> "obj"

\* mesh.rs: a mesh needs a unit from the file or from the caller. A binary STL
\* has the length its count of facets says.
load(file, units) ==
  IF \/ file = None
     \/ Format(file) # "3mf" /\ units = None
     \/ Format(file) = "stl" /\ ~Has(file, "mesh")
  THEN None
  ELSE IF file.kind = "mesh" THEN file.shape ELSE NoShape

\* mesh.rs: the extension of --out names the form.
write_mesh(out, yes, shape) ==
  IF out # None /\ out.form \notin {"stl", "stla", "obj"} THEN CouldNot
  ELSE IfNamed(out, Writes(yes, [kind |-> "mesh", whole |-> TRUE, form |-> IF out = None THEN None ELSE out.form,
                                 shape |-> shape]))

\* A program parses under the default options or the strict ones; a library is
\* asked for only where one is named.
Parsed(file, strict) == Has(file, "program") /\ file.parses /\ (strict => file.strictly)

Library(d, path) == path = None \/ Has(d[path], "library")

ById(library, id) == {t \in library.tools : t.id = id}
ByNumber(library, number) == {t \in library.tools : t.number = number}

FirstTool(program) == IF program.segments = <<>> THEN 0 ELSE program.segments[1].tool

\* run.rs, resolve_for_attribution and resolve_for_collision: the program, the
\* library, and the tool that is named or that the first segment asks for.
ToReplay(d, c) ==
  IF Parsed(d[c.path], FALSE) /\ Has(d[c.tools], "library")
  THEN IF c.tool # None THEN ById(d[c.tools], c.tool)
       ELSE ByNumber(d[c.tools], FirstTool(d[c.path]))
  ELSE {}
-------------------------------------------------------------------------------
(* dexel. *)

Spacing(c) == [l \in AxisOf |-> IF c.finer # None /\ c.finer = l THEN c.res \div 2 ELSE c.res]

\* The field is written before it is described, and describing it asks each
\* bundle for its spacing.
dexel_build(d, c) ==
  LET shape == load(d[c.mesh], c.units)
      cells == [b \in DOMAIN shape.cells |-> [r \in DOMAIN shape.cells[b] |->
                  IF b \in c.axes THEN shape.cells[b][r] ELSE {}]]
      field == [kind |-> "field", whole |-> TRUE, axes |-> c.axes, spacing |-> Spacing(c),
                cells |-> cells, from |-> cells, cuts |-> <<>>]
  IN IF c.res <= 0 \/ shape = None THEN CouldNot
     ELSE IF c.limit # None /\ shape.bytes > c.limit THEN CouldNot
     ELSE IF c.dry THEN Says(TRUE)
     ELSE IF ~shape.builds THEN CouldNot
     ELSE IfNamed(c.out, [exit |-> IF \E a \in c.axes : uneven(field, a) THEN Crash ELSE 0,
                          out |-> field])

dexel_stat(d, c) ==
  IF ~read_field(d[c.file]) THEN CouldNot
  ELSE IF \E a \in d[c.file].axes : uneven(d[c.file], a) THEN [CouldNot EXCEPT !.exit = Crash]
  ELSE Says(TRUE)

dexel_volume(d, c) == IF read_field(d[c.file]) THEN Says(TRUE) ELSE CouldNot

Picture == [kind |-> "picture", whole |-> TRUE]

\* The bundle asked for, or the one along the plane's normal.
dexel_slice(d, c) ==
  LET want == IF c.axis = None THEN c.plane ELSE c.axis
  IN IF ~read_field(d[c.file]) THEN CouldNot
     ELSE IF want \notin d[c.file].axes THEN CouldNot
     ELSE IF uneven(d[c.file], want) THEN [CouldNot EXCEPT !.exit = Crash]
     ELSE IfNamed(c.out, Writes(TRUE, Picture))

\* A facet is met well enough by the axes it is steep to; with all three bundles
\* there always is one. A mesh of no facets is not covered.
CoverageHolds(field, shape) ==
  shape.normals # {} /\ \A steep \in shape.normals : steep \cap field.axes # {}

dexel_deviation(d, c) ==
  IF ~read_stock(d[c.file]) \/ load(d[c.mesh], c.units) = None THEN CouldNot
  ELSE Says(CoverageHolds(d[c.file], load(d[c.mesh], c.units)))

dexel_coverage(d, c) ==
  IF ~read_field(d[c.file]) \/ load(d[c.mesh], c.units) = None THEN CouldNot
  ELSE Says(CoverageHolds(d[c.file], load(d[c.mesh], c.units)))

\* Over shapes built in: nothing is read.
dexel_convergence == Says(TRUE)

cut_stat(d, c) == IF read_stock(d[c.file]) THEN Says(TRUE) ELSE CouldNot
-------------------------------------------------------------------------------
(* mesh, extract, compare, collide. *)

\* A mesh verb that could not be completed says 1, as one that answers no.
MeshFailed == [CouldNot EXCEPT !.exit = 1]

mesh_answer(shape, c) ==
  CASE c.verb \in {"mesh inspect", "mesh bvh"} -> Says(TRUE)
    [] c.verb = "mesh validate" -> Says(shape.solid /\ (c.crossings => ~shape.crosses))
    [] c.verb = "mesh convert" -> write_mesh(c.out, TRUE, shape)
    [] c.verb = "mesh raycast" -> IF c.usable THEN Says(TRUE) ELSE CouldNot
    [] c.verb = "mesh parity" -> Says(~shape.leaks)

mesh(d, c) ==
  LET shape == load(d[c.file], c.units)
  IN IF shape = None \/ mesh_answer(shape, c) = CouldNot THEN MeshFailed
     ELSE mesh_answer(shape, c)

\* The surface is written whether it is sound or not.
extract(d, c) ==
  IF ~c.usable \/ ~read_stock(d[c.file]) THEN CouldNot
  ELSE IF ~AllAxes(d[c.file]) THEN CouldNot
  ELSE LET shape == Surface(d[c.file].cells) IN write_mesh(c.out, shape.solid, shape)

Compared(d, c) ==
  /\ c.tolerance > 0 /\ read_stock(d[c.file])
  /\ load(d[c.nominal], c.units) # None
  /\ c.stock # None => load(d[c.stock], c.units) # None
  /\ c.below_floor => c.allowed

\* A sample is a bound of a span: where a ray has no material left there is none.
compare(d, c) ==
  IF Compared(d, c) THEN Says(~Missing(d[c.file].cells, load(d[c.nominal], c.units).cells))
  ELSE CouldNot

deviation_stat(d, c) == IF Compared(d, c) THEN Says(TRUE) ELSE CouldNot

\* What the replay finds on this stock is Job's; here it is data of the program.
collide(d, c) ==
  IF \/ ~c.usable \/ ~read_stock(d[c.file]) \/ ToReplay(d, c) = {}
     \/ \E f \in c.fixtures : load(d[f], c.units) = None \/ ~load(d[f], c.units).builds
  THEN CouldNot
  ELSE Says(/\ \A t \in ToReplay(d, c) : t.holder
            /\ ~d[c.path].retracts /\ ~d[c.path].hits)
-------------------------------------------------------------------------------
(* path, tool, and what reads nothing but numbers. *)

\* Linting is the one verb whose answer is whether the program parses; an
\* unreadable one, or library, is an answer of that kind.
path_lint(d, c) == Says(Parsed(d[c.path], c.strict) /\ Library(d, c.tools))

path(d, c) ==
  IF c.verb = "path dump" /\ ~c.usable THEN CouldNot
  ELSE IF Parsed(d[c.path], FALSE) /\ Library(d, c.tools) THEN Says(TRUE) ELSE CouldNot

\* A tool is defined on the command line or looked up by its id.
Tool(d, c) ==
  IF c.define # None THEN {c.define} \ {"bad"}
  ELSE IF c.tools = None THEN {}
  ELSE IF Has(d[c.tools], "library") THEN {t.profile : t \in ById(d[c.tools], c.tool)} ELSE {}

tool_answer(profile, c) ==
  CASE c.verb \in {"tool describe", "tool profile", "tool convergence"} -> Says(TRUE)
    [] c.verb = "tool mesh" -> IF c.usable THEN write_mesh(c.out, profile.solid, profile.mesh)
                               ELSE CouldNot
    [] c.verb = "tool raycast" -> IF c.usable THEN Says(TRUE) ELSE CouldNot
    [] c.verb = "tool parity" -> Says(~profile.leaks)

tool(d, c) ==
  IF Tool(d, c) = {} THEN CouldNot ELSE tool_answer(CHOOSE p \in Tool(d, c) : TRUE, c)

mem_estimate(d, c) ==
  LET shape == load(d[c.mesh], c.units)
  IN IF \/ c.res <= 0 \/ shape = None
        \/ c.path # None /\ ~Parsed(d[c.path], FALSE)
     THEN CouldNot
     ELSE Says(c.limit = None \/ shape.bytes <= c.limit)

roots_solve(c) == IF c.usable THEN Says(TRUE) ELSE CouldNot

\* The suites are constants of the build. A report that cannot be written is a
\* failure like any other.
run_selftest(c) == IfNamed(c.out, Writes(TRUE, [kind |-> "report", whole |-> TRUE]))

print_version == Says(TRUE)
===============================================================================
