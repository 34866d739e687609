# chipbreaker in TLA+

chipbreaker verifies CNC programs: it reads NC text, sweeps the tool along the
resulting toolpath through a model of the stock, and reports what collides and
what is left of the part. This directory holds TLA+ models of its core, the TLC
configurations that check them on small instances, and theorems about them that
TLAPS proves. Paths below are relative to `src/`; `core` stands for
`crates/chipbreaker-core/src`, `gcode` for `crates/chipbreaker-gcode/src` and
`cli` for `crates/chipbreaker/src`.

    tlc -workers 2 -config MCArena.cfg MCArena.tla     # any run below
    tlapm DexelProofs.tla                              # and the other *Proofs

## 1. The system

    mesh file -> weld -> validate -> cast rays -> dexel field <-> .dexel / .tdx
                                                     |      \
    NC text -> blocks -> execute -> toolpath IR      |       contour -> mesh
                (modal state, cycles,    |           |
                 offsets, calls)         +---------->|  one span arena per bundle
                                                     |
       `run`: cut every motion, batched or in parallel
       `collide`, `job`: check each motion against the stock, then cut it
                                                     |
       deviation from the nominal -> clusters -> findings -> gates -> verdict
                                                     |
       hosts: command line, C ABI, Python, a web page; the memory budget

| Component | State | Operations | What makes it correct |
|---|---|---|---|
| Span arena, `core/dexel/arena.rs` | inline slots, span counts, spill offsets, the spill heap, a garbage counter | `get`, `set`, `compact` | rays never share heap cells; the counter is exact; to its callers it is a map from rays to lists |
| Span algebra, `core/spans.rs` | a sorted list of intervals with normals | union, difference, intersection, complement, `push_merge`, `normalize_in_place` | they are the set operations up to the threshold; the list stays valid; normals face outward |
| Sequential and batched cutting, `core/sweep/cut.rs`, `batch.rs` | the field, counters, removed volume | `cut_bundle_motion`, `cut_batch_bundle`, `split_runs` | the result does not depend on how motions are batched |
| Parallel cutting, `core/sweep/parallel.rs` | the field, a shared counter, a locked result list, worker-local results | `cut_all_parallel`, `compute_bundle`, `run_chunk`, the reduction | bit-identical to one thread, whatever the schedule; it ends |
| `chipbreaker run`, `cli/run.rs` | field, totals, per-motion volumes | the cutting loop and the ceiling check | the field does not depend on `--batch-size` or `--threads` |
| NC block assembly, `gcode/lex.rs`, `block.rs`, `diag.rs` | an open comment, the words and warnings so far | `lex`, `assemble` | a line is the block a reader sees in it, or is refused at its place |
| NC interpreter, `gcode/resolve.rs`, `modal.rs` | modal state, position, offsets and epochs, G92 shift, cycle parameters, segments, events | `execute` and what it calls | the toolpath is contiguous, its offsets recoverable, its feeds known, its omissions counted |
| Canned cycles, `gcode/cycles.rs` | none | `expand` | a cycle is the motion a programmer would have written out |
| Subprogram calls, `gcode/resolve.rs` | the Rust call stack, block numbers | `subprogram_table`, `run_range` | a program with calls is its longhand; recursion is bounded; every parse ends |
| Multi-setup jobs, `cli/job.rs`; collision replay, `core/findings/detect.rs`; refixturing, `core/refixture.rs` | the field, raw hits, setup outcomes, gates | `job`, `carry`, `collide_with_stock` | hits are those of the real trajectory; a job passes only if every setup was checked and clean |
| Findings, `core/findings/` | the union-find forest, buckets; else none | `cluster`, `unsampled`, `identify`, `assemble`, the gates, `diff`, report JSON | independent of sample order; a name survives an edit elsewhere; no gate is lost |
| `verify`, `report-diff`, `cli/verify.rs` | files that others may rewrite | read, judge, attribute, hash, replay, write, compare | a pass was earned; a difference is told |
| Memory budget, `core/budget.rs` | none | `predict`, `coarsest_that_fits`, `check_growth` | a proposed spacing fits, and is the finest that does |
| Job pipeline, `gcode/pipeline.rs` | one run's field and outcome | `run` | what it passes was looked at; it holds its ceiling |
| C ABI, `crates/chipbreaker-abi`; Python and WebAssembly bindings | handles, a status, a published result, a generation counter | create, set, run, free, publish | a caller believes the result of its own run only |
| Meshes, `core/mesh/`, `core/predicates/` | none | `weld`, `validate`, `place`, BVH, `intersect_ray_all` | welding is canonical; a ray crosses a solid an even number of times, exactly |
| Dexel fields, lattices and their files, `core/dexel/` | bundles of rays | `build`, registration, `write`, `read` | the field is the solid; a file reads back, a damaged one is refused |
| Contouring, `core/contour/` | a sweeping slab of corners, crossings, vertices | `extract` | the surface is closed and faces outward, whatever the bundles say |
| `dexel build`, `extract`, `cli/dexel.rs`, `extract.rs` | files | the two commands from file to file | as above |
| Tools, `core/tool/` | a library and its file | draw a form, check a profile, write, read, tessellate, normals | a library reads back or is refused; a tool's mesh is a solid |
| Swept volumes, `core/sweep/` | none | `plan`, the closed forms, stepping, `cut_bundle_motion` | the field loses what the tool passed through, and nothing else |
| The other verbs, `cli/*.rs` | files | read, answer, write | no answer rests on part of a file; ranges of a job add up to the job |

What a character or a number is in NC text, mesh formats, deviation, convergence, numeric foundations,
planted cases and self tests are listed, with their sources and the reason they have no module, in
`PROJECT.json` and in section 6.

What is hard here: worker threads whose results arrive in any order while float
addition does not associate; state of the interpreter that a word forty blocks
earlier determines; an arena whose compaction rewrites offsets while it still
reads the old heap; jobs in which one setup of several cannot be checked; a
forest that is rewritten while it is walked; files that change between the read
that judges them and the read that hashes them; a page whose calls trap or
overtake each other; rays that run through vertices and edges; bundles that
disagree about a corner; closed forms of a sweep that apply to some tools,
motions and rays only; a job cut in ranges, each run on the file the last one
left. `PROJECT.json` lists every hazard at its line with the
properties meant to catch it.

## 2. The modules

| Module | Stands for | Notes |
|---|---|---|
| `SpanStore` | the arena's contract | a map, replaced one list at a time |
| `Arena` | `core/dexel/arena.rs` | `SetInline`, `SetInPlace`, `SetAppend` are the three ways through `set`; `CompactRay` is one iteration of `compact`'s loop and `CompactDone` its end. `FinishSet` is the trailing decision to compact |
| `Spans` | `core/spans.rs` | one behaviour is one call: `ScanEndpoint` is an iteration of `boolean_scan`, `Sort`, `MergeNext` and `MergeEnd` are `normalize_in_place`, `PushInOrder` and `PushOutOfOrder` the two ways through `push_merge` |
| `Cutting` | `core/sweep/cut.rs`, `split_runs` | what a motion does to a ray, rounded float addition, and the reference: one motion at a time. Declares the state of a cut in progress, which the two modules after it share |
| `ParallelCut` | `core/sweep/parallel.rs` | EXTENDS `Cutting`. `StartBundle`, per worker `Claim`, `RunChunk`, `Flush`, then `Reduce` |
| `CutDriver` | the cutting loop of `cli/run.rs`, `cut_batch_bundle` | EXTENDS `Cutting`. `CutRay` is one iteration of the sequential branch, `CutRunParallel` the other branch, `CheckGrowth` the ceiling |
| `Cycles` | `gcode/cycles.rs` | `expand` as an operator. No state |
| `Resolver` | `execute` and its helpers in `gcode/resolve.rs`, `modal.rs` | EXTENDS `Cycles`. One action per way through `execute`: `SkipBlock`, `Fail`, `apply_g10`, `apply_g92`, `ReturnToReference`, `NoMotion`, `Move`, `fire_cycle` |
| `Program` | `subprogram_table`, `run_range` | EXTENDS `Resolver`: `ExecuteBlock` and `Stop` take a step of `execute`; the Rust call stack is the variable `stack` |
| `Parse` | `gcode/lex.rs`, `block.rs`, `diag.rs`, `parse` | EXTENDS `Program`: `lex` and `assemble_block` as functions of a text of items; a behaviour starts with a text or with blocks |
| `Job` | `cli/job.rs`, `core/findings/detect.rs` | `Carry`, `Resolve`, `Refuse`, `CheckMotion`, `CutMotion`, `EndReplay`, `Report` |
| `UnionFind` | `Union` in `core/findings/cluster.rs` | `Halve` is one iteration of `find`'s loop, `Link` the end of `union` |
| `Clustering` | the rest of `cluster.rs` | EXTENDS `UnionFind`. `Classify`, `Join`, `Gather`, `Fold`, for samples and then for facets no sample speaks for |
| `Findings` | `core/findings/` mod, verdict, diff, report; `load_report` | functions of their arguments, among them `InOrder`, which stands for the standard library's sorts and ordered maps. No state |
| `Verify` | `cli/verify.rs` | composes `Clustering` and `Findings`: two verifications and their comparison, with `Edit` for whoever rewrites a file meanwhile |
| `Budget` | `core/budget.rs` | `Double`, `GiveUp`, `Bisect`, `Name`: the search for a spacing |
| `Pipeline` | `gcode/pipeline.rs` | composes `Budget` and `Findings`: every refusal in its order, then `Cut`, `Compare` |
| `Hosts` | the ABI, Python, the page, `mem-estimate` | composes `Pipeline` with its callers; `Trap` is a panic in the browser |
| `Verbs` | the verbs of `cli/main.rs` outside `verify`, `report-diff` and `job` | functions from arguments and files to an exit code and what is written. No state |
| `Commands` | a session at the command line | composes `CutDriver` and `Verbs`: `Invoke`, the steps of a `run`, `Finish`, and writes that fail, end early or are killed |
| `Mesh`, `Rays`, `Field`, `Contour` | `core/mesh`, `core/predicates`, `core/dexel`, `core/contour` | functions, each module extending the one before |
| `Stock` | `cli/dexel.rs` build, `cli/extract.rs` | composes the four: `Weld`, `Begin`, `CastRay`, `Register`, `Write`, `Damage`, `Read`, `StartSweep`, `SweepSlab` |
| `Profile` | `core/tool/` profile, selfintersect, properties, normal, tessellate; the moving maximum of `core/sweep/plunge.rs` | EXTENDS `Mesh`. Functions of a chain of elements |
| `Catalog` | `core/tool/` catalog, mod, io | the standard forms as drawings with the checks of their parameters; the library as a JSON document and back |
| `Sweep` | `core/tool/raycast.rs`, `core/sweep/` | EXTENDS `Profile`, `Field`: the spans of a ray in a tool, in a prism, a plunge, a level arc, in even steps; `cut_bundle` |
| `Milling` | `tool mesh`, the tool library and the cut of `cli/run.rs` | composes `Stock`, `Catalog`, `Sweep`: `Draw`, `EditLibrary`, `ReadLibrary`, `Tessellate`, `CutMotion` between the build of a field and its file |
| `DexelProofs`, `ProgramProofs`, `VerifyProofs`, `CuttingProofs`, `JobProofs`, `HostsProofs`, `MillingProofs` | | theorems about the module they are named for; `DexelProofs` about `Arena` and `Spans`, `MillingProofs` about what `Stock` welds and the library of `Catalog`, `CuttingProofs` about `ParallelCut`, `CutDriver` and `Commands`, `HostsProofs` also about `Budget` and `Pipeline`, `ProgramProofs` about `Resolver` and `Cycles`, `VerifyProofs` about `UnionFind` and `Clustering` |
| `SharedLemmas` | | what those proofs share: induction on naturals, recursions that end, orders and lists, and that a report of hits has a collision exactly when the hits had one |
| `MC*` | | instances for TLC |

How they compose: `CutDriver`'s parallel branch uses for a run what
`ParallelCut` shows `cut_all_parallel` to compute. `Job` has the collision
replay; `Verify` and `Pipeline` take the hits it finds as what a program is.
`Pipeline`'s refusals take the spacing `Budget` names. `Field` uses what `Spans`
shows `push_merge` to do. Definitions whose comment starts with "Slip:" are not
part of any specification: each is a small plausible mistake in the definition
after it, kept to show that the property named for it in `PROJECT.json` can fail.

### Abstractions

* *Material.* In `Cutting` a ray's material is a set of cells and a motion sweeps
  some cells of some rays. How the swept interval is computed is data. A cell of
  weight zero stands for a cut that rearranges spans without changing their
  measure, which the code counts differently from one that removes volume.
* *Spans.* Positions are integers and both thresholds, which are equal in the code,
  are `Eps`. A normal records whose surface it was made on, where, and which way
  it faces. NaN bounds are left out.
* *Floats.* Volumes are naturals rounded after every addition to `Precision`
  significant bits, ties to even, so that regrouping a sum shows. Coordinates
  in `Resolver` are integers, since its properties are about frames and
  order; `Inch` is 3 where the code has 25.4. In `Budget` a scale is a multiple
  of `1/Grain`. In the geometry modules every coordinate is exact: positions are
  integers, a ray parameter is a fraction. The float filter in front of the exact
  predicates has nothing to do there, and rounding is left out.
* *Plane.* `Resolver` has two axes: `x` for the plane, `z` for the spindle. Selected
  planes, feed modes, arc distance and path control are modes it keeps and cycles refuse;
  arcs are moves to their end. G43.1, rotary axes, the interpreter's warnings and `--strict` are left out.
* *Blocks and text.* A block is the record of its words. A text of `Parse` is a list of lines of items: what
  is a letter, a number, a keyword or a marker of a foreign dialect is decided before, from characters.
* *Dropped and added.* The epoch list of `Resolver` is the one in the IR's
  header; the `offset` of a segment is not in the IR and serves only to say what
  a reader must recover. `trace` in `Program` records what was executed.
* *Space in `Job`.* A row of cells of one cross-section, wider than the tolerance; an axis-aligned transform being a
  permutation of them. Near misses and contacts are per motion, part and
  obstacle, as raw hits are before grouping.
* *Findings.* Positions are integers in the plane. A cluster keeps its class, its
  place, its members, its worst and total depth; estimated areas and volumes, on
  which nothing is decided, are left out. An id is the tuple whose hash the code
  prints. A file is its content, which also stands for its digest. Which motions
  reach a place, and what a replay of a program hits, is part of the program.
* *Hosts.* Freeing twice and using a freed handle are undefined by the ABI's
  contract and are no actions. Decoding between JSON, base64 and Python values is
  left out. The counter of published results wraps at `GenerationEnd`.
* *Files of fields.* A file is a sequence of values, each read whole or not at all.
* *Tools and sweeps.* Profiles have whole coordinates, doubled so that midpoints are
  whole, and arcs are asked for at points where their radii are whole. A motion's
  level part runs along an axis, an arc starts and ends at quarters. The field goes from the build to the
  cut without its file; `Commands` has the files. Deviation bounds, counters and arcs as chords are left out.
* *Commands.* A field is the set of cells it has, with what it was built from and the segments it was
  cut by as marks no verb reads; a mesh is a shape.
* *Contour.* A vertex is its cell and component. Where in (or near) its cell the
  error solve puts it is left out, so the surface is checked as topology, with
  volume counted in corners.

Every property states in its comment what it is about.

## 3. The runs

All are exhaustive over the instance given.

| Run | Instance | Properties |
|---|---|---|
| `arena` | 3 rays, 1 inline slot, 5 lists of up to 3 spans | `RegionsDisjoint`, `GarbageExact`, `StoreSpec`: any history of `set`s keeps regions disjoint and the garbage count exact, and refines `SpanStore` |
| `spans` | all pairs of valid sets on a line of eight cells under three operations; all lists of up to 3 of 11 loose spans, collected and pushed; `Eps` = 2 | `StructurallyValid`, `ResultIsTheSet`, `FacesOutward` |
| `parallel_cut` | 2 bundles of 3 rays, 3 motion lists, 2 stocks, 1 to 3 workers, 5 schedules, all hand-out orders under a chaos seed | `FieldIsSequential`, `TotalsAreSequential`, `Terminates`: field, counters and float volumes are those of one motion at a time; the cut ends |
| `commands` | sessions of three commands over files of 3 bundles of 2 rays: stock built, cut whole and in ranges, in place and aside, described, compared, extracted; batch sizes, threads and ceilings; writes that fail or end early, runs killed | `RunsAreInvisible`: at every run boundary field and counters are those of one motion at a time; `ResumedRunIsTheWhole`: a job cut in ranges is the job cut at once; `AnswersAreWhole`: nothing is answered from part of a file |
| `parse` | all programs of three of 24 blocks, of four of eleven; 17 programs with calls, and all of up to 5 of 7 pieces of calls and bodies; texts: every line of up to three items, comments over two lines, every two codes in one block | `NothingIsSilent`: a text is refused at a place in it or each line is the block a reader sees there; `ToolpathValid`, `OffsetsRecoverable`, `ReentryThroughAir`, `G92ReadsAsProgrammed`; `CallsAreLonghand`, `Terminates` |
| `job` | jobs of 1 and 2 setups over 4 cells, up to 2 of 3 motions each, a flip, fixtures, missing holders, unreadable programs, refused transforms | `HitsAreTheTrajectory`, `PassMeansGoodPart` |
| `verify` | two verifications and a diff over eight fields of three samples and five facets, five programs, twelve kinds of request, one rewrite of any input or report in between, two where both runs are of one clear part; chains, crossings and every triple of six samples through the forest | `TreesAreJoins`, `ClustersAreComponents`, `SpeaksForAll`, `PassIsEarned`, `NamesKeep`, `DiffTells` |
| `hosts` | a C host, two callers of a page, Python, `mem-estimate`; two programs, two libraries, eleven envelopes; the byte counts of the real layout | `PassIsRead`, `SuggestionFits`, `SuggestionIsFinest`, `BytesAreYours`, `RunsReturn` |
| `stock` | tetrahedra with corners on a 3 x 3 x 2 grid, all solids of four cubes, a hollow cube, 15 mistreated meshes, files cut short at any value or with one replaced; every pattern of up to five positions of stock on a 2 x 2 x 3 grid, every disagreement of three bundles on 1 x 1 x 3, half cells, old files, stretched cells; tools of every form drawn, refused, filed, edited in every field, tessellated; a box cut along lines, plunges, ramps, arcs, full circles and helices by tools with flat, round, sloped and stepped ends and a hole saw, by every method | `WeldIsCanonical`, `FieldIsTheSolid`, `FilesReadBack`, `CrossingsTurn`, `SurfaceIsClosed`, `CutIsTheSweep`, `LibraryReadsBack`, `ToolMeshIsSolid` |
| `cycle_depth` (violation) | the programs of `parse` without calls | `CycleDepthIsLonghand`: a cycle's bottom leaves out the tool length correction that a G1 to the same words has |
| `hosts_retracts` (violation) | `hosts` with a program that has an unmodelled retract | `RetractsAreUnchecked`: its collision gate passes |
| `plunge_walls` (violation) | one plunge of a flat end mill | `WallsFaceOut`: the walls it leaves are stored with a normal along Z |

### Why the bounds are enough

* `arena`: the decisions of `set` depend on one ray's old and new length, its
  spill flag and the heap's share of garbage. With three rays one can be
  rewritten between two spilled neighbours, and the compaction loop has a
  visited ray, a present and a future one. Lists of one length differ in every
  position. No bound is put on the heap; `MaxOffset` = 100 is never reached.
* `spans`: with `Eps` = 2, gaps of 1 and 2 fuse and 3 do not, a length of 1 is a
  sliver and 2 survives exactly. Loose spans include an empty and an inverted one,
  nested, touching and overlapping ones.
* `parallel_cut`, `commands`: with a chunk size of 2 the last chunk is short,
  with 1 there are as many chunks as rays, three workers over three chunks can
  finish in any order, and volumes of two significant bits make
  `(4 + 1) + 1 = 4` differ from `(1 + 1) + 4 = 6`. `PARALLEL_BATCH` is 2, so that lists
  are longer than it.
* `parse`: three blocks are one to set a mode, one to move, one to show what the
  mode did; the fourth, over the blocks that outlast each other, changes what the
  mode refers to in between. `MaxPecks` = 4 is reached and exceeded. `MaxDepth` = 2 is
  reached, exceeded by mutual recursion and by self-recursion, and repeats
  multiply (`L2` calling `L2`).
* `commands`: three commands are one to make a file, one to cut or spoil it, and one to
  read what is left; the ranges of a job of three segments meet at either seam.
* `job`: two setups are what it takes for one to depend on another; the three
  motions are one that opens a way, one that needs it, and one that passes close.
* `verify`: two trees of three meeting in the middle are the least that makes a
  path longer than one for `find` to halve; two defects, or a defect and stock
  left over, share a cell of the grid, so that names need their slot. One edit can
  fall between any two reads of either run; the second lets what a run could not check be waived in the report of the other.
* `hosts`: the block does not fit the ceiling at the default spacing and fits at
  the set one; `mem-estimate` is asked of boxes, rods and sheets, so that axes
  round differently and the search both doubles and gives up. Three calls suffice for one
  caller's run to fall between another's two reads of the counter, and the counter
  wraps after three. `Grain` = 10 makes a scale one digit; two doublings reach beyond
  what every feasible ask needs.
* `stock`: with one ray through the middle of a 3 x 3 x 2 grid a tetrahedron meets
  it in corners, along edges and in faces; four cubes make steps, pinches along an
  edge and prisms. 2 x 2 x 3 positions are the least at which two cells share a face whose
  corners both go round. `LEAF_SIZE` = 2 gives the hierarchy inner nodes. `MaxRays` bounds nothing the
  instances reach but the one that is meant to be refused.
  Tools have a radius of 10 on rays 8 apart, so that a ray passes at 0, at 6 (chord 8) or at 8
  (chord 6) from an axis and every crossing is whole; the tip moves by multiples of 8 in z,
  corners are 2, slopes 1. Arcs of radius 12 and of 3 with a slim tool of 5 pass outside and
  across their centre; ramps of (16, 0, -16) with a tolerance of 6 take two steps. The
  hole saw has a gap below its web, which is what the closed forms decline.

### Deadlock

`CHECK_DEADLOCK FALSE` is given where the system stops and nothing is left to
do: `job` after its report, `spans` when the call returns, `stock` and
`plunge_walls` when a command refuses or is done, `commands` when its
commands are used up, `hosts` and `hosts_retracts`
when the calls of the instance are used up. The other runs check for deadlock;
the modules that end have an explicit final stutter.

### Fairness

* `ParallelCut`: weak fairness of the calling thread and of each worker. The
  operating system schedules every runnable thread, no worker blocks except on
  the result list's lock, which is held for one `extend` only, and
  `thread::scope` joins them all.
* `Program`: weak fairness of the next step as a whole: a single thread
  runs on. Termination is then a property of the recursion and the loops.
* `Hosts`: weak fairness of `Returns` only, the steps of a run that was started.
  Whether a host calls at all, reads a result or frees it is up to the host, and
  nothing is assumed of it.
* The other modules are checked for safety only and assume no fairness.

## 4. What is proved

### The arena

`DexelProofs` proves, for every number of rays, inline capacity, compaction
ratio, set of spans and set of lists that satisfy `ArenaAssumption`:

| Theorem | Statement |
|---|---|
| `TypeCorrect` | `ArenaSpec /\ []HeapAddressable => []ArenaTypeOK` |
| `RegionsNeverOverlap` | `... => []RegionsDisjoint` |
| `SpillFlagsCorrect` | `... => []SpilledIffLong` |
| `GarbageCounterExact` | `... => []GarbageExact` |
| `ArenaImplementsStore` | `... => StoreSpec`, the refinement of `SpanStore` |

*Assumption.* `HeapAddressable` says that the heap holds fewer than `MaxOffset`
cells. The code panics when an offset exceeds `u32::MAX`, but at exactly
`u32::MAX` cells the next offset is a legal value that also means `NO_SPILL`, and
the ray would read as empty. That needs 2^32 spans; the theorems say that it is
the only way.

*The inductive invariant.* `RegionsDisjoint` and `GarbageExact` are not inductive
by themselves. While `compact` runs, rays the loop has passed live in the new
heap and the others in the old one, so `ArenaInv` adds what holds of the half-built
heap: the moved regions are disjoint (`MovedDisjoint`), they cover the new heap
(`FreshCovered`), and what was moved plus what is still to move never exceeds
the old heap (`FreshFits`). At `CompactDone` no ray is left unmoved: `MovedDisjoint` then becomes
`RegionsDisjoint`, `FreshCovered` becomes "no dead cells", that is `GarbageExact`
with the counter back at zero, and `FreshFits` keeps the new heap addressable.
Each action has its lemma; `ArenaNextInv` combines them. The
cardinality argument for the counter is in `CellsAdded`: giving up a region adds
exactly its length to the dead cells.

*The refinement.* A ray's `Contents` are read from the new heap once the loop
has passed it and by `get` otherwise. `SetRefines` shows each `set` to be
`Store!Set`; `CompactRayStutters` and `CompactDoneStutters` show that compaction
changes no list.

### The span algebra

`DexelProofs` proves, for every threshold and every call (`SpansAssumption`):

| Theorem | Statement | Invariant | Needs of the operands |
|---|---|---|---|
| `SpansTypeCorrect` | `Spec => []TypeOK` | `IInv` | nothing |
| `AlwaysStructurallyValid` | `Spec => []StructurallyValid` | `IInv` | nothing: the merge makes a valid set of any list |
| `UnreadNeverOverwritten` | `Spec => []UnreadIntact` | `IInv` | nothing |
| `ResultIsTheSetHolds` | `Spec => []ResultIsTheSet` | `IInv` and `CellsInv` | that those of a set operation are sets (`OperandsAssumption`) |
| `FacesOutwardHolds` | `Spec => []FacesOutward` | `IInv`, `CellsInv` at the start, `FacesInv` | the same, and that their bounds carry surfaces that face out (`FacesAssumption`) |

Both assumptions hold of what the operations themselves return, by the second and the last
theorem: a result may be the next call's operand. A single span, which is what `complement_within` and
`clipped_to` pass, meets the first as it stands.

*In place.* The inductive part of `IInv` is what the merge knows halfway. The list it rewrites in
place has a kept front, valid, without slivers and with wide gaps, the last of
them to the current span (`KeptInv`), and an unread rest, valid and ascending from
the current span on, behind which the writer stays (`UnreadInv`). Dropping a
sliver keeps the gap because the next span starts no earlier than the
dropped one: this is where the sort is needed. `MergeEndInv` turns `KeptInv` into
`StructurallyValid`; the pushes have the property itself as their invariant.

*The right set.* `CellsInv` says at every stage which cells the list stands for.

* In the scan, everything taken lies before everything that comes and a span is open exactly inside the
  result (`ScanPlace`); what is out or open is the operation on the cells the scan is past, and
  nothing is out that is not (`ScanCells`). One lemma about a stream, `StreamOn`, says that it advances past
  the endpoint it stands at and no other, which covers the tie. `CoversHere` is why between two endpoints a
  stream is inside exactly where its operand has material. `ScanComplete` adds the early exit: when an
  intersection has lost one stream, the other's remaining cells mean nothing.
* After the sort the list covers what it covered (`OrdersCover`: an order of the valid spans hits each of
  them, being an injection between sets of the same size).
* In the merge (`MergeCells`) the current span lies within the healed material, begins and ends on
  material, and all other material is unread or further before it than a gap heals. So when the next
  span is too far away, the current one is a whole run of the healed set (`WideGap`), kept exactly if
  it is no sliver (`RunSurvives`), and everything before the next span is final (`CurrentSettled`).

*The faces.* `FacesInv` says that the spans in the list, the open one and the current one face out.
`NormalFaces` is the case analysis over operations: where the result changes, a's endpoint changes it the way a
itself changes, and an endpoint of b alone changes it the other way exactly in a difference, where the normal is
turned round. That an endpoint of b alone is nowhere a bound of a (`NoBoundOfA`) is again the order
of the streams.

### The forest

`VerifyProofs` proves, for any number of slots and any history of unions:
`ForestTypeCorrect`; `PathsEnd`, that is `[]RanksRise`, every parent that is not
itself has a higher rank, so that `find` ends; and `TreesAreClasses`,
`[]TreesAreJoins`: two slots are in one tree exactly when the unions made so far
join them. Trees and joins are both stated without recursion, as the pairs no
closed set of slots separates (`CutsNoTree`, `CutsNoPair`). The inductive
invariant adds where the walk stands: the node in hand and its root-to-be are in
one tree. Halving replaces an edge by the edge to the grandparent and changes no
closed set; `Link` adds one edge between two roots, and with it exactly the pair
that was asked for.

### Clusters and the verdict

Over the forest `VerifyProofs` proves `ClustersAreComponentsHolds`, `SpeaksForAllHolds`, `PassIsEarnedHolds`,
`DiffTellsHolds` and `NamesKeepHolds` (with `NameStaysHolds`, its first part), of `VerifySpec`:
every field, request, program and history of edits that satisfies the assumptions. Those are `IsField` (a field
is a list of samples and a list of facets, no longer than the slots of a forest, which in the code are a `u32`),
`MayHold` (what a file may be rewritten to is of the kind the file is for), that radius and tolerance are not
negative and the radius not zero, and that `None` is none of the values it stands beside.

The argument for the components goes the way of the code. Two places within the radius are in neighbouring
cells, at negative coordinates too (`NearIsNeighbour`, from what `\div` is), so `United`, which the loop over the
grid yields, is every pair that is alike (`AlikeIsUnited`). During the loop, what is united already and what is still in
`edges` make up `United` (`JoinInv`), so after it the trees are cut by exactly the sets that cut an alike pair,
by `TreesAreJoins`. The forest has a map from slots to roots that halving leaves alone
(`RootMap`, `HalveKeepsRoots`), and a group gathered so far is the slots below the next with that root
(`GatherInv`). Folding and sorting permute the groups and change none (`SortKeeps`), so the clusters are
the trees, each once, and of one class (`OneClass`). `AnswerInv` keeps what was returned while the second pass runs,
and while the rest of the run reads it.

The verdict's invariant (`PInv`) adds two facts about a run under way and one about those that are over. The
findings have a gouge if and only if some sample of the field is deeper than the tolerance: by the
partition no such sample is missing from the clusters, and a cluster of class gouge has a member, which is one
(`GougesFound`). The collision gate is `pass` if and only if a replay was made and met nothing (`CollideTells`, from
`AssembleTells`: grouping and sorting hits never merges a collision into a near miss). And every result says so
of the field and replay it was given for, with no report on disk of a turn that failed or is still to come.

What a cluster says of itself goes through the same fold. Its worst is the depth of `Deepest`, its bounds the
extremes of its members (`Extremes`), and its probes are looked at as `probe_points` makes them: a stride over the members, which takes in
every one when there are no more than the stride's divisor (`Strides`), behind the deepest; of those the
first of every value, in order (`FirstsInOrder`), which are no more than there are places (`NoMoreThanPlaces`), so
cutting the list off at `PROBES` takes nothing from a small cluster (`ProbesSpeak`). The order worst
first is what sorting leaves (`SortKeeps`).

The comparison rests on names. A list is `Named` when the id of each finding is its class, its cell and how many of
both come before it; two findings of one class and cell count differently, so no two have one id
(`NamedApart`), and one that is alone in its cell has slot 0, in this run as in any other (`AloneKeepsName`).
`identify` makes such a list, attribution changes motions only. `QInv` adds to `PInv` that the
findings of a run under way are named (`FoundInv`), that every completed run has a report whose gates are words this build
writes and whose exit code is their verdict, and that its file still holds those findings, with gates that are
what they were or waived (`ReportsInv`); and that what was told is the difference of those two files (`ToldInv`). So an empty
difference means the same ids and no finding deepened, and as ids are names, the same depths
(`NothingDiffers`); a waived gate reads as unchecked, so nothing reads as a pass that was not one (`ReadBack`).

That names keep from run to run needs more: that two runs *compute the same*, though one takes its steps at another time and
over other files. `RInv` adds to `QInv` what a run has computed, as a function of its inputs alone. The forest after k unions is
`Grown(n, E)[k]`, n singletons and the first k pairs of E joined by `UnionOf`: halving, of which there can be more or less,
moves no root (`GrowInv`). A group lists its slots in ascending order (`AscendInv`), so the groups are `TreesIn` of what
was joined (`GatheredAre`), what was folded is `FoldedIn(field, of)` (`FoldedIs`), and what is identified `FoundIn(field)`
(`Whole`, `FieldInv`). Runs of one request over untouched files then hold the same at every phase
(`SameInv`), and write the same report (`RunsAgree`).

For the gouges and the excess, of which depths may have changed, only places and classes of what is joined enter the
trees and the cells (`SameLie`, `SameTrees`, `SameFolds`); depths enter the order the clusters are listed in, and that is what a name must
not depend on. It does not: ids of one class in one cell are numbered without a gap, so which there are follows from
how many findings there are (`IdsByTally`), and sorting and appending keep the number (`SortCounts`,
`ConcatCounts`). What was not looked at has no depth either, so it cannot be said to have changed (`UnseenAreBlank`).

Two properties were corrected on the way. `DiffTells` spoke of the exit codes of the runs
where it has to speak of what their files read as: with two rewrites, a gate that one run could not check
can be waived in the report of the other, and both read alike. `NamesKeep` took a finding for the same one when its place, rounded, agreed; a finding's place is now
its centroid, a sum over a count, and what the comparison may say is tied to where the samples lie and what they cover.

### Parallel cutting

`CuttingProofs` proves `InvHolds`, `FieldIsSequentialHolds`, `EachChunkOnceHolds` and `TotalsAreSequentialHolds`, for every
field, motion list, number of workers, chunk size, schedule and hand-out order that satisfy
`CuttingAssumption` and `ParallelAssumption`: whatever the threads do, every ray of every bundle is
at every moment what the motions so far leave of it one at a time, and so are, at the end, the counters and, bit
for bit, the volumes.

The inductive invariant of the field is `TypeOK /\ Sharing /\ FieldIsSequential`. `Sharing` is about the bundle
being cut. The order in which chunks are handed out has each chunk once. Without workers the result
list is `Complete`: every chunk of the bundle, once. With workers there is a `Ledger`: every chunk
claimed so far is being computed by one worker, kept by one worker or handed in, exactly one of
these, and what is kept or handed in is what cutting its rays in sequence gives; and nobody leaves before the
counter has passed the last chunk (`Leaving`). When all are joined the ledger is `Complete`, and sorting by
first ray and writing back replaces every ray of the bundle by its cut. That a chunk's
result is the sequential one (`ChunkCuts`) goes by induction over the motions of a run and the rays of a
chunk.

The totals need the order as well, since rounded addition does not associate. Added to the invariant, `Totalled` says
that each counter is the size of a set, the offers (bundle, ray, motion) of the bundles and runs so far that count for it, and that
each motion's volume is what adding up its rays so far, one after another, gives. A counter of a chunk is the size of
its part of that set, and the parts are disjoint. For the volumes: starts of chunks rise strictly, so the
sorted list is chunks 0, 1, ... (`ordered`); the contributions to one motion, taken from the flattened list in
order (`Replayed`, which is what the counting sort of the code amounts to), are those of the bundle's rays, ascending.

### The cutting loop of `run`

`RunsAreInvisibleHolds` is about every motion list, stock, batch size, ceiling and number of threads. In the
middle of a run the field is that of no prefix of the list: rays the traversal has passed have had the whole run, the
others none of it. `Driven` says for each ray how far it is (`CutTo`) and that it is what those motions leave
of it (`FieldFollows`), that the counters are the sizes of the sets of offers made so far (`CountersFollow`), and that on one
thread each motion's volume is the sum over the rays passed (`VolumesFollow`). One iteration (`CutRay`) moves one ray from the start of the
run to its end; what a run does to a ray is what its part of the whole list does
(`PartLeaves`, `PartCounts`). A step at a boundary moves nothing but the boundary. `DriverAssumption` says that a
bundle has a ray: the code makes every count at least one.

### Sessions of commands

`ResumedRunIsTheWholeHolds` and `AnswersAreWholeHolds` are about every set of files, shapes, tools, programs
and commands that satisfies `SessionAssumption`: that commands are what clap lets through (`WellFormed`), that files are at
first of a kind there is (`FirstFiles`), and that shapes are closed under what the code makes of them - the surface of
a field, and what a text mesh is cut short to. The invariant `SessionOK` has four parts.

* Files are known (`KnownFile`): a field is `Remade` from what it was built from by the cuts made
  since, a mesh has a shape, a program segments. A write that ends early leaves a file of the same kind (`TornIsWritable`).
* `Driven`, for the `run` in progress.
* That run cuts what it was asked for (`RunAsAsked`). `RunIsReplay` is the seam: selecting a range, resolving every
  tool and flattening what the segments are cut as is what `Replay` asks of the whole program with nothing
  outside the range (`SelectedBetween`, `FlattenPadded`). When it ends, `Driven` gives the field, and one more cut appended
  is one more step of `Remade` (`RemadeOfAppend`).
* The last answer was whole. Every verb is `Honest`, one lemma for each group of verbs: it writes what can be written, and
  says yes - or no, where no is an answer - only after every file it was given was read as what it should be (`HasIsSound`,
  `LoadIsSound`, `ArgumentsAreInputs`).

### Jobs

`JobProofs` proves `InvHolds`, `HitsAreTheTrajectoryHolds` and `PassMeansGoodPartHolds` for every job
under `JobAssumption`, with any number of setups, motions and fixtures. The invariant says that the counters
point into the job (`Place`); that a finished setup was checked if and only if it could be
(`Refusals`); and, as long as every setup so far was checked, that the field and the hits collected are
those of the machine, which carries, moves and cuts, at this setup and motion (`Lockstep`). A
setup that was not checked leaves the field behind the machine, which is why `Lockstep` ends there and
why the pass needs every setup checked. The machine's stock is a recursive function; that it has
a solution is proved (`MachineStockSteps`), not assumed.

The gouge gate looks at the bounds of what is left, each against the nominal ahead of it. `GougesAreCuts`
shows what that amounts to: it finds nothing exactly if no piece of the nominal is in part there and in part gone
(`NotCutInto`). A piece that is gone altogether leaves no bound inside the nominal, and a job passes
without it; `PassMeansGoodPart` says no more than that.

### The pipeline and its hosts

`HostsProofs` proves six theorems, for any layout of bytes, any programs, tools and stocks
(`BudgetAssumption`, `FineAssumption`, `HostsAssumption`):

| Theorem | Statement |
|---|---|
| `SuggestionsFit` | `BudgetSpec => []SuggestionFits` |
| `RunsSuggestWhatFits` | `HostsSpec => []SuggestionFits` |
| `SuggestionsAreFinest` | `BudgetSpec => []SuggestionIsFinest` |
| `RunsSuggestTheFinest` | `HostsSpec => []SuggestionIsFinest` |
| `PassIsReadHolds` | `HostsSpec => []PassIsRead` |
| `BytesAreYoursHolds` | `HostsSpec => []BytesAreYours` |

The bisection keeps that `hi`, rounded the way it will be named, fits (`SearchOK`); naming rounds
each axis by itself, and the prediction falls as a spacing grows (`CoarserNeedsNoMore`). That nothing finer would have done
is a second invariant (`SearchKnows`): `hi` does not fit while doubling and `lo` does not while halving, and the
two ends lie no further apart than `Power2[Halvings]` halved as often as was tried. They meet because of
`FineAssumption`, that the halvings close what the doublings opened. The code has 40 of each, which is exact
in the model's unit; on a grid `2^g` times finer it covers what is found within `40 - g` doublings. `PipelineOK`
says what has been established at each stage, so that a gate that passes at the last was judged over a field that
was cut and hits that were looked for; `HeldOK` says that what a host holds is the outcome of a
run that is over, with its pass earned, or null. The collisions of a report are sorted, numbered and thinned; that
there is one among them exactly when there was one among the hits is `AssembleTells`, which rests on what
sorting by a key gives (`InOrderProperties`).

`BytesAreYours` needs more: `Counted`, that at most as many results were published as calls were made, less those
calls still out, and that the counter is that number modulo `GenerationEnd`. Its one further
assumption is `FewerThanWrap`: a page makes no more calls than the counter counts, which is 2^32 in the code.
With more the theorem is false: a caller that is overtaken by exactly 2^32 others finds the counter where
it expects it.

### Programs

`ProgramProofs` proves five theorems, for every program, set of blocks, tool library, increment, clearance,
block-skip setting and depth limit (`ProgramAssumption`, `ResolverAssumption`), given as blocks or as a
text (`ParseAssumption`: the blocks of a text are a program):

| Theorem | Statement |
|---|---|
| `CallsBounded` | `ProgramSpec \/ ParseSpec => []DepthBounded` |
| `ToolpathValidHolds` | `... => []ToolpathValid` |
| `OffsetsRecoverableHolds` | `... => []OffsetsRecoverable` |
| `ReentryThroughAirHolds` | `... => []ReentryThroughAir` |
| `G92ReadsAsProgrammedHolds` | `... => G92ReadsAsProgrammed` |

*Assumptions.* Programs are lists of blocks, and `IsBlock` says what `assemble` makes of a line: numbers
where numbers are due, a tool length code of its group, a count that is a natural number, a list of M codes.
Lengths of tools are numbers. Nothing is assumed of the order or the combination of words.

*Calls.* The inductive invariant is `DepthBounded` with the fact that `stack` is a sequence; what its
frames hold does not matter. The bound is one more than the limit because the main program is a call too.

*The toolpath.* None of the invariants is inductive alone; `ProgramInv` is the invariant of all of them. The
calls stay in the program (`IsRanges`), so that every block executed is one of its blocks. Of the
interpreter's state `ParseInv` says:

* `Travel`: the segments lead from the origin to the position, every move that cuts has a feed, and no re-entry of
  a cycle goes below the cut. That an expansion begins with two rapids, so that what looks like a re-entry never
  spans two firings, is what makes this an invariant of the list and not of a cycle (`ExpandShape`).
  What a cycle leaves after each repeat is again such a list (`CycleOn`).
* `Timed`: the events are in order and none lies beyond the segments.
* the events select, at the place of the next segment, the offset the interpreter has in force, and `Known`:
  the epochs of each offset begin in order, and the last of them has the value in force. An event or an epoch of a block
  begins at the present segment or after, so what a reader finds for an earlier one
  stays (`Recorded`, `ReadStays`), and what he finds for the new ones is what they were made under (`Parsed`).

There is one lemma for each way through `execute` (`SetOffsetParses`, `ShiftParses`, `NoMotionParses`,
`ReturnParses`, `MoveParses`, `CycleParses`).

*What the proof changed.* `ReentryThroughAir` used to be about every rapid two moves after a feed. The
invariant would not go through, and TLC found why: under G98 a cycle retracts at its end to the initial level, and nothing
makes that level lie above the hole, so the last retract can end below the last feed. That is the level
the program asked for and not a re-entry. The property now says what a re-entry is: a rapid that follows the rapid out of the hole.

### Welding

`WeldIsCanonicalHolds` is about every soup that meets `MeshesAssumption`: however often a corner is named, in
whatever order and each time less than half the lattice from where it is, what is welded is the mesh of the
true corners, numbered by where they are. The half is the limit `weld.rs:55-70` admits; a corner halfway between two
points of the lattice has no right answer.

The invariant says only that a mesh is the welded soup; the work is in what `weld` returns. Such a corner rounds to
its point of the lattice, towards either side and below zero (`Quantised`), so the keys of a soup are the keys of its
facets. `RanksNumber` is about any finite set of keys: counting for each how many come before it numbers the set
from one upwards without gap or repetition, and ascending, since the lexicographic order is a strict total one. So
each corner finds its own number (`WeldStands`).

### The tool library

`LibraryReadsBackHolds` is about every set of drawings, edits and programs. A library passes four stages: it is drawn,
written, changed by somebody, read. `LibraryInv` says what is known at each: after the drawing the document is one
this build writes and accepts (`IsLibrary`), after an edit only that it is a JSON document, and after reading that
it writes back as what was read.

* *What a reader accepts is what is written.* Each reader finds no fault exactly when the object has the fields, of
  the type and the words asked for, and no others (`ElementChecked`, `ToolChecked`, `LibraryChecked`); then reading and
  writing again changes nothing but the description (`ElementReadsBack`, `ToolReadsBack`, `FileReadsBack`). That no field
  is passed over rests on `known_keys`.
* *What is drawn is accepted.* By the type of each drawing, every piece of a chain is an element with whole
  coordinates (`LineTyped`, `ArcTyped`, `StackTyped`, one case per form in `FlutesTyped`), so that the file of a sound
  library passes every check of the reader (`FileIsSpelled`), the order of the checks included: the writer's word for
  a role or a direction is the one the reader knows (`RolesApart`).
* *An edit stays a document* (`EditedIsDocument`): a field replaced, or added, at the root, in a tool or in an element.

What is assumed of the constants: `KindsAssumption`, that a source is a mesh, a field without tools, or a library; `ToolsAssumption`,
that a drawing has the dimensions of its form, as numbers, and that an edit puts an array where an array is
read, or nothing; and `NoneAssumption`, that `None`, the mark of a value of the wrong type, is no
value that is written. `Milling` states them and every run checks them of its instance.

### Files

`FilesReadBackHolds` (`MillingProofs`): a file is read as the field that was written, normals apart in a version that
has none; one cut short anywhere, or with another magic or version, as no field; and one nobody damaged is
refused only for what it holds. A file has no checksum: with another coordinate in it, it is another field, to
the code and to the model.

* *A field stands in its file.* `Stands(p, at, s)` says that as far as file `p` goes, the values of `s` are there from
  `at` on. A list of lists that stands somewhere has each of its lists standing behind the others (`StandsBoth`,
  `StandsEach`).
* *A reader reads what stands.* `Reading(p, at, n, got)` is what a reader of `n` values that stand at `at` answers: `got` and
  the next place when the file goes that far, and failure when it does not. Reading in turn composes
  (`ReadsOneMore`, `ReadInTurn`): the records of a ray (`SpansRead`), the rays of a bundle, whose totals the reader
  recounts (`RaysRead`, `ArenaCounts`), a bundle behind its header (`FieldIsRead`), three bundles (`TriIsRead`).
  One lemma gives both halves, since a head of a file is a file in which the whole stands and that ends too soon.
  A header with another magic or version is refused before anything is read (`FieldReadsAs`, `TriReadsAs`).
* *What is written is a field.* `SpansOf` makes span lists of any crossings, of finitely many triangles
  (`SpansOfTyped`, `CastTyped`), a lattice has one ray per cell (`AnisotropicTyped`), and a build that ends has a field
  on every axis it was asked for.
* `FileInv` says what is known at each stage: which axes are built, that what is built or given is a field,
  then that the file `ReadsAs` what was written or was spoilt.

* *What a cut leaves is a field.* `CutLeavesField`: what the tool sweeps of a ray ends (`SweptEnds`), whatever its form,
  method and motion, so it has finitely many bounds with positive denominators, and what the difference leaves is an
  ascending list of spans with the same (`RemainingIsList`). `ToolsInv` says that the tools at hand come from a library
  that was read, whose elements are of a kind the sweep knows (`ReadIsEquipped`, from `LibraryInv`).

The theorem supposes two things. `NoneIsNoBundle`: the mark of a missing bundle is not a record, which TLC takes for granted of
a model value. `DamagesSpoil`, of a file that was damaged: it was cut short, or has another magic or another version. The run also
replaces flags, axes and counts; that the recount notices depends on what the rays hold, and is only
checked. Of the constants: `FieldsAssumption`, that a given field is one and that a version that knows one spacing has one,
and that the axes asked for are some of the three; `MotionsAssumption`, `KindsAssumption` and `ToolsAssumption`, of motions and drawings.

### Induction

What the proofs above need of induction is in `SharedLemmas`: that a set of naturals with zero and the
successors of its members has them all, that a bounded recursion has a solution
(`IterationExists`), that tuples of integers are totally ordered, and what `InOrder` returns. They are
stated with sets and functions, not operators, as the prover cannot instantiate an operator parameter.

### Checked by TLC only

`CallsAreLonghand` of `Program`, whose reference is a nested recursion over calls; `NothingIsSilent` of `Parse`,
whose lexer is a recursion over characters; and of `Stock` and `Milling` what is about rays, cells and sweeps
(`FieldIsTheSolid`, `CrossingsTurn`, `SurfaceIsClosed`, `CutIsTheSweep`, `ToolMeshIsSolid`), functions of a mesh, a
field or a tool that end in sums and searches over data. Liveness under fairness (`Terminates`, `RunsReturn`) is outside
what the prover handles.

## 5. Where the code and its documentation disagree

1. *Depth of a cycle* (`gcode/resolve.rs:893`, run `cycle_depth`). `cycle_params`
   applies offset and shift but not the tool length correction that `target`
   applies, so under G43 with another tool's H a hole ends elsewhere than a
   G1 to the same Z.
2. *Unmodelled retracts* (`gcode/pipeline.rs:209`, run `hosts_retracts`). The shared
   pipeline tells the replay of zero of them; every other caller passes the
   resolver's count. Through the ABI, Python and the browser such a program
   passes a collision gate nobody could check.
3. *Walls of a plunge* (`core/sweep/plunge.rs:280`, run `plunge_walls`). The moving
   maximum keeps the first point that reaches it, at a flat end the rim where the tip disc
   ends, and the nearest element there is the disc. Every wall a plunge leaves on the X and Y rays is
   stored with a normal along Z, which 88-93 and `tests/deviation_ladder.rs:301-303` rule out.

Noticed while modelling, without a run of their own.

*The ring* (`core/contour/mod.rs:337-347`). The ring of virtual corners stands one
X-bundle spacing outside on every axis. With `--res-xyz` the cells of another axis
can be twice as long; the ring is then inside the stock and the surface open.
`SurfaceIsClosed` holds exactly up to there (`RingClears`).

*Tools and sweeps.* Where an arc ends and a rising segment begins, `crossings_at`
counts both ends, so that at exactly that height points inside a tool count as outside
(`core/tool/properties.rs:166-205`, whose comment promises one count). A level move takes the
prism's section without asking for radial convexity, so an annular cutter leaves material that
`core/sweep/plunge.rs:56-59` says cannot be; a level arc of such a tool is planned with no steps and falls
through to one, with a reported bound of zero. A chain that crosses itself in a vertex or retraces a
neighbour is not found (`core/tool/selfintersect.rs:210-264`); the disc on top is not checked against the chain, nor is
the chain's orientation. Clockwise arcs are not tessellated inscribed. A tool's digest omits its
number; a description of the wrong type reads as none, of duplicate keys the last counts.
`ArcMove::swept_bounds` samples 64 points and can be a little small, where its comment says large.

*Interpreter.* M2 does not stop a program and M20 does: keys are codes times ten
and `has_m(200)` is asked (`gcode/resolve.rs:1122`); G28.1 and G30.1 are accepted (`gcode/block.rs:94-96`) and do nothing; an M98 without P
is passed over without a word (1133); an M30 in a called body ends the body
only; flow words of a block marked `/` are obeyed though the block is skipped
(1132 against 90); G10 L20 ignores an active G92 (1014); a cycle's initial
level survives G0 or G1 without G80; cycle levels are stored in machine
coordinates, so a modal cycle after G55 keeps the old frame;
`chip_break_clearance = 0` omits the oscillation without counting it; a block
with axis words after G80 is passed over (801), which `gcode/modal.rs:134-135` calls an error;
markers of foreign dialects are also looked for inside comments.

*Cutting and jobs.* The volume of a threaded `run` depends on batch size and tool
changes, since per-run totals are added up (`cli/run.rs:406`; `README.md:122-125` promises it bit for
bit). A setup whose replay is refused has not been cut, yet the next one starts from that field
(`cli/job.rs:460`); a job in which one setup failed and another is unchecked reports its
collision gate as unchecked (593). A heap of exactly `u32::MAX` cells means
`NO_SPILL` (`core/dexel/arena.rs:303`). A `push_merge` out of order drops slivers
(`core/spans.rs:553`), though 526-528 say it does not.

*Findings.* The manifest promises identical findings to two runs that share it
(`cli/report.rs:143`) but omits the tool, the units, the stock field and the fixtures, and
inputs are read again to be hashed. Names of two findings in one cell can swap between runs.
`load_report` loses that a collision was the cutter with a fixture; `diff` calls reports equal that differ in
boundaries, areas or a gate's reason. `compare` judges only where the field has spans and
does not ask for `unsampled`, as `verify` does, so a part, or a piece of one, cut away entirely has no gouge. The gate of a job
is that comparison (`cli/job.rs:509-523`): as long as the bounds of stock and nominal meet, a piece of the nominal that is
missing altogether passes. `Job` models it so (`Gouges`).

*Budget and bindings.* "Preserving the ratio" (`core/budget.rs:516`) rounds each axis by itself. The
page's default resolution is 0.6 and the ABI's and Python's 0.5.

*Fields and surfaces.* Version 1 files are accepted though the header comment
says otherwise (`core/dexel/io.rs:238`); files written one behind another are read as the first;
spans are not validated on reading. A tangential touch is stored as a span
of no length (`core/dexel/field.rs:333`). `dexel build` never validates the mesh,
though 344-346 say it has been; two overlapping shells count as solid; a step of axis-aligned
stock on a ray is refused as coplanar, though `core/dexel/lattice.rs:19` calls that unreachable. An
anisotropic field makes `dexel build` panic after writing, and `dexel stat` and `run` panic on
reading it (`lattice.spacing()`). `tests/contour_manifold.rs:4` promises no non-manifold output at all; a
diagonal pinch whose two cells both go round gives an edge used four times, and
`PinchIsDiagonal` in `SurfaceIsClosed` shows it is the only way.

*Command line.* `path bounds` looks tools up by id where numbers are meant; `mesh` verbs (`cli/main.rs:313-338`) and
`selftest --out` exit 1 when they could not run, where 302-308 promise 2, and `path lint` answers 1 for what it cannot
read; the stock is overwritten in place, so a write cut short leaves neither field; any text reads as an OBJ mesh of
nothing; the end of `--segment-range` is clamped without a word; an unclosed comment swallows the lines after it with
one warning; `extract` writes
the mesh even when it is not sound; a text mesh cut short can be read as a smaller one.

## 6. Not modelled, and the plan

* *Characters and numbers of NC text, arcs, comments as events.* Which characters make an item of `Parse`, how a number
  rounds, and the geometry of an arc are data of the models; the interpreter's own warnings are counts.
* *Mesh files and units.* Formats that end in a soup of facets; `Stock` starts from the soup.
* *Deviation, convergence, numeric foundations.* Measurement and arithmetic on reals without control to
  speak of. What they compute is data of the models: the samples of a field, what material lacks of a shape.
* *Toolpath IR.* Data types; what its validation accepts is `ToolpathValid`.
* *Planted crash cases, self tests, golden values.* Tests, and their data.
