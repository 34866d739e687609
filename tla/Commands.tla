------------------------------ MODULE Commands ------------------------------
(* A session at the command line: one command after another over the same files, *)
(* `run` in the steps of CutDriver, the other verbs as Verbs has them. A command *)
(* may fail to write what it is asked to, or be killed.                          *)
(*                                                                               *)
(* A segment of a program has its tool number, and by the profile that cuts it   *)
(* one motion, or the chords an arc is linearised to; an arc without data is     *)
(* `lost`.                                                                       *)
EXTENDS CutDriver, Verbs

CONSTANTS
  Paths,           \* where files may be
  Shapes,          \* what there is to find out about meshes
  Cutters,         \* the ids of the profiles of tools
  Invocations,     \* the commands that may be given
  Disks,           \* the files there are at first
  MaxInvocations   \* bound: how many commands a session has

MeshVerbs == {"mesh inspect", "mesh bvh", "mesh validate", "mesh convert", "mesh raycast",
              "mesh parity"}
PathVerbs == {"path parse", "path dump", "path expand", "path bounds"}
ToolVerbs == {"tool describe", "tool profile", "tool convergence", "tool mesh", "tool raycast",
              "tool parity"}
CompareVerbs == {"compare", "deviation-stat"}
FieldVerbs == {"dexel stat", "dexel volume", "dexel slice", "cut-stat", "extract"}
MeasureVerbs == {"dexel deviation", "dexel coverage"}
OwnVerbs == {"dexel convergence", "roots solve", "selftest", "version"}
VerbNames == MeshVerbs \cup PathVerbs \cup ToolVerbs \cup CompareVerbs \cup FieldVerbs
               \cup MeasureVerbs \cup OwnVerbs
               \cup {"dexel build", "run", "collide", "path lint", "mem-estimate"}

\* The arguments that are files, by verb: those it must be given, and those it may.
FileKeys == {"file", "mesh", "nominal", "stock", "path", "tools"}
Must(verb) ==
  CASE verb \in MeshVerbs \cup FieldVerbs -> {"file"}
    [] verb \in MeasureVerbs -> {"file", "mesh"}
    [] verb \in CompareVerbs -> {"file", "nominal"}
    [] verb \in PathVerbs \cup {"path lint"} -> {"path"}
    [] verb \in {"dexel build", "mem-estimate"} -> {"mesh"}
    [] verb = "run" -> {"file", "path"}
    [] verb = "collide" -> {"file", "path", "tools"}
    [] OTHER -> {}
May(verb) ==
  CASE verb \in PathVerbs \cup ToolVerbs \cup {"path lint", "run"} -> {"tools"}
    [] verb \in CompareVerbs -> {"stock"}
    [] verb = "mem-estimate" -> {"path"}
    [] OTHER -> {}

\* What clap lets through. A tool is defined or looked up in a library, not both;
\* a range is not empty.
WellFormed(c) ==
  /\ c.verb \in VerbNames
  /\ DOMAIN c \cap FileKeys = Must(c.verb) \cup May(c.verb)
  /\ \A k \in Must(c.verb) : c[k] \in Paths
  /\ \A k \in May(c.verb) : c[k] \in Paths \cup {None}
  /\ "fixtures" \in DOMAIN c <=> c.verb = "collide"
  /\ c.verb = "collide" => c.fixtures \subseteq Paths
  /\ c.verb \in ToolVerbs =>
       c.define = None \/ (c.tools = None /\ (c.define = "bad" \/ c.define.mesh \in Shapes))
  /\ c.verb = "run" => /\ c.batch_size \in Nat /\ c.chords \in BOOLEAN
                       /\ c.range = None \/ (c.range \in Nat \X Nat /\ c.range[1] < c.range[2])

Segments == [tool : Nat, lost : BOOLEAN, native : [Cutters -> Motions],
             chords : [Cutters -> Seq(Motions)] \cup {None}]
ToolKinds == [id : STRING, number : Nat, holder : BOOLEAN,
              profile : [id : Cutters, solid : BOOLEAN, mesh : Shapes, leaks : BOOLEAN]]

\* A file nothing has been done to yet.
FirstFiles ==
  {None}
    \cup {file \in [kind : {"field"}, whole : BOOLEAN, axes : SUBSET AxisOf,
                    spacing : [AxisOf -> Nat], cells : Fields, from : Fields, cuts : {<<>>}] :
            file.from = file.cells}
    \cup [kind : {"mesh"}, whole : BOOLEAN, form : {"stl", "stla", "obj", "3mf"}, shape : Shapes]
    \cup [kind : {"program"}, whole : BOOLEAN, segments : Seq(Segments), parses : BOOLEAN,
          strictly : BOOLEAN, retracts : BOOLEAN, hits : BOOLEAN]
    \cup [kind : {"library"}, whole : BOOLEAN, tools : SUBSET ToolKinds]
    \cup [kind : {"picture", "report", "text"}, whole : BOOLEAN]

ASSUME SessionAssumption ==
  /\ NoShape \in Shapes
  /\ \A cells \in Fields : Surface(cells) \in Shapes
  /\ \A shape \in Shapes : shape.cells \in Fields /\ shape.pieces \subseteq Shapes
  /\ Disks \subseteq [Paths -> FirstFiles]
  /\ \A c \in Invocations : c # None /\ WellFormed(c)

VARIABLES
  disk,    \* the files, by path
  doing,   \* the `run` in progress, or None
  last,    \* the command that ended last: [verb, exit, sound]
  left     \* how many commands may still be given

sessionVars == <<disk, doing, last, left>>
allVars == <<driverVars, sessionVars>>

Idle ==
  /\ motions = <<>> /\ stock = None /\ args = None /\ field = None /\ lo = 1
  /\ at = <<1, 0>> /\ removed = <<>> /\ totals = None /\ pc = "idle"

SessionInit ==
  /\ Idle
  /\ disk \in Disks
  /\ doing = None /\ last = None /\ left = MaxInvocations
-----------------------------------------------------------------------------
\* The files a command is given.
Inputs(c) ==
  {disk[p] : p \in ({c[k] : k \in DOMAIN c \cap FileKeys}
                      \cup (IF "fixtures" \in DOMAIN c THEN c.fixtures ELSE {})) \ {None}}

\* Of a binary file the length is known; a text mesh that ends between two
\* facets is a mesh.
Binary(file) == file.kind = "field" \/ (file.kind = "mesh" /\ file.form = "stl")
Sound(file) == file # None /\ (Binary(file) => file.whole)

Ended(c, exit) ==
  last' = [verb |-> c.verb, exit |-> exit, sound |-> \A file \in Inputs(c) : Sound(file)]

\* What a write leaves that ends early. A text mesh ends between two facets.
Torn(content) ==
  IF content.kind = "mesh" /\ content.form # "stl"
  THEN {[content EXCEPT !.whole = FALSE, !.shape = piece] : piece \in content.shape.pieces}
  ELSE {[content EXCEPT !.whole = FALSE]}

\* A mesh verb or a selftest that cannot write says 1.
CannotWrite(c) == IF c.verb \in {"mesh convert", "selftest"} THEN 1 ELSE 2

\* std::fs::write replaces the file at once or byte by byte: it is written, it
\* cannot be opened, or the write or the program ends in the middle of it.
Deliver(c, answer) ==
  \/ /\ disk' = IF answer.out = None THEN disk ELSE [disk EXCEPT ![c.out.path] = answer.out]
     /\ Ended(c, answer.exit)
  \/ /\ answer.out # None
     /\ Ended(c, CannotWrite(c)) /\ UNCHANGED disk
  \/ /\ answer.out # None
     /\ \E rest \in Torn(answer.out), exit \in {CannotWrite(c), -1} :
          disk' = [disk EXCEPT ![c.out.path] = rest] /\ Ended(c, exit)

\* main.rs: every verb's answer goes through one place, mesh verbs through another.
Answer(c) ==
  CASE c.verb = "dexel build" -> dexel_build(disk, c)
    [] c.verb = "dexel stat" -> dexel_stat(disk, c)
    [] c.verb = "dexel volume" -> dexel_volume(disk, c)
    [] c.verb = "dexel slice" -> dexel_slice(disk, c)
    [] c.verb = "dexel deviation" -> dexel_deviation(disk, c)
    [] c.verb = "dexel coverage" -> dexel_coverage(disk, c)
    [] c.verb = "dexel convergence" -> dexel_convergence
    [] c.verb = "cut-stat" -> cut_stat(disk, c)
    [] c.verb = "extract" -> extract(disk, c)
    [] c.verb = "compare" -> compare(disk, c)
    [] c.verb = "deviation-stat" -> deviation_stat(disk, c)
    [] c.verb = "collide" -> collide(disk, c)
    [] c.verb = "path lint" -> path_lint(disk, c)
    [] c.verb \in PathVerbs -> path(disk, c)
    [] c.verb \in MeshVerbs -> mesh(disk, c)
    [] c.verb \in ToolVerbs -> tool(disk, c)
    [] c.verb = "mem-estimate" -> mem_estimate(disk, c)
    [] c.verb = "roots solve" -> roots_solve(c)
    [] c.verb = "selftest" -> run_selftest(c)
    [] c.verb = "version" -> print_version

Given(c) == doing = None /\ left > 0 /\ left' = left - 1

Invoke(c) ==
  /\ c.verb # "run" /\ Given(c)
  /\ Deliver(c, Answer(c))
  /\ UNCHANGED <<driverVars, doing>>
-----------------------------------------------------------------------------
(* run. *)

\* The tool each number of the program resolves to, all numbers of it, whatever
\* the range: {} where one does not.
resolve_tools(library, tool_id, segments) ==
  LET numbers == {s.tool : s \in Range(segments)}
      Found(n) == IF tool_id # None THEN ById(library, tool_id) ELSE ByNumber(library, n)
  IN IF \E n \in numbers : Found(n) = {} THEN {}
     ELSE {[n \in numbers |-> (CHOOSE t \in Found(n) : TRUE).profile]}

\* Slip: the end of the range is included.
SelectedToEnd(segments, range) ==
  IF range = None THEN segments
  ELSE SubSeq(segments, range[1] + 1, Min({range[2] + 1, Len(segments)}))

\* --segment-range counts from zero and is half open; its end is clamped.
Selected(segments, range) ==
  IF range = None THEN segments
  ELSE SubSeq(segments, range[1] + 1, Min({range[2], Len(segments)}))

\* What one segment is cut as: nothing where an arc's data is lost.
segment_motion(segment, profile, chords) ==
  IF segment.lost THEN <<>>
  ELSE IF chords /\ segment.chords # None THEN segment.chords[profile.id]
  ELSE <<segment.native[profile.id]>>

Reads(c) ==
  /\ c.usable /\ read_stock(disk[c.file])
  /\ ~uneven(disk[c.file], Min(disk[c.file].axes))
  /\ Parsed(disk[c.path], FALSE)
  /\ c.tools # None
  /\ Has(disk[c.tools], "library")
  /\ resolve_tools(disk[c.tools], c.tool, disk[c.path].segments) # {}
  /\ Selected(disk[c.path].segments, c.range) # <<>>

run_refused(c) ==
  /\ c.verb = "run" /\ Given(c) /\ ~Reads(c)
  /\ Ended(c, IF c.usable /\ read_stock(disk[c.file]) /\ uneven(disk[c.file], Min(disk[c.file].axes))
              THEN Crash ELSE 2)
  /\ UNCHANGED <<driverVars, disk, doing>>

run(c) ==
  /\ c.verb = "run" /\ Given(c) /\ Reads(c)
  /\ \E profiles \in resolve_tools(disk[c.tools], c.tool, disk[c.path].segments) :
       LET chosen == Selected(disk[c.path].segments, c.range)
       IN Begin(FlattenSeq([k \in DOMAIN chosen |->
                  segment_motion(chosen[k], profiles[chosen[k].tool], c.chords)]),
                disk[c.file].cells,
                [threads |-> c.threads, batch_size |-> c.batch_size, mem_limit |-> c.mem_limit])
  /\ doing' = c
  /\ UNCHANGED <<disk, last>>

\* The end of a run, on the ceiling or at the last motion. What was asked for is
\* noted with the field, for properties.
Finish ==
  /\ doing # None /\ pc \in {"done", "refused"}
  /\ LET c == doing
         segments == disk[c.path].segments
         skipped == \E s \in Range(Selected(segments, c.range)) : s.lost
         asked == [segments |-> segments, range |-> c.range, chords |-> c.chords,
                   tool |-> c.tool, library |-> disk[c.tools]]
         cut == [disk[c.file] EXCEPT !.cells = field, !.cuts = Append(@, asked)]
     IN IF pc = "refused" THEN Ended(c, 2) /\ UNCHANGED disk
        ELSE Deliver(c, IfNamed(c.out, Writes(~skipped, cut)))
  /\ doing' = None
  /\ motions' = <<>> /\ stock' = None /\ args' = None /\ field' = None /\ lo' = 1
  /\ at' = <<1, 0>> /\ removed' = <<>> /\ totals' = None /\ pc' = "idle"
  /\ UNCHANGED left

\* Killed while it cuts, a run leaves no trace.
Kill ==
  /\ doing # None /\ pc \notin {"done", "refused"}
  /\ Ended(doing, -1)
  /\ doing' = None
  /\ motions' = <<>> /\ stock' = None /\ args' = None /\ field' = None /\ lo' = 1
  /\ at' = <<1, 0>> /\ removed' = <<>> /\ totals' = None /\ pc' = "idle"
  /\ UNCHANGED <<disk, left>>

Cutting_ == CutStep /\ UNCHANGED sessionVars

SessionNext ==
  \/ \E c \in Invocations : Invoke(c) \/ run_refused(c) \/ run(c)
  \/ Cutting_ \/ Finish \/ Kill

SessionSpec == SessionInit /\ [][SessionNext]_allVars
-----------------------------------------------------------------------------
\* What one `run` was asked for, cut a motion at a time from scratch.
Replay(cells, asked) ==
  LET Wanted == {k \in DOMAIN asked.segments :
                   asked.range # None => asked.range[1] < k /\ k <= asked.range[2]}
      Named(number) == IF asked.tool # None THEN ById(asked.library, asked.tool)
                       ELSE ByNumber(asked.library, number)
      MotionsOf(segment) ==
        LET cutter == (CHOOSE t \in Named(segment.tool) : TRUE).profile.id
        IN  CASE segment.lost -> <<>>
              [] ~segment.lost /\ asked.chords /\ segment.chords # None -> segment.chords[cutter]
              [] OTHER -> <<segment.native[cutter]>>
  IN  SequentialField(
        FlattenSeq([k \in DOMAIN asked.segments |->
                      IF k \in Wanted THEN MotionsOf(asked.segments[k]) ELSE <<>>]), cells)

\* And all that runs were asked for, one after another.
Remade(cells, cuts) ==
  LET after[n \in 0 .. Len(cuts)] == IF n = 0 THEN cells ELSE Replay(after[n - 1], cuts[n])
  IN  after[Len(cuts)]

(* Whatever files a session leaves - runs given the range of another's rest,    *)
(* written in place or aside, failed, killed, or on the output of a failed one - *)
(* a field that can be read holds what the stock it was built from holds after   *)
(* exactly the runs made on it, one motion at a time: `--segment-range` resumes  *)
(* where a run stopped, segments neither lost nor cut twice at the seam          *)
(* (run.rs:6-10).                                                               *)
ResumedRunIsTheWhole ==
  \A p \in DOMAIN disk :
    read_field(disk[p]) => disk[p].cells = Remade(disk[p].from, disk[p].cuts)

(* A command that answers, yes or no, found every file it was given, and no       *)
(* field or binary mesh it was given is what an earlier command left of a write   *)
(* that was cut short. (Mesh verbs, path lint and selftest say 1 for a failure.)  *)
AnswersAreWhole ==
  (last # None /\ (last.exit = 0 \/ (last.exit = 1 /\ last.verb \in
     {"run", "extract", "compare", "collide", "dexel deviation", "dexel coverage"}))) =>
    last.sound
=============================================================================
