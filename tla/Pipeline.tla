------------------------------- MODULE Pipeline -------------------------------
(***************************************************************************)
(* crates/chipbreaker-gcode/src/pipeline.rs: `run`, the one assembly of a   *)
(* job that the C ABI, the Python bindings and the browser build call: what *)
(* it refuses and in which order, what it cuts, compares and judges. Hosts  *)
(* has the callers.                                                         *)
(*                                                                          *)
(* A mesh is its extents and whether a field can be built of it. A program  *)
(* is the tools of its segments, how many retracts its resolver left        *)
(* unmodelled, and what a cut with each tool leaves (`clusters`) and meets  *)
(* (`hits`; Job has the replay itself). Lengths are whole units, so that a  *)
(* resolution is a multiple of one.                                         *)
(***************************************************************************)
EXTENDS Budget, Findings

CONSTANT Bad        \* bytes that cannot be read

VARIABLES
  req,          \* the JobRequest, or None
  stage,        \* what `run` does next; "idle" when it has not been called
  profile,      \* the tool it chose, or None
  field,        \* "none", "stock", or "cut"
  collisions, gate,
  outcome       \* what it returned: a report, a refusal, or None

pipelineVars == <<req, stage, profile, field, collisions, gate, outcome>>

PipelineInit ==
  /\ req = None /\ stage = "idle" /\ profile = None /\ field = "none"
  /\ collisions = <<>> /\ gate = None /\ outcome = None
  /\ BudgetInit

Enter(request) ==
  /\ stage = "idle"
  /\ req' = request /\ stage' = "inputs"
  /\ profile' = None /\ field' = "none" /\ collisions' = <<>> /\ gate' = None /\ outcome' = None
  /\ UNCHANGED budgetVars

Refuse(why) ==
  /\ outcome' = [refused |-> why, gates |-> refusal({"gouge", "collision"}), manifest |-> <<>>,
                advice |-> suggestion]
  /\ stage' = "idle"
  /\ UNCHANGED <<req, profile, field, collisions, gate>>

\* The inputs in the order they are read; the nominal is not among them.
InputsRefused ==
  CASE req.resolution <= 0 -> "resolution"
    [] req.resolution > 0 /\ req.stock = Bad -> "stock"
    [] req.resolution > 0 /\ req.stock # Bad /\ req.tools = Bad -> "tools"
    [] req.resolution > 0 /\ req.stock # Bad /\ req.tools # Bad ->
         IF req.program = Bad THEN "program"
         ELSE IF req.cap # None /\ Len(req.program.segments) > req.cap THEN "cap" ELSE None

ReadInputs ==
  /\ stage = "inputs"
  /\ IF InputsRefused # None THEN Refuse(InputsRefused)
     ELSE stage' = "ceiling" /\ UNCHANGED <<req, profile, field, collisions, gate, outcome>>
  /\ UNCHANGED budgetVars

\* Budget::check, for one worker and no extraction.
Asked ==
  [extents |-> req.stock.extents, spacing |-> [i \in Axes |-> req.resolution],
   segments |-> Len(req.program.segments), extracting |-> FALSE, workers |-> 1,
   limit |-> req.ceiling]

\* After parsing, since the count of segments is needed; before anything large
\* is allocated. A refusal first searches for what to suggest.
Ceiling ==
  /\ stage = "ceiling"
  /\ IF req.ceiling = None \/ Granted(Asked)
     THEN stage' = "tool" /\ UNCHANGED budgetVars
     ELSE stage' = "search" /\ StartSearch(Asked)
  /\ UNCHANGED <<req, profile, field, collisions, gate, outcome>>

Search ==
  /\ stage = "search" /\ SearchStep
  /\ UNCHANGED pipelineVars

TooLarge ==
  /\ stage = "search" /\ search = "idle"
  /\ Refuse("memory")
  /\ Forget

\* The tool that is named, or the one with the number of the first segment; 0
\* if there is none.
Chosen ==
  LET first == IF req.program.segments = <<>> THEN 0 ELSE Head(req.program.segments)
  IN  {t \in DOMAIN req.tools : IF req.tool_id = None THEN req.tools[t].number = first
                                ELSE t = req.tool_id}

LookUpTool ==
  /\ stage = "tool"
  /\ IF Chosen = {} THEN Refuse("tool")
     ELSE /\ profile' \in Chosen
          /\ stage' = "build" /\ UNCHANGED <<req, field, collisions, gate, outcome>>
  /\ UNCHANGED budgetVars

BuildField ==
  /\ stage = "build"
  /\ IF ~req.stock.builds THEN Refuse("field")
     ELSE field' = "stock" /\ stage' = "cut" /\ UNCHANGED <<req, profile, collisions, gate, outcome>>
  /\ UNCHANGED budgetVars

Holder == req.tools[profile].holder

\* collide_with_stock is told of no unmodelled retracts (0) and of no fixtures,
\* so it declines for want of a holder only.
Declined == Holder = "absent"

Assembled ==
  IF Holder = "none needed" THEN <<>>
  ELSE assemble(req.program.hits[profile], req.program.kinds, 1)

\* Slip: what was not looked for was not found.
CutBlindly ==
  /\ stage = "cut"
  /\ field' = "cut"
  /\ collisions' = IF Declined THEN <<>> ELSE Assembled
  /\ gate' = collision_gate(collisions')
  /\ stage' = "compare"
  /\ UNCHANGED <<budgetVars, req, profile, outcome>>

\* The replay cuts as it looks; when it declines, cut_all cuts what it did not.
Cut ==
  /\ stage = "cut"
  /\ field' = "cut"
  /\ IF Declined
     THEN collisions' = <<>> /\ gate' = "unchecked"
     ELSE collisions' = Assembled /\ gate' = collision_gate(Assembled)
  /\ stage' = "compare"
  /\ UNCHANGED <<budgetVars, req, profile, outcome>>

\* The nominal is read only now. `unsampled` is not asked.
Findings_of == IF req.nominal = None THEN <<>>
               ELSE identify(req.program.clusters[profile][req.nominal], 1)

Compare ==
  /\ stage = "compare"
  /\ IF req.nominal = Bad THEN Refuse("nominal")
     ELSE /\ outcome' =
               [refused |-> None,
                gates |-> [g \in {"gouge", "collision"} |->
                             IF g = "collision" THEN gate
                             ELSE IF req.nominal = None THEN "unchecked"
                             ELSE gouge_gate(Findings_of)],
                manifest |-> [program |-> req.program, stock |-> req.stock, tools |-> req.tools,
                              nominal |-> req.nominal, resolution |-> req.resolution],
                advice |-> None]
          /\ stage' = "idle"
          /\ UNCHANGED <<req, profile, field, collisions, gate>>
  /\ UNCHANGED budgetVars

PipelineNext ==
  \/ ReadInputs \/ Ceiling \/ Search \/ TooLarge \/ LookUpTool \/ BuildField \/ Cut \/ Compare
-------------------------------------------------------------------------------
\* A pass is earned: the job was run to its end, its nominal was compared and no
\* gouge found, and a replay with a holder to collide looked for collisions and
\* found none. What was declined or not supplied never passes, nor does a
\* refusal. About pipeline.rs:203-309 and 341-358, and `Verdict::pass`.
PassIsEarned ==
  stage = "idle" /\ outcome # None /\ pass(outcome.gates) =>
    /\ field = "cut" /\ outcome.refused = None
    /\ req.nominal # None
    /\ \A c \in Range(req.program.clusters[profile][req.nominal]) : c.class # "gouge"
    /\ Holder # "absent"
    /\ Holder = "present" => \A h \in Range(req.program.hits[profile]) : ~is_collision(h)

\* detect.rs:70-73: every reason a replay cannot answer, and retracts nobody
\* modelled are one, becomes an unchecked gate.
RetractsAreUnchecked ==
  stage = "idle" /\ outcome # None /\ outcome.refused = None /\ req.program.retracts > 0 =>
    outcome.gates["collision"] # "pass"
===============================================================================
