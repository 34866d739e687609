-------------------------------- MODULE Verify --------------------------------
(***************************************************************************)
(* crates/chipbreaker/src/verify.rs: `verify` judges a cut field against    *)
(* its nominal and writes a report, `report-diff` compares two reports. A   *)
(* behaviour verifies twice and compares, while the files it works on may   *)
(* be rewritten by somebody else.                                           *)
(*                                                                          *)
(* A file is its content, which also stands for its digest. What the field  *)
(* file holds is what deviation::compare measures of it: samples and        *)
(* facets. A program is what its replay finds: `first`, the tool of its     *)
(* first segment, and by tool the motions that `reach` a place and the hits *)
(* of the collision replay (Job has the replay itself); `kinds` of motions, *)
(* whether the tool has a `holder`, and how many retracts are unmodelled.   *)
(***************************************************************************)
EXTENDS Clustering

CONSTANTS
  Worlds,    \* [requests, disk, edits]: what is asked for, over which files
  Contents,  \* what each file may be rewritten to
  Bad        \* the content of a file that cannot be read

\* What a file may hold: of a program, the hits of a replay with each tool whose
\* motions are known.
MayHold(r, c) ==
  /\ r = "field" => c \in Fields \cup {Bad}
  /\ r = "program" /\ c # Bad => \A t \in DOMAIN c.reach : c.hits[t] \in Seq(Hit)

ASSUME VerifyAssumption ==
  /\ \A w \in Worlds : /\ {"field", "program"} \subseteq DOMAIN w.disk
                        /\ \A r \in DOMAIN w.disk : MayHold(r, w.disk[r])
  /\ \A r \in DOMAIN Contents : \A c \in Contents[r] : MayHold(r, c)
  /\ None \notin [hits : Seq(Hit)]

VARIABLES
  requests,    \* the two runs asked for; never change
  disk,        \* what the input files hold
  edits,       \* how often files may still be rewritten: a bound
  touched,     \* of "input" and "report" those that were: not in the code
  turn,        \* 1 and 2 verify, 3 compares, 4 is the end
  phase,       \* what verify does next
  findings, manifest, collisions, gate,  \* what it has so far
  replayed,    \* the program whose collisions were looked for, or None: not in the code
  results,     \* of the finished runs: exit code, and what it was given for
  files,       \* the reports on disk, or None
  told         \* the exit code of the comparison and what it found, or None

verifyVars == <<requests, disk, edits, touched, turn, phase, findings, manifest, collisions, gate,
                replayed, results, files, told>>
allVars == <<vars, verifyVars>>

VerifyInit ==
  /\ \E w \in Worlds : requests = w.requests /\ disk = w.disk /\ edits = w.edits
  /\ touched = {} /\ turn = 1 /\ phase = "read"
  /\ findings = <<>> /\ manifest = <<>> /\ collisions = <<>> /\ gate = None /\ replayed = None
  /\ results = <<>> /\ files = <<None, None>> /\ told = None
  /\ ClusterInit

Request == requests[turn]

At(p) == turn < 3 /\ phase = p

Finish(exit, report) ==
  /\ results' = Append(results, [exit |-> exit, report |-> report, field |-> field,
                                 replayed |-> replayed])
  /\ turn' = turn + 1 /\ phase' = "read"
  /\ findings' = <<>> /\ manifest' = <<>> /\ collisions' = <<>> /\ gate' = None
  /\ replayed' = None

\* `?`: nothing is reported, nothing written.
Fail == Finish(2, None) /\ UNCHANGED <<vars, requests, disk, edits, touched, files, told>>

\* The tolerance, the field and the meshes, and the floor below which a
\* tolerance says more about the inputs than about the part.
Refused == \/ ~Request.tol \/ disk.field = Bad \/ disk.nominal = Bad
           \/ (Request.coarse /\ ~Request.allow)

\* From here `cluster` and then `unsampled` run, step by step.
Read ==
  /\ At("read") /\ ~Refused
  /\ field' = disk.field
  /\ stage' = "classify" /\ of' = "samples"
  /\ points' = <<>> /\ edges' = <<>> /\ slot' = 0 /\ groups' = <<>>
  /\ clusters' = <<>> /\ missing' = <<>>
  /\ phase' = "cluster"
  /\ UNCHANGED <<forestVars, requests, disk, edits, touched, turn, findings, manifest, collisions, gate,
                 replayed, results, files, told>>

Clustered ==
  /\ At("cluster")
  /\ ClusterNext
  /\ UNCHANGED verifyVars

Identify ==
  /\ At("cluster") /\ stage = "done"
  /\ findings' = identify(sort_canonically(clusters \o missing), Radius)
  /\ phase' = "attribute"
  /\ UNCHANGED <<vars, requests, disk, edits, touched, turn, manifest, collisions, gate, replayed,
                 results, files, told>>

\* Which program, tool and library a request resolves to: the tool it names, or
\* the program's first.
Tool(program) == IF Request.tool = None THEN program.first ELSE Request.tool

Resolves == /\ disk.program # Bad /\ Request.tools /\ disk.tools # Bad
            /\ Tool(disk.program) \in DOMAIN disk.program.reach

\* The motions that reach any of the places a finding is probed at.
attribute_finding(program, f) ==
  {s[1] : s \in {r \in program.reach[Tool(program)] : r[2] \in Range(f.probes)}}

\* Only what a cut can have caused is attributed. Naming a wrong line is worse
\* than naming none: what cannot be resolved ends the run.
Attribute ==
  /\ At("attribute") /\ (Request.path => Resolves)
  /\ findings' =
       [i \in DOMAIN findings |->
         LET f == findings[i]
         IN  IF Request.path /\ f.class \in {"gouge", "excess-stock"}
             THEN [f EXCEPT !.segments = attribute_finding(disk.program, f)]
             ELSE f]
  /\ phase' = "manifest"
  /\ UNCHANGED <<vars, requests, disk, edits, touched, turn, manifest, collisions, gate, replayed,
                 results, files, told>>

Inputs == {"field", "nominal"} \cup (IF Request.path THEN {"program"} ELSE {})
                               \cup (IF Request.tools THEN {"tools"} ELSE {})

\* Every input is read again to be hashed, and the run's report for what it
\* says of the sweep.
Hash ==
  /\ At("manifest")
  /\ \A r \in Inputs : disk[r] # Bad
  /\ Request.split => disk.split # Bad
  /\ manifest' = [r \in Inputs |-> disk[r]]
  /\ phase' = "collide"
  /\ UNCHANGED <<vars, requests, disk, edits, touched, turn, findings, collisions, gate, replayed,
                 results, files, told>>

Fails ==
  /\ \/ At("read") /\ Refused
     \/ At("attribute") /\ Request.path /\ ~Resolves
     \/ At("manifest") /\ \/ \E r \in Inputs : disk[r] = Bad
                          \/ Request.split /\ disk.split = Bad
  /\ Fail

\* Why the collisions cannot be looked for. None of it ends the run.
NotReplayed == \/ ~Request.start \/ ~Request.path \/ disk.start = Bad \/ ~Resolves
               \/ ~disk.program.holder \/ disk.program.retracts > 0

Collide ==
  /\ At("collide")
  /\ IF NotReplayed
     THEN gate' = "unchecked" /\ collisions' = <<>> /\ replayed' = None
     ELSE LET p == disk.program
              found == assemble(p.hits[Tool(p)], p.kinds, Radius)
          IN  /\ collisions' = found
              /\ gate' = collision_gate(found)
              /\ replayed' = [hits |-> p.hits[Tool(p)]]
  /\ phase' = "report"
  /\ UNCHANGED <<vars, requests, disk, edits, touched, turn, findings, manifest, results, files, told>>

\* The report, written if a file is named: if that fails there is no verdict.
Report ==
  /\ At("report")
  /\ LET report == [manifest |-> manifest, findings |-> findings, collisions |-> collisions,
                    gates |-> [gouge |-> gouge_gate(findings), collision |-> gate]]
     IN  IF Request.out = "unwritable"
         THEN Finish(2, None) /\ UNCHANGED files
         ELSE /\ Finish(IF pass(report.gates) THEN 0 ELSE 1, report)
              /\ files' = IF Request.out = None THEN files
                          ELSE [files EXCEPT ![turn] = to_json(report)]
  /\ UNCHANGED <<vars, requests, disk, edits, touched, told>>

\* A report that is not there, or that another version wrote, is refused.
report_diff ==
  /\ turn = 3
  /\ told' = IF \E i \in 1 .. 2 : files[i] = None \/ ~Readable(files[i])
             THEN [exit |-> 2, found |-> None]
             ELSE LET d == diff(load_report(files[1]), load_report(files[2]))
                  IN  [exit |-> IF is_empty(d) THEN 0 ELSE 1, found |-> d]
  /\ turn' = 4
  /\ UNCHANGED <<vars, requests, disk, edits, touched, phase, findings, manifest, collisions, gate,
                 replayed, results, files>>

\* Somebody rewrites an input between two reads of the program, or another build
\* a report that is there: under a later schema, or with a gate in a state this
\* one cannot name. Clustering reads no file, so it is not interrupted.
Edit ==
  /\ edits > 0 /\ turn < 4
  /\ At("cluster") => stage = "done"
  /\ edits' = edits - 1
  /\ \/ \E r \in DOMAIN Contents, c \in UNION {Contents[r] : r \in DOMAIN Contents} :
          c \in Contents[r] /\ c # disk[r] /\ disk' = [disk EXCEPT ![r] = c] /\ touched' = touched \cup {"input"}
          /\ UNCHANGED files
     \/ \E i \in 1 .. 2 :
          /\ files[i] # None
          /\ \/ files' = [files EXCEPT ![i].version = SCHEMA_VERSION + 1]
             \/ \E g \in {"gouge", "collision"} : files' = [files EXCEPT ![i].report.gates[g] = "waived"]
          /\ touched' = touched \cup {"report"} /\ UNCHANGED disk
  /\ UNCHANGED <<vars, requests, turn, phase, findings, manifest, collisions, gate, replayed,
                 results, told>>

VerifyDone == turn = 4 /\ UNCHANGED allVars

Proceed ==
  \/ Read \/ Clustered \/ Identify \/ Attribute \/ Hash \/ Fails \/ Collide \/ Report
  \/ report_diff

VerifyNext == Proceed \/ Edit \/ VerifyDone

\* The program goes on; that files are rewritten is promised by nobody.
VerifySpec == VerifyInit /\ [][VerifyNext]_allVars
-------------------------------------------------------------------------------
\* Exit 0 is earned: the run was completed, no sample of what it judged lay
\* deeper than the tolerance, and a replay of the program looked for collisions
\* and found none. Nothing that could not be looked at passes, and a run that
\* was not completed says neither yes nor no, and leaves no report. About
\* verify.rs:194-410 and 540-630, and `Verdict::pass`, verdict.rs:199-226.
PassIsEarned ==
  \A i \in DOMAIN results :
    LET r == results[i]
        gouged == \E s \in Range(r.field.samples) : s.signed < -Tolerance
        clear == /\ r.replayed # None
                 /\ \A h \in Range(r.replayed.hits) : h.contact = "near-miss"
    IN  /\ r.exit = 0 => ~gouged /\ clear
        /\ r.exit = 1 => gouged \/ ~clear
        /\ r.exit = 2 => files[i] = None

\* The runs that were completed have one.
Reports == {i \in DOMAIN results : results[i].exit # 2}

Told(i) == results[i].report.findings

SameFinding(f, g) == f.class = g.class /\ f.at = g.at

AloneInCell(f, seq) == \A i \in DOMAIN seq : seq[i].id[1] = f.id[1] /\ seq[i].id[2] = f.id[2] => seq[i] = f

\* A finding that has not moved and is the only one of its class in its cell of
\* the grid keeps its id.
NameStays ==
  {1, 2} \subseteq Reports =>
    \A f \in Range(Told(1)), g \in Range(Told(2)) :
      SameFinding(f, g) /\ AloneInCell(f, Told(1)) /\ AloneInCell(g, Told(2)) => f.id = g.id

\* Where the samples out of tolerance lie, and to which side; and where on the
\* nominal each sample was measured to.
Lies(samples) ==
  LET order == InOrder({i \in DOMAIN samples : Abs(samples[i].signed) > Tolerance}, [i \in DOMAIN samples |-> <<i>>])
  IN  [k \in DOMAIN order |-> <<samples[order[k]].at, samples[order[k]].signed < 0>>]

Covers(samples) == [k \in DOMAIN samples |-> samples[k].near]

\* Between two runs a finding keeps its name, whatever else is found. Where the
\* samples out of tolerance lie as they lay before, whatever their depths have
\* become, no gouge and no excess is said to have appeared or disappeared; where
\* the same of the nominal was covered, nothing is said of it. And two runs of one
\* request over files nobody touched are said to agree. About `identify` and
\* `finding_id`, findings/mod.rs:30-46 and 118-180, and the diff that rests on
\* them.
NamesKeep ==
  /\ NameStays
  /\ told # None /\ told.exit < 2 =>
       LET f(i) == results[i].field
           said(classes) == {c \in told.found.changes : c[2][1] \in classes}
       IN  /\ Lies(f(1).samples) = Lies(f(2).samples) =>
                \A c \in said({"gouge", "excess-stock"}) : c[1] = "changed"
           /\ Covers(f(1).samples) = Covers(f(2).samples) /\ f(1).facets = f(2).facets =>
                said({"undercut", "unreachable"}) = {}
           /\ requests[1] = requests[2] /\ touched = {} => told.exit = 0

\* What the comparison says. It finds a difference unless both runs found the
\* same worst depths and blamed the same motions, and came to one verdict; no
\* finding hides behind the id of another. Two reports are compared only when
\* both runs were completed and wrote one this build can read, and none is read
\* as a pass that was not one, whatever another build has made of it. About
\* `diff` and `load_report`, diff.rs:163-312 and verify.rs:416-508 and 662-902.
DiffTells ==
  /\ \A i \in Reports : Cardinality(Ids(Told(i))) = Len(Told(i))
  /\ told # None =>
       LET depths(i) == {<<f.class, f.worst, f.segments>> : f \in Range(Told(i))}
           reads(i) == IF pass(load_report(files[i]).gates) THEN 0 ELSE 1
       IN  /\ told.exit = 0 => depths(1) = depths(2) /\ reads(1) = reads(2)
           /\ told.exit < 2 => \A i \in 1 .. 2 : i \in Reports /\ reads(i) >= results[i].exit
           /\ told.exit = 0 /\ "report" \notin touched => results[1].exit = results[2].exit
===============================================================================
