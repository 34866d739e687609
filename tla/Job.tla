-------------------------------- MODULE Job --------------------------------
(***************************************************************************)
(* crates/chipbreaker/src/job.rs: a part made in several setups, each a     *)
(* transform, a fixture set and a program, and the replay of a program that *)
(* finds its collisions, crates/chipbreaker-core/src/findings/detect.rs.    *)
(*                                                                         *)
(* Space is a row of cells, all of one cross-section and wider than the     *)
(* tolerance; one ray of the field runs along the row and others across each *)
(* cell. A motion is the cells its cutter sweeps, those its shank and holder *)
(* sweep, and those each of the two passes within the clearance of (close   *)
(* and near). A setup has                                                   *)
(* transform (or None), resolves (whether program and tool can be read),    *)
(* holder (whether the tool has one), retracts (the unmodelled ones),       *)
(* motions and fixtures, a sequence of sets of cells.                       *)
(***************************************************************************)
EXTENDS Integers, Sequences, SequencesExt

CONSTANTS
  None,    \* the absence of an optional value
  Cells,   \* the cells, an interval
  Image,   \* what each axis-aligned transform does: transform to permutation
  Jobs,    \* the jobs that are run: a stock, setups, and a nominal or None
  Errors   \* the transforms that are refused: sheared, or not axis-aligned

Sweeps == [cut : SUBSET Cells, shank : SUBSET Cells, near : SUBSET Cells, close : SUBSET Cells]

Setup == [transform : DOMAIN Image \cup Errors \cup {None}, resolves : BOOLEAN, holder : BOOLEAN,
          retracts : Nat, motions : Seq(Sweeps), fixtures : Seq(SUBSET Cells)]

\* A job that loads has a setup, and its first one carries no transform.
Loads(job) ==
  /\ job.stock \in SUBSET Cells
  /\ job.setups \in Seq(Setup) /\ job.setups # <<>>
  /\ job.setups[1].transform = None
  /\ job.nominal \in (SUBSET Cells) \cup {None}

ASSUME JobAssumption ==
  /\ Cells \subseteq Int
  /\ \A t \in DOMAIN Image : Image[t] \in [Cells -> Cells]
  /\ (Errors \cup {None}) \cap DOMAIN Image = {}
  /\ None \notin Errors
  /\ \A job \in Jobs : Loads(job)

VARIABLES
  plan,      \* the job file; never changes
  stage,     \* what the job does next
  setup,     \* the setup it is in, from 1
  k,         \* the motion of that setup, from 1
  field,     \* the stock
  raw,       \* the hits of this setup's replay
  outcomes,  \* what each finished setup produced
  report     \* the verdict, or None

vars == <<plan, stage, setup, k, field, raw, outcomes, report>>

Init ==
  /\ plan \in Jobs
  /\ stage = "carry"
  /\ setup = 1 /\ k = 1
  /\ field = plan.stock
  /\ raw = {} /\ outcomes = <<>>
  /\ report = None
-----------------------------------------------------------------------------
This == plan.setups[setup]
Motion == This.motions[k]

Carried(transform, cells) ==
  IF transform \in DOMAIN Image THEN {Image[transform][c] : c \in cells} ELSE cells

\* What a swept part meets in an obstacle: a collision where it overlaps the
\* material, a near miss where it only comes within the clearance of it.
hits_for_motion(i, part, swept, near, obstacle, material) ==
  (IF swept \cap material = {} THEN {}
   ELSE {[motion |-> i, part |-> part, contact |-> "collision", obstacle |-> obstacle]})
  \cup
  (IF (near \ swept) \cap material = {} THEN {}
   ELSE {[motion |-> i, part |-> part, contact |-> "near-miss", obstacle |-> obstacle]})

\* One motion against the stock as it stands, and against every fixture, which
\* the cutter must not touch either. Obstacle 0 is the stock.
Hits(i, m, stock, fixtures) ==
  hits_for_motion(i, "shank", m.shank, m.near, 0, stock)
    \cup UNION {hits_for_motion(i, "shank", m.shank, m.near, f, fixtures[f])
                  \cup hits_for_motion(i, "cutter", m.cut, m.close, f, fixtures[f])
                : f \in DOMAIN fixtures}

collides(hit) == hit.contact = "collision"

\* Why a setup's collisions cannot be looked for.
Unchecked(s) == ~s.holder \/ s.retracts > 0
-----------------------------------------------------------------------------
\* The stock is carried into the setup; a transform that is not a rigid motion,
\* or would resample the field, ends the job.
Carry ==
  /\ stage = "carry"
  /\ IF This.transform \in Errors
     THEN stage' = "error" /\ UNCHANGED field
     ELSE stage' = "resolve" /\ field' = Carried(This.transform, field)
  /\ UNCHANGED <<plan, setup, k, raw, outcomes, report>>

\* The outcome of this setup, and on to the next one or to the gouge gate.
FinishSetup(outcome) ==
  /\ outcomes' = Append(outcomes, outcome)
  /\ raw' = {}
  /\ k' = 1
  /\ setup' = setup + 1
  /\ stage' = IF setup = Len(plan.setups) THEN "gouge" ELSE "carry"

\* The program and the tool are read, and the replay begins.
Resolve ==
  /\ stage = "resolve"
  /\ ~Unchecked(This) \/ ~This.resolves
  /\ stage' = IF This.resolves THEN "check" ELSE "error"
  /\ UNCHANGED <<plan, setup, k, field, raw, outcomes, report>>

\* Without a holder, or with motion the program does not contain, the replay
\* refuses before its first motion: nothing is checked and nothing is cut.
Refuse ==
  /\ stage = "resolve"
  /\ This.resolves
  /\ Unchecked(This)
  /\ FinishSetup([hits |-> {}, checked |-> FALSE])
  /\ UNCHANGED <<plan, field, report>>

\* Slip: a motion is checked against the stock it leaves.
CheckMotionAfterwards ==
  /\ stage = "check"
  /\ k <= Len(This.motions)
  /\ raw' = raw \cup Hits(k, Motion, field \ Motion.cut, This.fixtures)
  /\ stage' = "cut"
  /\ UNCHANGED <<plan, setup, k, field, outcomes, report>>

\* A motion is checked against the stock the motions before it have left...
CheckMotion ==
  /\ stage = "check"
  /\ k <= Len(This.motions)
  /\ raw' = raw \cup Hits(k, Motion, field, This.fixtures)
  /\ stage' = "cut"
  /\ UNCHANGED <<plan, setup, k, field, outcomes, report>>

\* ...and then, and only then, cuts.
CutMotion ==
  /\ stage = "cut"
  /\ field' = field \ Motion.cut
  /\ k' = k + 1
  /\ stage' = "check"
  /\ UNCHANGED <<plan, setup, raw, outcomes, report>>

EndReplay ==
  /\ stage = "check"
  /\ k > Len(This.motions)
  /\ FinishSetup([hits |-> raw, checked |-> TRUE])
  /\ UNCHANGED <<plan, field, report>>

\* The first solid ends before the second begins: nothing of their bounds meets,
\* not even a face.
EndsBefore(one, other) == \A c \in one, d \in other : c + 1 < d

\* Where the material ends along the row: its last cell, and the next one ahead
\* of the wall. Ends across the row are on the sides of the nominal or beside
\* it, as is a wall at the end of the row, and none of them is ever inside.
Walls(cells) == {w \in cells \X (Cells \ cells) : w[1] - w[2] \in {-1, 1}}

\* A wall is inside the nominal if the nominal goes on ahead of it, by parity;
\* where it also only begins there, the wall is on its face and has no depth.
\* Nothing is asked of a nominal that no wall is in.
Gouges(cells, nominal) == {w \in Walls(cells) : w[2] \in nominal /\ w[1] \in nominal}

\* The gouge gate compares the finished stock with the nominal, once; without a
\* nominal it is unchecked, and with one that lies elsewhere the job ends.
GougeState ==
  IF plan.nominal = None THEN "unchecked"
  ELSE IF Gouges(field, plan.nominal) = {} THEN "pass" ELSE "fail"

\* Near misses are reported and do not count.
Collisions == UNION {{h \in outcomes[i].hits : collides(h)} : i \in DOMAIN outcomes}
AnyUnchecked == \E i \in DOMAIN outcomes : ~outcomes[i].checked

\* Slip: an unchecked setup is taken for a clean one.
PassesUnchecked == Collisions = {} /\ GougeState = "pass"

Passes == Collisions = {} /\ ~AnyUnchecked /\ GougeState = "pass"

Report ==
  /\ stage = "gouge"
  /\ IF /\ plan.nominal # None
        /\ EndsBefore(field, plan.nominal) \/ EndsBefore(plan.nominal, field)
     THEN stage' = "error" /\ UNCHANGED report
     ELSE /\ stage' = "done"
          /\ report' = [pass |-> Passes, gouge |-> GougeState,
                        collision |-> IF AnyUnchecked THEN "unchecked"
                                      ELSE IF Collisions # {} THEN "fail" ELSE "pass"]
  /\ UNCHANGED <<plan, setup, k, field, raw, outcomes>>

Next ==
  Carry \/ Resolve \/ Refuse \/ CheckMotion \/ CutMotion \/ EndReplay \/ Report

Spec == Init /\ [][Next]_vars
-----------------------------------------------------------------------------
(* What really happens at the machine, which cuts whether or not anybody     *)
(* checks: the stock it starts a setup with, and has before a motion of it.  *)

SweptIn(s) == UNION {s.motions[i].cut : i \in DOMAIN s.motions}

MachineStock(job) ==
  LET start[j \in 1 .. Len(job.setups)] ==
        IF j = 1 THEN job.stock
        ELSE Carried(job.setups[j].transform, start[j - 1] \ SweptIn(job.setups[j - 1]))
  IN  start

MachineStockBefore(job, j, i) ==
  MachineStock(job)[j] \ UNION {job.setups[j].motions[n].cut : n \in 1 .. i - 1}

FinishedPart(job) ==
  MachineStockBefore(job, Len(job.setups), Len(Last(job.setups).motions) + 1)

\* What the machine's tool meets in setup j.
MachineHits(job, j) ==
  UNION {Hits(i, job.setups[j].motions[i], MachineStockBefore(job, j, i), job.setups[j].fixtures)
         : i \in DOMAIN job.setups[j].motions}
-----------------------------------------------------------------------------
(* Properties. *)

\* A collision is a property of the trajectory: as long as every setup before
\* could be checked, a checked setup reports exactly what the machine's tool
\* meets, motion by motion, in the stock of that moment - neither what an
\* earlier motion had already removed nor less than a later one removes.
HitsAreTheTrajectory ==
  \A j \in DOMAIN outcomes :
    (\A i \in 1 .. j : outcomes[i].checked) => outcomes[j].hits = MachineHits(plan, j)

\* The part has both of two neighbouring cells of the nominal, or neither.
NotCutInto(part, nominal) ==
  \A c, d \in nominal : c + 1 = d => (c \in part <=> d \in part)

\* A job passes exactly when every setup was checked, the machine hits nothing
\* in any of them, and a nominal was given that the machine's cuts do not end
\* in: each piece of it stands whole or is gone altogether, between which the
\* gate does not distinguish. Near misses do not condemn a part, and it is not
\* acceptable because some of its setups were.
PassMeansGoodPart ==
  stage = "done" =>
    (report.pass <=>
       /\ \A j \in DOMAIN plan.setups : ~Unchecked(plan.setups[j])
       /\ \A j \in DOMAIN plan.setups : \A h \in MachineHits(plan, j) : ~collides(h)
       /\ plan.nominal # None /\ NotCutInto(FinishedPart(plan), plan.nominal))
=============================================================================
