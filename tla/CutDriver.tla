------------------------------ MODULE CutDriver ------------------------------
(***************************************************************************)
(* The cutting loop of `chipbreaker run` (crates/chipbreaker/src/run.rs):   *)
(* one thread cuts each run of motions ray by ray with cut_batch_per_motion *)
(* (sweep/batch.rs) and keeps one volume per motion; more threads hand each *)
(* run to cut_all_parallel, here what module ParallelCut shows it computes, *)
(* and add up the volumes of the runs. After every run the field is held    *)
(* against the memory ceiling.                                              *)
(***************************************************************************)
EXTENDS Cutting

CONSTANTS
  NoLimit,    \* no --mem-limit
  Spans       \* how many spans each material a ray can hold takes

\* A lattice has a ray at least: each of its counts is n.max(1).
ASSUME DriverAssumption == Spans \in [SUBSET Cell -> Nat] /\ Rays # 0

VARIABLES
  args,      \* [threads, batch_size, mem_limit]
  at,        \* the bundle and ray the sequential traversal visits next
  totals     \* the counters, and the volume per bundle
\* `removed` is removed_per_motion; `pc` is "idle", "cut", "check", "sum", "done"
\* or "refused".

driverVars == <<motions, stock, args, field, lo, at, removed, totals, pc>>
-----------------------------------------------------------------------------
upto == RunEnd([k \in DOMAIN motions |-> <<motions[k].tool, motions[k].exact>>],
             lo, IF args.batch_size = 0 THEN 1 ELSE args.batch_size)
Batch == SubSeq(motions, lo, upto)

\* field.bytes(), in spans.
Bytes(f) ==
  MapThenSumSet(LAMBDA b : MapThenSumSet(LAMBDA r : Spans[f[b][r]], Ray), Bundle)

\* The motions to cut are known and the field has been read.
Begin(list, read, given) ==
  /\ motions' = list
  /\ stock' = read
  /\ args' = given
  /\ field' = read
  /\ lo' = 1
  /\ at' = <<1, 0>>
  /\ removed' = [k \in DOMAIN list |-> [b \in Bundle |-> 0]]
  /\ totals' = [tested |-> 0, rejected |-> 0, changed |-> 0,
                volume |-> [b \in Bundle |-> 0]]
  /\ pc' = IF list = <<>> THEN "sum" ELSE "cut"

\* Slip: a ray emptied by an earlier motion of the run is still tested.
TestedThoughEmpty(b, r) ==
  {k \in DOMAIN Batch : transverse_overlaps(Batch[k].box[b], r)}

\* The motions of the run that get as far as cutting ray r of bundle b.
Tested(b, r) ==
  LET after == MaterialAfter(Batch, field, b, r)
  IN  {k \in DOMAIN Batch : transverse_overlaps(Batch[k].box[b], r) /\ after[k - 1] # {}}

\* One ray against every motion of the run: an iteration of cut_batch_bundle's
\* loop. A ray outside the union of the boxes is outside each of them.
CutRay ==
  /\ pc = "cut" /\ args.threads = 1
  /\ LET b == at[1]
         r == at[2]
         after == MaterialAfter(Batch, field, b, r)
         cut == [k \in DOMAIN Batch |->
                   IF k \in Tested(b, r) THEN Cut(after[k - 1], Batch[k].swept[b][r]) ELSE 0]
         last == r = Rays - 1 /\ b = Bundles
     IN  /\ field' = [field EXCEPT ![b][r] = after[Len(Batch)]]
         /\ removed' = [k \in DOMAIN motions |->
              IF k \in lo .. upto /\ cut[k - lo + 1] > 0
              THEN [removed[k] EXCEPT ![b] = FAdd(@, cut[k - lo + 1])]
              ELSE removed[k]]
         /\ totals' = [totals EXCEPT
              !.tested = @ + Cardinality(Tested(b, r)),
              !.rejected = @ + Len(Batch) - Cardinality(Tested(b, r)),
              !.changed = @ + Cardinality({k \in DOMAIN Batch : cut[k] > 0})]
         /\ at' = IF r < Rays - 1 THEN <<b, r + 1>> ELSE IF last THEN <<1, 0>> ELSE <<b + 1, 0>>
         /\ pc' = IF last THEN "check" ELSE "cut"
  /\ UNCHANGED <<motions, stock, args, lo>>

\* The whole run in parallel; its volume is summed over the run by the callee
\* and added to the total here.
CutRunParallel ==
  /\ pc = "cut" /\ args.threads # 1
  /\ field' = SequentialField(Batch, field)
  /\ LET counters == SequentialCounters(Batch, field)
         volume == SequentialVolume(Batch, field)
     IN  totals' = [tested |-> totals.tested + counters.tested,
                    rejected |-> totals.rejected + counters.rejected,
                    changed |-> totals.changed + counters.changed,
                    volume |-> [b \in Bundle |-> FAdd(totals.volume[b], volume[b])]]
  /\ pc' = "check"
  /\ UNCHANGED <<motions, stock, args, lo, at, removed>>

\* Budget::check_growth after each run: too large a field ends the command.
CheckGrowth ==
  /\ pc = "check"
  /\ IF args.mem_limit # NoLimit /\ Bytes(field) > args.mem_limit
     THEN pc' = "refused" /\ UNCHANGED lo
     ELSE /\ lo' = upto + 1
          /\ pc' = IF upto = Len(motions) THEN "sum" ELSE "cut"
  /\ UNCHANGED <<motions, stock, args, field, at, removed, totals>>

\* The per-motion volumes, in motion order, on top of what the runs added.
Sum ==
  /\ pc = "sum"
  /\ totals' = [totals EXCEPT !.volume = [b \in Bundle |->
                  FoldLeft(FAdd, @[b], [k \in DOMAIN motions |-> removed[k][b]])]]
  /\ pc' = "done"
  /\ UNCHANGED <<motions, stock, args, field, lo, at, removed>>

CutStep == CutRay \/ CutRunParallel \/ CheckGrowth \/ Sum
-----------------------------------------------------------------------------
\* The motions cut so far, at a run boundary.
CutSoFar == SubSeq(motions, 1, IF pc \in {"check", "refused"} THEN upto ELSE lo - 1)

(* At every run boundary, and when the command stops on the ceiling, the      *)
(* field and the counters are those of the motions so far one at a time:     *)
(* walking a run ray by ray instead of motion by motion, splitting at tool   *)
(* and kind changes, and threads are invisible in them. On one thread so is, *)
(* bit for bit, the volume that is reported in the end.                      *)
RunsAreInvisible ==
  (pc \in {"check", "sum", "done", "refused"} \/ (pc = "cut" /\ at = <<1, 0>>)) =>
    LET reference == SequentialCounters(CutSoFar, stock)
    IN  /\ field = SequentialField(CutSoFar, stock)
        /\ totals.tested = reference.tested
        /\ totals.rejected = reference.rejected
        /\ totals.changed = reference.changed
        /\ pc = "done" /\ args.threads = 1 => totals.volume = SequentialVolume(motions, stock)
=============================================================================
