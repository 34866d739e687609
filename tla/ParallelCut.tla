----------------------------- MODULE ParallelCut -----------------------------
(***************************************************************************)
(* crates/chipbreaker-core/src/sweep/parallel.rs: cut_all_parallel. The     *)
(* motion list is split into runs; for each run and each bundle, worker     *)
(* threads claim chunks of rays from a shared counter, compute them against *)
(* a field nobody writes, and append what they found to a shared list; when *)
(* all have joined, one thread reduces the chunks and writes the field.     *)
(*                                                                         *)
(* The promise is that the field, the counters and the float volumes equal  *)
(* what one motion at a time produces (module Cutting), whatever the worker *)
(* count, the chunk size, the batch size, the chaos seed and the            *)
(* interleaving.                                                            *)
(***************************************************************************)
EXTENDS Cutting

CONSTANTS
  Programs,       \* the motion lists cut
  Stocks,         \* the fields they are cut from
  Schedules,      \* [threads, chunk, size, chaos] as the caller may ask
  PARALLEL_BATCH  \* the least batch of a threaded cut

Schedule == [threads : Nat \ {0}, chunk : Nat, size : Nat, chaos : BOOLEAN]

ASSUME ParallelAssumption ==
  /\ Programs \subseteq Seq(Motions)
  /\ Stocks \subseteq Fields
  /\ Schedules \subseteq Schedule
  /\ PARALLEL_BATCH \in Nat

VARIABLES
  schedule,  \* the schedule, fixed
  bundle,    \* the bundle being cut
  order,     \* the order in which its chunks are handed out
  next,      \* the shared counter: how many chunks have been claimed
  worker,    \* per worker thread: where it is, what it claimed, what it has
  out,       \* the shared list of chunk results
  total      \* the counters, and the volumes once the list is finished
\* The calling thread's `pc` is "bundle", "workers" or "done".

vars == <<motions, stock, schedule, field, lo, bundle, order, next, worker,
          out, removed, total, pc>>
-----------------------------------------------------------------------------
Counters == {"tested", "rejected", "changed"}
NoCounters == [c \in Counters |-> 0]

\* The counters of a list of results, result by result.
Merged(results) ==
  [c \in Counters |->
     LET sum[i \in 0 .. Len(results)] ==
           IF i = 0 THEN 0 ELSE sum[i - 1] + results[i].stats[c]
     IN  sum[Len(results)]]

\* chunk.max(1), size.max(1), and the larger batch only when really threading.
ChunkSize == IF schedule.chunk = 0 THEN 1 ELSE schedule.chunk
BatchSize ==
  LET asked == IF schedule.threads > 1 /\ schedule.size < PARALLEL_BATCH
               THEN PARALLEL_BATCH ELSE schedule.size
  IN  IF asked = 0 THEN 1 ELSE asked

Chunks == (Rays + ChunkSize - 1) \div ChunkSize
Chunk == 0 .. Chunks - 1

\* The workers spawned for a bundle: never more than there are chunks.
Workers ==
  LET cap == IF Chunks = 0 THEN 1 ELSE Chunks
  IN  1 .. (IF schedule.threads < cap THEN schedule.threads ELSE cap)

\* The current run: motions lo .. hi, which share a kind (and a tool).
hi == RunEnd([k \in DOMAIN motions |-> motions[k].exact], lo, BatchSize)
Run == SubSeq(motions, lo, hi)

Resting == [at |-> "claim", index |-> 0, mine |-> <<>>]

Init ==
  /\ motions \in Programs
  /\ stock \in Stocks
  /\ schedule \in Schedules
  /\ field = stock
  /\ lo = 1
  /\ bundle = 1
  /\ order = <<>>
  /\ next = 0
  /\ worker = <<>>
  /\ out = <<>>
  /\ removed = [k \in DOMAIN motions |-> [b \in Bundle |-> 0]]
  /\ total = [stats |-> NoCounters, volume |-> [b \in Bundle |-> 0]]
  /\ pc = IF motions = <<>> THEN "done" ELSE "bundle"
-----------------------------------------------------------------------------
(* run_chunk: it reads the bundle's rays and the run, and writes nothing.     *)

\* What run_chunk knows of a ray between two motions. A contribution is the
\* volume between what was there and what is left.
Contribution == [motion : Nat, before : SUBSET Cell, after : SUBSET Cell]

RayState ==
  [material : SUBSET Cell, touched : BOOLEAN, stats : [Counters -> Nat],
   found : Seq(Contribution)]

\* Motion k of the run against what the earlier ones left of ray r.
MotionTurn(run, b, r, k) ==
  LET sweep == run[k].swept[b][r]
      turn[ray \in RayState] ==
        LET rest == Remainder(ray.material, sweep)
            cuts == Cut(ray.material, sweep) > 0
        IN  IF ~transverse_overlaps(run[k].box[b], r) \/ ray.material = {}
            THEN [ray EXCEPT !.stats["rejected"] = @ + 1]
            ELSE [material |-> rest,
                  touched |-> ray.touched \/ rest # ray.material,
                  stats |-> [ray.stats EXCEPT
                               !["tested"] = @ + 1,
                               !["changed"] = IF cuts THEN @ + 1 ELSE @],
                  found |-> IF cuts
                            THEN Append(ray.found,
                                        [motion |-> k, before |-> ray.material, after |-> rest])
                            ELSE ray.found]
  IN  turn

UnionBox(run, b) == BoxUnion({run[k].box[b] : k \in DOMAIN run})

\* Every motion of the run against ray r, from the stored material.
RayTurn(run, b, rays, r) ==
  LET fresh == [material |-> rays[r], touched |-> FALSE,
                stats |-> NoCounters, found |-> <<>>]
      after[k \in 0 .. Len(run)] ==
        IF k = 0 THEN fresh ELSE MotionTurn(run, b, r, k)[after[k - 1]]
  IN  IF ~transverse_overlaps(UnionBox(run, b), r)
      THEN [fresh EXCEPT !.stats["rejected"] = Len(run)]
      ELSE after[Len(run)]

\* Slip: the last chunk is dropped when the rays do not fill it.
ChunkRaysWhole(size, c) ==
  LET start == c * size
  IN  [i \in 1 .. IF start + size <= Rays THEN size ELSE 0 |-> start + i - 1]

\* The rays of chunk c, ascending.
ChunkRays(size, c) ==
  LET start == c * size
      end == IF start + size <= Rays THEN start + size ELSE Rays
  IN  [i \in 1 .. end - start |-> start + i - 1]

run_chunk(run, b, rays, size, c) ==
  LET mine == ChunkRays(size, c)
      collect[turn \in Seq(RayState)] ==
        [start |-> c * size,
         changed |-> [r \in {mine[i] : i \in {j \in DOMAIN turn : turn[j].touched}} |->
                        turn[r - c * size + 1].material],
         contributions |-> FlattenSeq([i \in DOMAIN turn |-> turn[i].found]),
         stats |-> Merged(turn)]
  IN  collect[[i \in DOMAIN mine |-> RayTurn(run, b, rays, mine[i])]]

\* Chunk c of the current run and bundle.
Result(c) == run_chunk(Run, bundle, field[bundle], ChunkSize, c)
-----------------------------------------------------------------------------
(* compute_bundle *)

\* The hand-out order: identity, or any permutation under a chaos seed.
Orders ==
  IF schedule.chaos THEN SetToSeqs(Chunk) ELSE {[i \in 1 .. Chunks |-> i - 1]}

\* Start on a bundle: one worker is the calling thread itself, which spawns
\* nothing and computes the chunks in hand-out order.
StartBundle ==
  /\ pc = "bundle"
  /\ order' \in Orders
  /\ next' = 0
  /\ IF Cardinality(Workers) = 1
     THEN /\ worker' = <<>>
          /\ out' = [i \in 1 .. Chunks |-> Result(order'[i])]
     ELSE /\ worker' = [w \in Workers |-> Resting]
          /\ out' = <<>>
  /\ pc' = "workers"
  /\ UNCHANGED <<motions, stock, schedule, field, lo, bundle, removed, total>>

\* next.fetch_add(1): a chunk, or the end of the worker's loop.
Claim(w) ==
  /\ worker[w].at = "claim"
  /\ worker' = [worker EXCEPT ![w].at = IF next < Chunks THEN "run" ELSE "flush",
                              ![w].index = next]
  /\ next' = next + 1
  /\ UNCHANGED <<motions, stock, schedule, field, lo, bundle, order, out,
                 removed, total, pc>>

RunChunk(w) ==
  /\ worker[w].at = "run"
  /\ worker' = [worker EXCEPT
       ![w].at = "claim",
       ![w].mine = Append(@, Result(order[worker[w].index + 1]))]
  /\ UNCHANGED <<motions, stock, schedule, field, lo, bundle, order, next, out,
                 removed, total, pc>>

\* Slip: the worker leaves without handing in its results and is never joined.
FlushNever(w) ==
  /\ worker[w].at = "flush"
  /\ worker[w].mine = <<>>
  /\ worker' = [worker EXCEPT ![w].at = "joined"]
  /\ UNCHANGED <<motions, stock, schedule, field, lo, bundle, order, next, out,
                 removed, total, pc>>

\* out.lock().extend(mine), after which the thread ends.
Flush(w) ==
  /\ worker[w].at = "flush"
  /\ out' = out \o worker[w].mine
  /\ worker' = [worker EXCEPT ![w].at = "joined", ![w].mine = <<>>]
  /\ UNCHANGED <<motions, stock, schedule, field, lo, bundle, order, next,
                 removed, total, pc>>
-----------------------------------------------------------------------------
(* The reduction *)

\* Slip: the chunks are taken in the order in which they finished.
OrderedAsFinished(results) == results

\* The chunk results in ascending order of their first ray: no two have the same.
Ordered(results) ==
  LET order_of == CHOOSE p \in SetToSeqs(DOMAIN results) :
                    \A i, j \in DOMAIN p : i < j => results[p[i]].start < results[p[j]].start
  IN  [i \in DOMAIN results |-> results[order_of[i]]]

\* Everything the chunks contributed, in the order of the chunks.
Contributed(results) == FlattenSeq([i \in DOMAIN results |-> results[i].contributions])

\* A volume with what motion k of the run contributed added to it. The counting
\* sort by motion is stable, so it is added in the order of the contributions.
Replayed(contributions, k, volume) ==
  LET sum[n \in 0 .. Len(contributions)] ==
        IF n = 0 THEN volume
        ELSE IF contributions[n].motion = k
             THEN FAdd(sum[n - 1], Measure(contributions[n].before) - Measure(contributions[n].after))
             ELSE sum[n - 1]
  IN  sum[Len(contributions)]

\* The field with every changed ray of the bundle written.
WriteBack(results) ==
  [field EXCEPT ![bundle] = [r \in Ray |->
     LET writers == {i \in DOMAIN results : r \in DOMAIN results[i].changed}
     IN  IF writers = {} THEN @[r]
         ELSE results[CHOOSE i \in writers : \A j \in writers : j <= i].changed[r]]]

\* All workers have joined: merge the counters, replay the volumes flat, write
\* the rays, and go on to the next bundle, the next run or the totals.
Reduce ==
  /\ pc = "workers"
  /\ \A w \in DOMAIN worker : worker[w].at = "joined"
  /\ LET results == Ordered(out)
         last == bundle = Bundles /\ hi = Len(motions)
     IN  /\ field' = WriteBack(results)
         /\ removed' = [k \in DOMAIN removed |->
              IF k \in lo .. hi
              THEN [removed[k] EXCEPT
                      ![bundle] = Replayed(Contributed(results), k - lo + 1, @)]
              ELSE removed[k]]
         /\ total' = [stats |-> [c \in Counters |-> total.stats[c] + Merged(results)[c]],
                      volume |-> IF last
                                 THEN [b \in Bundle |->
                                         FSum([k \in DOMAIN motions |-> removed'[k][b]])]
                                 ELSE total.volume]
         /\ bundle' = IF bundle < Bundles THEN bundle + 1 ELSE IF last THEN bundle ELSE 1
         /\ lo' = IF bundle = Bundles /\ ~last THEN hi + 1 ELSE lo
         /\ pc' = IF last THEN "done" ELSE "bundle"
  /\ worker' = <<>>
  /\ out' = <<>>
  /\ order' = <<>>
  /\ next' = 0
  /\ UNCHANGED <<motions, stock, schedule>>

Finished == pc = "done" /\ UNCHANGED vars

Next ==
  \/ StartBundle
  \/ \E w \in DOMAIN worker : Claim(w) \/ RunChunk(w) \/ Flush(w)
  \/ Reduce
  \/ Finished

\* The scope joins every thread it spawned, and the caller runs on: the
\* operating system schedules each of them eventually.
Fairness ==
  /\ WF_vars(StartBundle)
  /\ WF_vars(Reduce)
  /\ \A w \in 1 .. Rays : WF_vars(w \in DOMAIN worker /\ (Claim(w) \/ RunChunk(w) \/ Flush(w)))

Spec == Init /\ [][Next]_vars /\ Fairness
-----------------------------------------------------------------------------
\* How much of the motion list bundle b has been cut by.
CutUpTo(b) ==
  IF pc = "done" THEN Len(motions) ELSE IF b < bundle THEN hi ELSE lo - 1

(* At every moment each bundle is what the motions cut so far leave of it    *)
(* one at a time: while workers read it nothing has been written, and after  *)
(* the reduction every ray of every chunk has been.                          *)
FieldIsSequential ==
  \A b \in Bundle, r \in Ray :
    field[b][r] = MaterialAfter(motions, stock, b, r)[CutUpTo(b)]

(* The finished totals are those of cutting one motion at a time. The        *)
(* counters, although a threaded cut rejects rays against the union of a     *)
(* run's boxes and merges its counts per chunk; and the volumes bit for bit: *)
(* the same float additions in the same order and grouping, whatever the     *)
(* batch, the chunks, the threads and the order they finish in.              *)
TotalsAreSequential ==
  pc = "done" =>
    /\ \A c \in Counters : total.stats[c] = SequentialCounters(motions, stock)[c]
    /\ total.volume = SequentialVolume(motions, stock)

(* The cut ends: no worker waits for another, and the caller joins them all. *)
Terminates == <>(pc = "done")
=============================================================================
