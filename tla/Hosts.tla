-------------------------------- MODULE Hosts --------------------------------
(***************************************************************************)
(* Who calls the pipeline: a C program through the handles of               *)
(* crates/chipbreaker-abi, a page through the exports of                    *)
(* crates/chipbreaker-wasm, a Python program through one function, and      *)
(* `mem-estimate`, which only asks whether a job would fit. One call is in  *)
(* progress at a time: the ABI forbids two on one handle, a browser         *)
(* instance has one thread, and nothing is shared between runs but the      *)
(* self-test digest, which is computed once.                                *)
(***************************************************************************)
EXTENDS Pipeline

CONSTANTS
  Programs, Tools, Stocks, Nominals, ToolIds, Resolutions, Ceilings,  \* what a C host may set
  NotText,          \* bytes that are not UTF-8
  Envelopes,        \* the requests of pages and Python programs
  Callers,          \* of the page
  MaxCalls,         \* how many runs, and changes of settings after one: a bound
  BROWSER_CEILING_BYTES, BROWSER_SEGMENT_CAP,
  GenerationEnd,    \* the counter wraps to 0 here; 2^32 in the code
  Empty             \* the program without a word

\* A host's inputs can be refused, but what can be read of them is what it says:
\* a program's replay has something to say of every tool in the library.
Sound(j) ==
  /\ j.resolution \in Int \cup {None}
  /\ j.stock # Bad => j.stock.extents \in [Axes -> Nat]
  /\ j.program # Bad => /\ j.program.segments \in Seq(Nat)
                        /\ \A t \in DOMAIN j.program.hits : j.program.hits[t] \in Seq(Hit)
                        /\ j.tools # Bad => DOMAIN j.tools \subseteq DOMAIN j.program.hits

ASSUME HostsAssumption ==
  /\ \A p \in Programs \cup {Empty}, t \in Tools \cup {Bad}, s \in Stocks \cup {Bad},
        r \in Resolutions \cup {None} :
       Sound([program |-> p, tools |-> t, stock |-> s, resolution |-> r])
  /\ \A e \in Envelopes \ {Bad} : Sound(e)
  /\ Ceilings \subseteq Nat /\ BROWSER_CEILING_BYTES \in Nat
  /\ IsFiniteSet(Callers)
  /\ None \notin {"resolution", "stock", "tools", "program", "running"}
  /\ MaxCalls \in Nat /\ GenerationEnd \in Nat \ {0}

\* A page that ran 2^32 times is not looked at.
ASSUME FewerThanWrap == MaxCalls <= GenerationEnd

VARIABLES
  front,        \* "c", "page", "python" or "estimate"; never changes
  job,          \* what the handle holds, or None without one
  status, out,  \* what cb_job_run returned, and *out
  calls,        \* of each caller: [phase, before, asked, bytes]
  made,         \* how many there have been
  RESULT, GENERATION

hostVars == <<front, job, status, out, calls, made, RESULT, GENERATION>>
allVars == <<budgetVars, pipelineVars, hostVars>>

HostsInit ==
  /\ PipelineInit
  /\ front \in {"c", "page", "python", "estimate"}
  /\ job = None /\ status = None /\ out = None
  /\ calls = [c \in Callers |-> [phase |-> "idle", before |-> 0, asked |-> 0, bytes |-> None]]
  /\ made = 0 /\ RESULT = None /\ GENERATION = 0

NoCall == stage = "idle" /\ status # "running"
-------------------------------------------------------------------------------
\* cb_job_new: a builder with nothing set, whose tools and stock are empty bytes.
Default == [program |-> Empty, tools |-> Bad, stock |-> Bad, nominal |-> None, tool_id |-> None,
            resolution |-> None, ceiling |-> None]

cb_job_new ==
  /\ front = "c" /\ NoCall /\ job = None
  /\ job' = Default
  /\ UNCHANGED <<budgetVars, pipelineVars, front, status, out, calls, made, RESULT, GENERATION>>

cb_job_free ==
  /\ front = "c" /\ NoCall /\ job # None
  /\ job' = None
  /\ UNCHANGED <<budgetVars, pipelineVars, front, status, out, calls, made, RESULT, GENERATION>>

\* What each setter may be handed: text that is not text, a length that is none,
\* 0 for no ceiling.
Settings ==
  [k \in {"program", "tools", "stock", "nominal", "tool_id", "resolution", "ceiling"} |->
     CASE k = "program" -> Programs \cup {NotText} [] k = "tools" -> Tools \cup {NotText}
       [] k = "stock" -> Stocks [] k = "nominal" -> Nominals [] k = "tool_id" -> ToolIds \cup {NotText}
       [] k = "resolution" -> Resolutions \cup {0} [] k = "ceiling" -> Ceilings \cup {0}]

Accepts(k, v) == IF k = "resolution" THEN v > 0 ELSE v # NotText

Stored(k, v) == IF k = "ceiling" /\ v = 0 THEN None ELSE v

\* Without a handle, and given an argument it refuses, a setter sets nothing.
cb_job_set(k, v) ==
  /\ made < MaxCalls
  /\ made' = IF made = 0 THEN 0 ELSE made + 1
  /\ IF job # None /\ Accepts(k, v)
     THEN job' = [job EXCEPT ![k] = Stored(k, v)] /\ status' = "ok"
     ELSE status' = "invalid" /\ UNCHANGED job
  /\ UNCHANGED <<budgetVars, pipelineVars, front, out, calls, RESULT, GENERATION>>

SetUp ==
  /\ front = "c" /\ NoCall
  /\ \E k \in DOMAIN Settings : \E v \in Settings[k] : cb_job_set(k, v)

\* What is not set has a default here: half a millimetre.
Request(j, default, ceiling, cap) ==
  [program |-> j.program, tools |-> j.tools, stock |-> j.stock, nominal |-> j.nominal,
   tool_id |-> j.tool_id, ceiling |-> ceiling, cap |-> cap,
   resolution |-> IF j.resolution = None THEN default ELSE j.resolution]

cb_job_run ==
  /\ front = "c" /\ NoCall /\ made < MaxCalls
  /\ made' = made + 1 /\ out' = None
  /\ IF job = None
     THEN status' = "invalid" /\ UNCHANGED <<budgetVars, pipelineVars>>
     ELSE status' = "running" /\ Enter(Request(job, 500, job.ceiling, None))
  /\ UNCHANGED <<front, job, calls, RESULT, GENERATION>>

\* A report passes when its verdict does; a refusal has a result too.
Returned ==
  /\ front \in {"c", "python"} /\ status = "running" /\ stage = "idle"
  /\ status' = IF outcome.refused = None THEN "ok" ELSE "refused"
  /\ out' = [pass |-> pass(outcome.gates), refused |-> outcome.refused # None]
  /\ UNCHANGED <<budgetVars, pipelineVars, front, job, calls, made, RESULT, GENERATION>>

cb_result_free ==
  /\ front = "c" /\ NoCall /\ out # None
  /\ out' = None
  /\ UNCHANGED <<budgetVars, pipelineVars, front, job, status, calls, made, RESULT, GENERATION>>

\* What reading a result says, and the null a call without one left behind.
cb_result_pass == out # None /\ out.pass

\* Python's `run`: every input is an argument, a refusal is an exception.
python_run ==
  /\ front = "python" /\ NoCall /\ made < MaxCalls
  /\ made' = made + 1
  /\ \E e \in Envelopes \ {Bad}, ceiling \in Ceilings \cup {None} :
       Enter(Request(e, 500, ceiling, None))
  /\ status' = "running" /\ out' = None
  /\ UNCHANGED <<front, job, calls, RESULT, GENERATION>>
-------------------------------------------------------------------------------
\* The page reads the counter before it asks for a run ...
ReadBefore(c) ==
  /\ front = "page" /\ calls[c].phase = "idle" /\ made < MaxCalls
  /\ made' = made + 1
  /\ calls' = [calls EXCEPT ![c] = [phase |-> "before", before |-> GENERATION, asked |-> made + 1,
                                    bytes |-> None]]
  /\ UNCHANGED <<budgetVars, pipelineVars, front, job, status, out, RESULT, GENERATION>>

Running == {c \in Callers : calls[c].phase = "running"}

\* ... then runs, under the browser's two limits, or is refused an envelope that
\* is not one before anything is run.
run(c) ==
  /\ calls[c].phase = "before" /\ Running = {}
  /\ \E e \in Envelopes :
       IF e = Bad
       THEN /\ outcome' = [refused |-> "envelope", gates |-> refusal({"gouge", "collision"}),
                           manifest |-> <<>>, advice |-> None]
            /\ UNCHANGED <<budgetVars, req, stage, profile, field, collisions, gate>>
       ELSE Enter(Request(e, 600, BROWSER_CEILING_BYTES, BROWSER_SEGMENT_CAP))
  /\ calls' = [calls EXCEPT ![c].phase = "running"]
  /\ UNCHANGED <<front, job, status, out, made, RESULT, GENERATION>>

\* Slip: a refusal is not counted.
PublishedIfAnswered(c) ==
  /\ calls[c].phase = "running" /\ stage = "idle"
  /\ RESULT' = calls[c].asked
  /\ GENERATION' = IF outcome.refused = None THEN (GENERATION + 1) % GenerationEnd ELSE GENERATION
  /\ calls' = [calls EXCEPT ![c].phase = "ran"]
  /\ UNCHANGED <<budgetVars, pipelineVars, front, job, status, out, made>>

\* The last result is freed and replaced, and counted. A result is the number of
\* the run it came from.
publish(c) ==
  /\ calls[c].phase = "running" /\ stage = "idle"
  /\ RESULT' = calls[c].asked
  /\ GENERATION' = (GENERATION + 1) % GenerationEnd
  /\ calls' = [calls EXCEPT ![c].phase = "ran"]
  /\ UNCHANGED <<budgetVars, pipelineVars, front, job, status, out, made>>

\* A panic traps: the call is thrown out of, and nothing is published. The
\* instance is still there to be called.
Trap(c) ==
  /\ calls[c].phase = "running"
  /\ stage' = "idle" /\ search' = "idle" /\ ask' = None /\ suggestion' = None
  /\ calls' = [calls EXCEPT ![c].phase = "idle"]
  /\ UNCHANGED <<lo, hi, tries, req, profile, field, collisions, gate, outcome, front,
                 job, status, out, made, RESULT, GENERATION>>

\* After the call, perhaps much later, it reads the counter again, and the bytes
\* if that advanced by exactly one.
ReadAfter(c) ==
  /\ calls[c].phase = "ran"
  /\ calls' = [calls EXCEPT ![c].phase = "idle",
                            ![c].bytes = IF GENERATION = calls[c].before + 1 THEN RESULT ELSE None]
  /\ UNCHANGED <<budgetVars, pipelineVars, front, job, status, out, made, RESULT, GENERATION>>
-------------------------------------------------------------------------------
\* mem-estimate: is it granted, and if not, what would be?
Estimate ==
  /\ front = "estimate"
  /\ \E a \in Asks : ~Granted(a) /\ StartSearch(a)
  /\ UNCHANGED <<pipelineVars, hostVars>>

EstimateSearch ==
  /\ front = "estimate" /\ (SearchStep \/ Forget)
  /\ UNCHANGED <<pipelineVars, hostVars>>

InRun == PipelineNext /\ UNCHANGED hostVars

Returns == InRun \/ EstimateSearch \/ Returned \/ \E c \in Callers : publish(c)

HostsNext ==
  \/ Returns
  \/ cb_job_new \/ cb_job_free \/ cb_job_run \/ cb_result_free \/ python_run
  \/ SetUp
  \/ \E c \in Callers : ReadBefore(c) \/ run(c) \/ Trap(c) \/ ReadAfter(c)
  \/ Estimate

\* A run goes on by itself; whether one is asked for is up to the host.
HostsSpec == HostsInit /\ [][HostsNext]_allVars /\ WF_allVars(Returns)
-------------------------------------------------------------------------------
\* A host that reads a pass has one: the last run ended in a report, and earned
\* it; a null, a refusal and a run that declined to look pass nothing. Whether
\* the job has been set anew since is the host's to know. About cb_job_run and
\* the accessors, abi/src/job.rs:286-320 and result.rs:40-64 and 110-130.
PassIsRead ==
  /\ PassIsEarned
  /\ cb_result_pass => /\ ~out.refused /\ status # "refused"
                       /\ outcome.refused = None /\ pass(outcome.gates)

\* The bytes a page reads are those of its own run, whatever else ran meanwhile,
\* trapped, was refused, or is still to be read, and whether or not the counter
\* wrapped. About `publish` and `result_generation`, wasm/src/lib.rs:150-250.
BytesAreYours == \A c \in Callers : calls[c].bytes \in {None, calls[c].asked}

\* A run that was started comes back, with a report, a refusal or a trap.
RunsReturn == (stage # "idle") ~> (stage = "idle")
==============================================================================
