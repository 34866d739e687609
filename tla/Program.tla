------------------------------ MODULE Program ------------------------------
(***************************************************************************)
(* crates/chipbreaker-gcode/src/resolve.rs: the parse of a whole program.   *)
(* `run_range` interprets a range of blocks, calls itself for M98 and comes *)
(* back at M99 or at the end of the range; `execute` (Resolver) does what   *)
(* the blocks say. A call is a frame on `stack`: the block it is at, the    *)
(* last block of its range and, while it waits for a call it has made, how  *)
(* many of the repeats are still to come.                                   *)
(***************************************************************************)
EXTENDS Resolver

CONSTANTS
  Programs,  \* the programs that are parsed, each a sequence of blocks
  MaxDepth   \* max_subprogram_depth

ASSUME ProgramAssumption ==
  /\ MaxDepth \in Nat
  /\ \A p \in Programs : /\ Len(p) \in Nat /\ DOMAIN p = 1 .. Len(p)
                         /\ \A i \in DOMAIN p : IsBlock(p[i])

VARIABLES
  program,   \* the program's blocks; never changes
  stack,     \* the active calls of run_range, the main program's first
  trace      \* the blocks executed so far: their index and block number

programVars == <<vars, program, stack, trace>>

\* Where the body of each O number begins and ends. A label has a body up to
\* the first M99 after it, if no other label comes between; of two bodies with
\* one number the later counts.
subprogram_table ==
  LET Return(i) == HasM(program[i], "M99")
      Labels(i) == {j \in 1 .. i : Has(program[j], "o") /\ \A k \in j .. i - 1 : ~Return(k)}
      Ends == {i \in DOMAIN program : Return(i) /\ Labels(i) # {}}
      Label(i) == program[Max(Labels(i))].o
      EndOf(n) == Max({i \in Ends : Label(i) = n})
  IN  [n \in {Label(i) : i \in Ends} |->
        [first |-> Max(Labels(EndOf(n))) + 1, last |-> EndOf(n) - 1]]

Frame(first, last) == [index |-> first, last |-> last, repeats |-> 0]

ProgramInit ==
  /\ Init
  /\ program \in Programs
  /\ stack = <<Frame(1, Len(program))>>
  /\ trace = <<>>
-----------------------------------------------------------------------------
Top == Last(stack)

\* The block the innermost call is at, if it is not at its end.
Current == program[Top.index]

Running == status = "running" /\ stack # <<>>
AtBlock == Running /\ Top.repeats = 0 /\ Top.index <= Top.last

\* The first flow word counts, in this order. The key the code compares with is
\* M20's, not M2's.
Stops(b) == HasM(b, "M20") \/ HasM(b, "M30")
Returns(b) == ~Stops(b) /\ HasM(b, "M99")
Calls(b) == ~Stops(b) /\ ~Returns(b) /\ HasM(b, "M98")

\* The stack with its innermost call at the next block.
Advanced == [stack EXCEPT ![Len(stack)].index = @ + 1]

\* An executed block takes the next block number.
Numbered ==
  /\ blocks' = blocks + 1
  /\ trace' = Append(trace, [index |-> Top.index, number |-> blocks])

ExecuteBlock ==
  /\ AtBlock
  /\ ~Stops(Current) /\ ~Returns(Current) /\ ~Calls(Current)
  /\ execute(Current)
  /\ Numbered
  /\ stack' = Advanced
  /\ UNCHANGED program

\* The stopping block is executed and ends the range it is in.
Stop ==
  /\ AtBlock
  /\ Stops(Current)
  /\ execute(Current)
  /\ Numbered
  /\ stack' = Front(stack)
  /\ UNCHANGED program

\* M99, or the end of the range.
Return ==
  /\ Running
  /\ Top.repeats = 0
  /\ Top.index <= Top.last => Returns(Current)
  /\ stack' = Front(stack)
  /\ UNCHANGED <<vars, program, trace>>

\* An M98 begins its calls when P names a body; L0 makes none.
BeginCall ==
  /\ AtBlock
  /\ Calls(Current)
  /\ Has(Current, "p") => Current.p \in DOMAIN subprogram_table
  /\ stack' = IF Has(Current, "p") /\ Word(Current, "l", 1) > 0
              THEN [stack EXCEPT ![Len(stack)].repeats = Word(Current, "l", 1)]
              ELSE Advanced
  /\ UNCHANGED <<vars, program, trace>>

\* SubprogramTooDeep: the range about to be entered lies deeper than the limit.
TooDeep == Len(stack) > MaxDepth

\* Slip: the repeat is taken off only when it was the last one.
RepeatsKept == IF Top.repeats = 1 THEN 0 ELSE Top.repeats

RepeatsLeft == Top.repeats - 1

\* One repeat of the body; after the last one the caller goes on.
EnterBody ==
  /\ Running
  /\ Top.repeats > 0
  /\ ~TooDeep
  /\ LET body == subprogram_table[Current.p]
         caller == [Top EXCEPT !.repeats = RepeatsLeft,
                               !.index = IF RepeatsLeft = 0 THEN @ + 1 ELSE @]
     IN  stack' = Append(Append(Front(stack), caller), Frame(body.first, body.last))
  /\ UNCHANGED <<vars, program, trace>>

\* An unknown O number, or a call too deep, ends the parse.
CallFails ==
  /\ \/ AtBlock /\ Calls(Current) /\ Has(Current, "p") /\ Current.p \notin DOMAIN subprogram_table
     \/ Running /\ Top.repeats > 0 /\ TooDeep
  /\ status' = "error"
  /\ UNCHANGED <<state, position, g92, offsets, epochs, segments, events,
                 unmodelled_retracts, blocks, program, stack, trace>>

Finished == ~Running /\ UNCHANGED programVars

ProgramNext ==
  ExecuteBlock \/ Stop \/ Return \/ BeginCall \/ EnterBody \/ CallFails \/ Finished

\* The parse goes on while it runs: weak fairness of ProgramNext, whose ENABLED
\* is Running as long as no running parse deadlocks.
Progress == []<>(~Running) \/ []<><<ProgramNext>>_programVars

ProgramSpec == ProgramInit /\ [][ProgramNext]_programVars /\ Progress
-----------------------------------------------------------------------------
(* Properties. *)

Index(p) == 1 .. Len(p) + 1

\* The blocks a program is longhand for: bodies in the place of their calls, as
\* often as the call says, up to the M30 of the main program. Only as deep as
\* calls may go.
Longhand(p) ==
  LET table == subprogram_table
      flat[i \in Index(p), last \in 0 .. Len(p), d \in 0 .. MaxDepth + 1] ==
        LET after == flat[i + 1, last, d]
            body == table[p[i].p]
            once == flat[body.first, body.last, d + 1]
        IN  IF i > last \/ d > MaxDepth THEN <<>>
            ELSE IF Stops(p[i]) THEN <<i>>
            ELSE IF Returns(p[i]) THEN <<>>
            ELSE IF ~Calls(p[i]) THEN <<i>> \o after
            ELSE IF ~Has(p[i], "p") THEN after
            ELSE IF p[i].p \notin DOMAIN table THEN <<>>
            ELSE FlattenSeq([n \in 1 .. Word(p[i], "l", 1) |-> once]) \o after
  IN  flat[1, Len(p), 0]

\* No body stops the program, and no call, return or end is marked with a slash.
Plain ==
  /\ \A n \in DOMAIN subprogram_table :
       \A i \in subprogram_table[n].first .. subprogram_table[n].last : ~Stops(program[i])
  /\ \A i \in DOMAIN program :
       Stops(program[i]) \/ Returns(program[i]) \/ Calls(program[i]) => ~Skipped(program[i])

\* A program with calls is its longhand: the same blocks are executed in the
\* same order, and each has a block number of its own, also when a body runs
\* twice. When the parse ends without error the whole longhand has been.
CallsAreLonghand ==
  Plain =>
    /\ \A k \in DOMAIN trace : trace[k].number = k - 1
    /\ LET done == [k \in DOMAIN trace |-> trace[k].index]
       IN  /\ status = "running" => IsPrefix(done, Longhand(program))
           /\ status = "running" /\ stack = <<>> => done = Longhand(program)

\* However a program's calls go round, no more of them are open than allowed.
DepthBounded == Len(stack) <= MaxDepth + 1

\* Every program's parse ends: calls are bounded in depth and in number.
Terminates == <>(stack = <<>> \/ status = "error")

\* After G92 has made the position read as programmed, an absolute move to the
\* same words goes nowhere, whatever the units, the work offset and any earlier
\* shift, while no tool length displaces the tip.
G92ReadsAsProgrammed ==
  [][AtBlock /\ apply_g92(Current)
       /\ Word(Current, "nonmodal", None) = "G92"
       /\ tool_length_correction(state') = 0
     => \A a \in DOMAIN Current \cap Axis :
          axis_value(state', Current, a) + active_offset(state')[a] + g92'[a]
            = position[a]]_programVars

\* "Every coordinate in the IR comes out of this, and the order is the contract":
\* the bottom a cycle block gives in absolute words is where those words would
\* take a straight move, tool length offset included.
CycleDepthIsLonghand ==
  [][AtBlock /\ fire_cycle(Current) /\ Has(Current, "z") /\ state'.distance = "G90"
     => state'.cycle.z = target(state', Current, position).z]_programVars
=============================================================================
