------------------------------ MODULE Resolver ------------------------------
(***************************************************************************)
(* crates/chipbreaker-gcode/src/resolve.rs: the machine the blocks of an NC *)
(* program are interpreted against, one action per way through `execute`.   *)
(*                                                                         *)
(* A block is the set of its words: a function from the words it carries to *)
(* their values. The words are skip (a leading slash), the modal groups     *)
(* plane, distance, arc_distance, feed_mode, units, cycle_return,           *)
(* path_control, work_offset, tool_length and motion, the non-modal code,   *)
(* f, s, t, h, p, q, r, l, m (the set of its M codes), the axis words x and *)
(* z, and nopoint when those have no decimal point. Arcs are moves to their *)
(* end; rotary axes, statistics and warnings are left out. Lengths are      *)
(* integers.                                                                *)
(*                                                                         *)
(* An error ends the parse, and with it everything it built.                *)
(***************************************************************************)
EXTENDS Cycles

CONSTANTS
  OffsetIds,        \* the work offsets; G54 is 1
  Inch,             \* lengths per inch, 25.4 in the code
  Lengths,          \* the tool library: tool number to gauge length, or None
  Increment,        \* legacy_increment, or None
  ExecuteBlockSkip, \* execute_block_skip
  ChipBreak         \* chip_break_clearance, or None

Axis == {"x", "z"}

ASSUME ResolverAssumption ==
  /\ None \notin Int
  /\ 1 \in OffsetIds
  /\ Inch \in Nat \ {0}
  /\ Lengths = None \/ \A t \in DOMAIN Lengths : Lengths[t] \in Int
  /\ Increment = None \/ Increment \in Nat
  /\ ExecuteBlockSkip \in BOOLEAN
  /\ ChipBreak = None \/ ChipBreak \in Nat

VARIABLES
  state,      \* ModalState
  position,   \* where the tool tip is, in machine coordinates
  g92,        \* the G92 shift
  offsets,    \* the work offsets that have a value
  epochs,     \* every value each of them has held, and from which segment
  segments,   \* the motion emitted
  events,     \* the events, each with the segment it precedes
  unmodelled_retracts,
  blocks,     \* how many blocks have been executed
  status      \* "running" or "error"

vars == <<state, position, g92, offsets, epochs, segments, events,
          unmodelled_retracts, blocks, status>>

Origin == [a \in Axis |-> 0]

PowerUp ==
  /\ state = [plane |-> "G17", distance |-> "G90", arc_distance |-> "G91.1",
              feed_mode |-> "G94", units |-> "G21", cycle_return |-> "G98",
              path_control |-> "G61", work_offset |-> 1, tool_length |-> None, motion |-> "G0",
              f |-> None, s |-> None, t |-> 0, cycle |-> None]
  /\ position = Origin
  /\ g92 = Origin
  /\ offsets = [id \in {1} |-> Origin]
  /\ epochs = [id \in {1} |-> <<[value |-> Origin, from_segment |-> 0]>>]
  /\ segments = <<>>
  /\ events = <<>>
  /\ unmodelled_retracts = 0
  /\ blocks = 0

Init == PowerUp /\ status = "running"
-----------------------------------------------------------------------------
Has(b, word) == word \in DOMAIN b
Word(b, word, default) == IF Has(b, word) THEN b[word] ELSE default
HasM(b, code) == Has(b, "m") /\ code \in b.m

\* What block assembly makes of the words of a line: numbers where numbers are due,
\* a tool length code of that group, a count (as_u32 makes no L of any other), and
\* a list of M codes, none of which is the name of an event of another kind.
IsBlock(b) ==
  /\ \A word \in {"x", "z", "f", "q", "r"} : Has(b, word) => b[word] \in Int
  /\ Has(b, "tool_length") => b.tool_length \in {"G43", "G44", "G49"}
  /\ Has(b, "l") => b.l \in Nat
  /\ Has(b, "m") => IsFiniteSet(b.m) /\ "WorkOffsetChanged" \notin b.m

has_axis_words(b) == \E a \in Axis : Has(b, a)

Magnitude(n) == IF n < 0 THEN -n ELSE n

\* G43 and G44, by the H word or the tool's own number; G49.
ToolLength(b, tool) ==
  LET h == Word(b, "h", tool)
  IN  IF ~Has(b, "tool_length") THEN state.tool_length
      ELSE CASE b.tool_length = "G43" -> [sign |-> 1, h |-> h]
             [] b.tool_length = "G44" -> [sign |-> -1, h |-> h]
             [] b.tool_length = "G49" -> None

\* M3 and M4 turn the speed's sign, M5 stops; an S word alone only sets it.
Spindle(b) ==
  LET speed == Word(b, "s", state.s)
      turning == IF speed = None THEN 0 ELSE Magnitude(speed)
  IN  CASE HasM(b, "M3") -> turning
        [] HasM(b, "M4") -> -turning
        [] HasM(b, "M5") -> 0
        [] OTHER -> speed

\* The modal state once every word but those of the motion has been read.
Words(b) ==
  [state EXCEPT
     !.plane = Word(b, "plane", @), !.distance = Word(b, "distance", @),
     !.arc_distance = Word(b, "arc_distance", @), !.feed_mode = Word(b, "feed_mode", @),
     !.units = Word(b, "units", @), !.cycle_return = Word(b, "cycle_return", @),
     !.path_control = Word(b, "path_control", @),
     !.work_offset = Word(b, "work_offset", @),
     !.f = Word(b, "f", @), !.s = Spindle(b), !.t = Word(b, "t", @),
     !.tool_length = ToolLength(b, Word(b, "t", state.t))]

\* The motion group; G80 forgets the cycle.
Motion(b, m) ==
  LET motion == Word(b, "motion", m.motion)
  IN  [m EXCEPT !.motion = motion, !.cycle = IF motion = "G80" THEN None ELSE @]
-----------------------------------------------------------------------------
(* Coordinates. m is the modal state in force when the block moves. *)

to_mm(m, value) == value * (IF m.units = "G20" THEN Inch ELSE 1)

\* An axis word; without a decimal point it counts increments, and is refused
\* if their size is unknown, unless it is zero.
axis_value(m, b, a) ==
  to_mm(m, IF Has(b, "nopoint") /\ Increment # None THEN b[a] * Increment ELSE b[a])

MissingPoint(b, axes) ==
  Has(b, "nopoint") /\ Increment = None /\ \E a \in axes : Word(b, a, 0) # 0

active_offset(m) ==
  IF m.work_offset \in DOMAIN offsets THEN offsets[m.work_offset] ELSE Origin

frame_offset(m) == [a \in Axis |-> active_offset(m)[a] + g92[a]]

UnknownOffset(m) ==
  m.tool_length # None /\ Lengths # None /\ m.tool_length.h \notin DOMAIN Lengths

\* Zero when H names the tool in the spindle; along z only.
tool_length_correction(m) ==
  IF m.tool_length = None \/ Lengths = None THEN 0
  ELSE LET h == Lengths[m.tool_length.h]
           t == IF m.t \in DOMAIN Lengths THEN Lengths[m.t] ELSE h
       IN  m.tool_length.sign * (h - t)

\* Where the block's axis words lead from `at`, given the offset they are
\* measured from. A delta is a delta in every frame.
TargetFrom(m, b, at, offset) ==
  LET correction == [x |-> 0, z |-> tool_length_correction(m)]
  IN  [a \in Axis |->
        IF ~Has(b, a) THEN at[a]
        ELSE IF m.distance = "G91" THEN at[a] + axis_value(m, b, a)
        ELSE axis_value(m, b, a) + offset[a] + correction[a]]

target(m, b, at) == TargetFrom(m, b, at, frame_offset(m))

\* A move of G0 to G3: G53 takes it out of the work offset and the G92 shift.
Destination(m, b) ==
  IF Word(b, "nonmodal", None) = "G53" THEN TargetFrom(m, b, position, Origin)
  ELSE target(m, b, position)

\* The rate in the units of the moment; under G93 it is no distance.
feed_mm(m) == IF m.f = None \/ m.feed_mode = "G93" THEN m.f ELSE to_mm(m, m.f)

\* The rate of a move; a rapid has none, and neither has a feed move before any
\* F word, which the code would emit at 0.0.
feed_spec(m, kind) == IF kind = "rapid" THEN None ELSE feed_mm(m)

\* What a list of moves from `at` becomes, move by move. A segment's step is its
\* place in a cycle's expansion. Its offset is not in the IR: it is the offset it
\* was made under, kept to compare the IR's epochs with.
segment(m, at, moves, i) ==
  [kind |-> moves[i].kind, start |-> IF i = 1 THEN at ELSE moves[i - 1].to,
   end |-> moves[i].to, tool |-> m.t, feed |-> feed_spec(m, moves[i].kind),
   step |-> moves[i].step, offset |-> active_offset(m)]

\* A straight move that goes nowhere is dropped.
Kept(s) == IF s.start # s.end \/ s.kind = "arc" THEN <<s>> ELSE <<>>

\* Slip: every move starts where the block found the tool.
EmittedFromStart(m, at, moves) ==
  FlattenSeq([i \in DOMAIN moves |-> Kept([segment(m, at, moves, i) EXCEPT !.start = at])])

\* The segments that the moves add: each starts where the move before it ended.
Emitted(m, at, moves) ==
  FlattenSeq([i \in DOMAIN moves |-> Kept(segment(m, at, moves, i))])

\* A move of no cycle.
Single(kind, to) == [kind |-> kind, to |-> to, step |-> None]

End(at, moves) == IF moves = <<>> THEN at ELSE Last(moves).to
-----------------------------------------------------------------------------
(* Canned cycles. m is the modal state with the block's motion applied. *)

\* The parameters persist. R is read before Z, which G91 measures from it.
cycle_params(m, b) ==
  LET here == position.z
      before == IF m.cycle # None THEN m.cycle
                ELSE [z |-> here, r |-> here, q |-> None, p |-> None, initial_z |-> here]
      Level(value, base) ==
        IF m.distance = "G91" THEN base + value ELSE value + frame_offset(m).z
      r == IF Has(b, "r") THEN Level(to_mm(m, b.r), before.initial_z) ELSE before.r
  IN  [z |-> IF Has(b, "z") THEN Level(axis_value(m, b, "z"), r) ELSE before.z,
       r |-> r,
       q |-> IF Has(b, "q") THEN Magnitude(to_mm(m, b.q)) ELSE before.q,
       p |-> Word(b, "p", before.p),
       initial_z |-> before.initial_z]

Request(m, b, from) ==
  LET params == cycle_params(m, b)
  IN  [kind |-> m.motion, from |-> from, hole |-> target(m, b, from),
       bottom |-> params.z, r_plane |-> params.r, initial_z |-> params.initial_z,
       return_to_initial |-> m.cycle_return = "G98", peck |-> params.q,
       chip_break |-> ChipBreak]

Repeats(b) == Word(b, "l", 1)

\* Each move of one expansion, tagged with its place in it.
provenance_for(moves) ==
  [i \in DOMAIN moves |-> [kind |-> moves[i].kind, to |-> moves[i].to, step |-> i]]

\* The moves of the first n repeats, each aimed from where the last one ended.
CycleMoves(m, b) ==
  LET moves[n \in 0 .. Repeats(b)] ==
        IF n = 0 THEN <<>>
        ELSE moves[n - 1]
               \o provenance_for(expand(Request(m, b, End(position, moves[n - 1]))))
  IN  moves

\* Why a cycle block ends the parse: its code is no cycle, a word lacks its
\* point, the peck is absurdly small, or a feed move has no feed.
CycleRefused(m, b) ==
  \/ m.motion \notin CycleKinds
  \/ MissingPoint(b, {"z"})
  \/ /\ Repeats(b) > 0
     /\ \/ MissingPoint(b, Axis)
        \/ TooManyPecks(Request(m, b, position))
        \/ /\ m.f = None
           /\ \E move \in ToSet(expand(Request(m, b, position))) : move.kind # "rapid"
-----------------------------------------------------------------------------
(* Events, each with the segment it precedes. *)

Event(n, kind, value) == [at |-> n, kind |-> kind, value |-> value]

\* The H number of a length compensation.
Number(tool_length) == IF tool_length = None THEN None ELSE tool_length.h

\* Those of the block's words, in the order the words are read.
WordEvents(b) ==
  LET n == Len(segments)
      ms == SetToSeq(Word(b, "m", {}))
  IN  (IF Has(b, "work_offset") THEN <<Event(n, "WorkOffsetChanged", b.work_offset)>> ELSE <<>>)
        \o (IF Has(b, "tool_length")
             THEN <<Event(n, "ToolLengthOffset", Number(Words(b).tool_length))>> ELSE <<>>)
        \o [i \in DOMAIN ms |-> Event(n, ms[i], None)]
        \o (IF Word(b, "nonmodal", None) = "G4" THEN <<Event(n, "Dwell", None)>> ELSE <<>>)

\* What the block records: its words' events and then `more`.
Record(b, more) == events' = events \o WordEvents(b) \o more
-----------------------------------------------------------------------------
(* The ways through `execute`. *)

Parameters == {"G10", "G92", "G92.1", "G92.3"}
References == {"G28", "G30"}

Skipped(b) == Has(b, "skip") /\ ~ExecuteBlockSkip

\* The G10 block names an offset to change.
NamesOffset(b) == Word(b, "p", None) \in OffsetIds

\* The modal state a block that may move moves under.
Moving(b) == Motion(b, Words(b))

\* The block moves: it has axis words, and they are not parameters.
Moves(b) ==
  has_axis_words(b) /\ Word(b, "nonmodal", None) \notin Parameters \cup References

\* The block ends the parse with an error.
Refused(b) ==
  LET nonmodal == Word(b, "nonmodal", None)
      m == Moving(b)
  IN  \/ Has(b, "tool_length") /\ UnknownOffset(Words(b))
      \/ nonmodal = "G10" /\ NamesOffset(b) /\ MissingPoint(b, Axis)
      \/ nonmodal \in References \cup {"G92"} /\ MissingPoint(b, Axis)
      \/ /\ Moves(b)
         /\ \/ m.motion \in {"G0", "G1", "G2", "G3"} /\ MissingPoint(b, Axis)
            \/ m.motion \in {"G1", "G2", "G3"} /\ m.f = None
            \/ m.motion \in {"G2", "G3"} /\ Has(b, "badarc")
            \/ m.motion \notin {"G0", "G1", "G2", "G3", "G80"} /\ CycleRefused(m, b)

\* The block is executed to its end.
Executed(b) == status = "running" /\ ~Skipped(b) /\ ~Refused(b)

SkipBlock(b) ==
  /\ status = "running"
  /\ Skipped(b)
  /\ UNCHANGED <<state, position, g92, offsets, epochs, segments, events,
                 unmodelled_retracts, status>>

Fail(b) ==
  /\ status = "running"
  /\ ~Skipped(b)
  /\ Refused(b)
  /\ status' = "error"
  /\ UNCHANGED <<state, position, g92, offsets, epochs, segments, events,
                 unmodelled_retracts>>

\* G10: L2 gives the offset itself, L20 the reading the present position shall
\* have.
NewOffset(m, b) ==
  LET before == IF b.p \in DOMAIN offsets THEN offsets[b.p] ELSE Origin
  IN  [a \in Axis |->
        IF ~Has(b, a) THEN before[a]
        ELSE IF Word(b, "l", 2) = 20 THEN position[a] - axis_value(m, b, a)
        ELSE axis_value(m, b, a)]

Put(map, id, value) ==
  [i \in DOMAIN map \cup {id} |-> IF i = id THEN value ELSE map[i]]

EpochsOf(id) == IF id \in DOMAIN epochs THEN epochs[id] ELSE <<>>

\* Slip: the epoch starts one segment late.
set_offset_late(id, value) ==
  /\ offsets' = Put(offsets, id, value)
  /\ epochs' = Put(epochs, id, Append(EpochsOf(id),
                  [value |-> value, from_segment |-> Len(segments) + 1]))

\* The new value, and an epoch of it from the next segment on.
set_offset(id, value) ==
  /\ offsets' = Put(offsets, id, value)
  /\ epochs' = Put(epochs, id, Append(EpochsOf(id),
                  [value |-> value, from_segment |-> Len(segments)]))

apply_g10(b) ==
  /\ Executed(b)
  /\ Word(b, "nonmodal", None) = "G10"
  /\ state' = Words(b)
  /\ IF NamesOffset(b)
     THEN /\ set_offset(b.p, NewOffset(state', b))
          /\ Record(b, <<Event(Len(segments), "WorkOffsetRedefined", b.p)>>)
     ELSE /\ UNCHANGED <<offsets, epochs>>
          /\ Record(b, <<>>)
  /\ UNCHANGED <<position, g92, segments, unmodelled_retracts, status>>

\* Slip: the shift is taken against the machine origin.
ShiftFromOrigin(m, b) ==
  [a \in Axis |-> IF Has(b, a) THEN position[a] - axis_value(m, b, a) ELSE g92[a]]

\* The shift that makes the present position read as programmed.
Shift(m, b) ==
  [a \in Axis |->
    IF Has(b, a) THEN position[a] - active_offset(m)[a] - axis_value(m, b, a) ELSE g92[a]]

\* G92, its cancellations G92.1 and G92.2, and G92.3, which does nothing.
apply_g92(b) ==
  LET code == Word(b, "nonmodal", None)
  IN  /\ Executed(b)
      /\ code \in {"G92", "G92.1", "G92.3"}
      /\ state' = Words(b)
      /\ g92' = CASE code = "G92" -> Shift(state', b)
                  [] code = "G92.1" -> Origin
                  [] code = "G92.3" -> g92
      /\ Record(b, IF code = "G92.3" THEN <<>>
                   ELSE <<Event(Len(segments), IF code = "G92" THEN "ShiftSet" ELSE "ShiftCleared", None)>>)
      /\ UNCHANGED <<position, offsets, epochs, segments, unmodelled_retracts, status>>

\* G28 and G30: a rapid to the block's point and one to the machine's zero.
ReturnToReference(b) ==
  /\ Executed(b)
  /\ Word(b, "nonmodal", None) \in References
  /\ state' = Words(b)
  /\ LET moves == <<Single("rapid", target(state', b, position)), Single("rapid", Origin)>>
     IN  segments' = segments \o Emitted(state', position, moves)
  /\ position' = Origin
  /\ Record(b, <<>>)
  /\ UNCHANGED <<g92, offsets, epochs, unmodelled_retracts, status>>

\* No axis words, or no motion mode to read them in.
NoMotion(b) ==
  /\ Executed(b)
  /\ Word(b, "nonmodal", None) \notin Parameters \cup References
  /\ state' = Moving(b)
  /\ ~has_axis_words(b) \/ state'.motion = "G80"
  /\ Record(b, <<>>)
  /\ UNCHANGED <<position, g92, offsets, epochs, segments, unmodelled_retracts, status>>

\* What one move of G0 to G3 becomes in the IR.
MoveKind(motion) ==
  CASE motion = "G0" -> "rapid" [] motion = "G1" -> "linear" [] OTHER -> "arc"

\* G0 to G3. An arc is emitted even when it ends where it began: a full circle.
Move(b) ==
  /\ Executed(b)
  /\ Moves(b)
  /\ state' = Moving(b)
  /\ state'.motion \in {"G0", "G1", "G2", "G3"}
  /\ position' = Destination(state', b)
  /\ segments' = segments \o Emitted(state', position,
       <<Single(MoveKind(state'.motion), position')>>)
  /\ Record(b, <<>>)
  /\ UNCHANGED <<g92, offsets, epochs, unmodelled_retracts, status>>

\* The firings of the block whose chip-break oscillation is left out.
Omitted(m, b) ==
  IF m.motion = "G73" /\ IsPecking(Request(m, b, position)) /\ ChipBreak = None
  THEN Repeats(b) ELSE 0

\* A cycle block fires once per repeat; L0 only stores the parameters.
fire_cycle(b) ==
  LET m == Moving(b)
      moves == CycleMoves(m, b)
      Done(n) == Emitted(m, position, moves[n])
      last == Repeats(b)
  IN  /\ Executed(b)
      /\ Moves(b)
      /\ m.motion \in CycleKinds
      /\ state' = [m EXCEPT !.cycle = cycle_params(m, b)]
      /\ segments' = segments \o Done(last)
      /\ position' = End(position, moves[last])
      /\ Record(b, IF m.motion = "G82" /\ state'.cycle.p # None
                   THEN [n \in 1 .. last |->
                          Event(Len(segments) + Len(Done(n)), "Dwell", None)]
                   ELSE <<>>)
      /\ unmodelled_retracts' = unmodelled_retracts + Omitted(m, b)
      /\ UNCHANGED <<g92, offsets, epochs, status>>

execute(b) ==
  \/ SkipBlock(b)
  \/ Fail(b)
  \/ apply_g10(b)
  \/ apply_g92(b)
  \/ ReturnToReference(b)
  \/ NoMotion(b)
  \/ Move(b)
  \/ fire_cycle(b)

-----------------------------------------------------------------------------
(* Properties. *)

\* What `finish` hands on is a toolpath that Toolpath::new accepts, whichever
\* way the parse went: every segment starts where the one before it ended, the
\* events stand in the order of their segments, and none lies past the end. The
\* last segment ends where the machine is, and every feed move has a rate: also
\* one out of a cycle, whose feed moves no block spells out.
ToolpathValid ==
  LET n == Len(segments)
  IN  /\ \A i \in 1 .. n - 1 : segments[i].end = segments[i + 1].start
      /\ \A i \in 1 .. n : segments[i].kind # "rapid" => segments[i].feed # None
      /\ n > 0 => segments[1].start = Origin /\ segments[n].end = position
      /\ \A i \in 1 .. Len(events) - 1 : events[i].at <= events[i + 1].at
      /\ \A i \in 1 .. Len(events) : events[i].at \in 0 .. n

\* Which offset a reader of the IR finds selected at segment i (counted from 0).
OffsetSelected(i) ==
  LET selections == {k \in DOMAIN events : events[k].kind = "WorkOffsetChanged" /\ events[k].at <= i}
  IN  IF selections = {} THEN 1 ELSE events[Max(selections)].value

\* The offset in force there: the last value its epochs give it by then.
OffsetRead(i) ==
  LET known == EpochsOf(OffsetSelected(i))
      past == {k \in DOMAIN known : known[k].from_segment <= i}
  IN  IF past = {} THEN Origin ELSE known[Max(past)].value

\* The header's epochs and the events are all that is left of the work offsets
\* once the parse is over: from them a reader recovers, for every segment, the
\* offset the segment was made under, however often G10 and G54.. alternated.
OffsetsRecoverable ==
  \A i \in 1 .. Len(segments) : OffsetRead(i - 1) = segments[i].offset

\* A peck's re-entry rapids back down through space already cut: a rapid that
\* comes two moves after a feed of the same firing, with a rapid between, ends no
\* lower than the feed did. About `peck_moves` and the numbering of a firing's moves.
ReentryThroughAir ==
  \A i \in 3 .. Len(segments) :
    LET feed == segments[i - 2]
        retract == segments[i - 1]
        reentry == segments[i]
    IN  /\ feed.kind = "linear" /\ retract.kind = "rapid" /\ reentry.kind = "rapid"
        /\ \A s \in {feed, retract, reentry} : s.step # None
        /\ retract.step = feed.step + 1 /\ reentry.step = feed.step + 2
        => reentry.end.z >= feed.end.z
=============================================================================
