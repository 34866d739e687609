------------------------------- MODULE Cycles -------------------------------
(***************************************************************************)
(* crates/chipbreaker-gcode/src/cycles.rs: what one firing of a canned      *)
(* cycle expands to. Positions are machine positions of two axes: x stands  *)
(* for the two axes of the plane, z is the spindle's. A motion is a record  *)
(* of its kind, "rapid" or "linear", and where it ends.                     *)
(***************************************************************************)
EXTENDS Integers, Sequences, FiniteSets, SequencesExt

CONSTANTS
  None,      \* the absence of an optional value
  MaxPecks   \* the most pecks one firing may make, MAX_PECKS in the code

\* The codes that are cycles, by what their motion looks like.
Drills == {"G81", "G82", "G86"}
Bores == {"G84", "G85", "G87", "G88", "G89", "G74"}
Pecks == {"G73", "G83"}
CycleKinds == Drills \cup Bores \cup Pecks

retracts_at_feed(kind) == kind \in Bores

Rapid(x, z) == [kind |-> "rapid", to |-> [x |-> x, z |-> z]]
Feed(x, z) == [kind |-> "linear", to |-> [x |-> x, z |-> z]]

\* The pecks of a hole: Q deep each, the last one ending at the bottom.
IsPecking(request) ==
  request.kind \in Pecks /\ request.peck # None /\ request.peck > 0

PeckCount(request) ==
  LET travel == request.r_plane - request.bottom
  IN  IF travel <= 0 THEN 0 ELSE (travel + request.peck - 1) \div request.peck

\* CycleError::TooManyPecks is raised on the distance, whichever way it goes.
TooManyPecks(request) ==
  /\ IsPecking(request)
  /\ LET travel == request.r_plane - request.bottom
         distance == IF travel < 0 THEN -travel ELSE travel
     IN  (distance + request.peck - 1) \div request.peck > MaxPecks

DepthAfter(request, n) ==
  Max({request.r_plane - n * request.peck, request.bottom})

\* Slip: the re-entry goes to where the next peck ends.
BetweenPecksTooDeep(request, depth) ==
  LET x == request.hole.x
      next == Max({depth - request.peck, request.bottom})
  IN  IF request.kind = "G83"
      THEN <<Rapid(x, request.r_plane), Rapid(x, next)>>
      ELSE <<>>

\* What follows a peck that stops short of the bottom: the chip-break
\* oscillation if its clearance is known, or the full retract.
BetweenPecks(request, depth) ==
  LET x == request.hole.x
      clearance == request.chip_break
  IN  IF request.kind = "G83"
      THEN <<Rapid(x, request.r_plane), Rapid(x, depth)>>
      ELSE IF clearance # None /\ clearance > 0
           THEN <<Rapid(x, depth + clearance), Rapid(x, depth)>>
           ELSE <<>>

PeckMoves(request) ==
  FlattenSeq([n \in 1 .. PeckCount(request) |->
    LET depth == DepthAfter(request, n)
    IN  <<Feed(request.hole.x, depth)>>
          \o (IF depth > request.bottom THEN BetweenPecks(request, depth) ELSE <<>>)])

\* Where the tool is left: the initial Z under G98, the R plane under G99.
RetractTo(request) ==
  IF request.return_to_initial THEN request.initial_z ELSE request.r_plane

\* Over the hole at the present height, down to R, to the bottom, and out.
expand(request) ==
  LET x == request.hole.x
  IN  <<Rapid(x, request.from.z), Rapid(x, request.r_plane)>>
        \o (IF IsPecking(request) THEN PeckMoves(request)
            ELSE <<Feed(x, request.bottom)>>)
        \o <<IF retracts_at_feed(request.kind) THEN Feed(x, RetractTo(request))
             ELSE Rapid(x, RetractTo(request))>>
=============================================================================
