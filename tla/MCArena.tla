------------------------------- MODULE MCArena -------------------------------
(* Three rays and one inline slot: every ray can spill, grow, shrink in     *)
(* place, return inline and be moved by a compaction while its neighbours   *)
(* are spilled too. The lists of each length differ in every position, so a *)
(* span read from a wrong cell shows.                                       *)
EXTENDS Arena

CONSTANTS a, b

Spans == {a, b}
Lists == {<<>>, <<a>>, <<a, b>>, <<b, a>>, <<a, b, a>>}
==============================================================================
