----------------------------- MODULE MCProgram -----------------------------
(***************************************************************************)
(* Whole programs for Program. Without calls: every program of three blocks *)
(* out of 24, moves with and without a feed, both distance modes and units, *)
(* two work offsets and their redefinition, G92, a reference return, and    *)
(* cycles that persist, repeat, peck and refuse; and of four out of eleven  *)
(* of them. With calls: a body called once, repeatedly, from another body,  *)
(* not at all and without end; bodies without M99, twice defined and fallen *)
(* into; calls of nothing; an M30 where it is unusual; and every program of *)
(* up to five of seven pieces.                                              *)
(*                                                                         *)
(* Texts for Parse: every line of up to three items, and every line of four *)
(* that are words, blanks or comments; two such lines with a comment across *)
(* them; and a few whole texts.                                             *)
(***************************************************************************)
EXTENDS Parse

F == [f |-> 5]
X(n) == [motion |-> "G1", x |-> n]
Step == [distance |-> "G91", motion |-> "G0", x |-> 1]
O(n) == [o |-> n]
Call(n) == [m |-> {"M98"}, p |-> n]
CallTimes(n, times) == [m |-> {"M98"}, p |-> n, l |-> times]
M(code) == [m |-> {code}]
Hole == [motion |-> "G81", x |-> 1, z |-> -2, r |-> 1]

MCPrograms == {
  <<F, Call(1), X(4), M("M30"), O(1), X(1), X(2), M("M99")>>,
  <<F, CallTimes(1, 3), M("M30"), O(1), Step, M("M99")>>,
  <<F, Hole, CallTimes(1, 2), M("M30"), O(1), Step, Call(2), M("M99"), O(2), Hole, M("M99")>>,
  <<F, CallTimes(1, 2), M("M30"), O(1), Step, CallTimes(1, 2), M("M99")>>,
  <<Call(1), M("M30"), O(1), M("M99")>>,
  <<F, CallTimes(1, 0), Call(9), M("M30")>>,
  <<F, [m |-> {"M98"}], X(1), O(1), X(2), M("M99"), X(3)>>,
  <<F, Call(2), M("M30"), O(1), X(1), O(2), X(2), M("M99"), O(2), X(3), M("M99")>>,
  <<F, Call(1), M("M30"), O(1), X(1)>>,
  <<F, X(1), Call(1), M("M30"), O(1), [distance |-> "G91"], Call(2), X(1), M("M99"),
    O(2), Call(3), M("M99"), O(3), Step, M("M99")>>,
  <<X(1), M("M30")>>,
  <<CallTimes(1, 3), CallTimes(2, 2), M("M30"), O(1), Call(2), M("M99"), O(2), F, M("M99")>>
}

\* Programs that end in a body, at M2 or at M20, and programs whose calls and ends are
\* marked with a slash.
UnusualPrograms == {
  <<F, Call(1), X(4), M("M30"), O(1), X(1), M("M30"), X(2), M("M99")>>,
  <<F, X(1), M("M2"), X(2)>>,
  <<F, Call(1), M("M20"), O(1), X(1), M("M99")>>,
  <<F, [skip |-> TRUE, m |-> {"M98"}, p |-> 1], X(4), M("M30"), O(1), X(1), M("M99")>>,
  <<F, X(1), [skip |-> TRUE, m |-> {"M30"}], X(2), M("M30")>>
}

\* Every short program of these blocks.
Pieces == {Step, O(1), O(2), Call(1), CallTimes(2, 2), M("M99"), M("M30")}

ShortPrograms == UNION {[1 .. n -> Pieces] : n \in 1 .. 5}

\* What a program without calls consists of: words whose effect outlasts them and
\* the motions that show it ...
Mixed == {
  [motion |-> "G0", x |-> 2, z |-> 3],
  [motion |-> "G1", x |-> 1],
  [distance |-> "G91"],
  [units |-> "G20"],
  [work_offset |-> 2],
  [nonmodal |-> "G10", p |-> 2, x |-> 7, z |-> 1],
  [nonmodal |-> "G10", p |-> 1, l |-> 20, x |-> 3],
  [nonmodal |-> "G92", x |-> 1, z |-> 0],
  [tool_length |-> "G43", h |-> 2, t |-> 1, s |-> 9, m |-> {"M3", "M6"}],
  [motion |-> "G73", x |-> 1, z |-> -3, r |-> 2, q |-> -2],
  [motion |-> "G83", x |-> 1, z |-> -2, r |-> 2, q |-> 2, f |-> 4, l |-> 2, cycle_return |-> "G99"]
}

\* ... and the rest.
MCBlocks == Mixed \cup {
  [motion |-> "G1", z |-> -4, f |-> 5],
  [motion |-> "G3", x |-> 2, f |-> 5],
  [motion |-> "G80", x |-> 1],
  [x |-> 4],
  [x |-> 1, z |-> 1, nopoint |-> TRUE],
  [distance |-> "G91", x |-> 9, skip |-> TRUE],
  [nonmodal |-> "G53", motion |-> "G0", z |-> 0],
  [nonmodal |-> "G92.1"],
  [nonmodal |-> "G28", z |-> 5, distance |-> "G91"],
  [tool_length |-> "G43", h |-> 3],
  [motion |-> "G73", z |-> -3, r |-> 2, q |-> 2, l |-> 0, x |-> 1],
  [motion |-> "G82", z |-> 0, r |-> 1, p |-> 1, l |-> 2],
  [motion |-> "G83", z |-> -9, q |-> 1]
}

MCLengths == (1 :> 10) @@ (2 :> 12)

FlatPrograms ==
  [1 .. 3 -> MCBlocks] \cup {<<F, a, b, c, d>> : a, b, c, d \in Mixed}

HandedPrograms == MCPrograms \cup UnusualPrograms \cup ShortPrograms \cup FlatPrograms
-----------------------------------------------------------------------------
I(is) == [is |-> is]
Letter(of) == [is |-> "letter", of |-> of]
Num(tenths) == [is |-> "number", tenths |-> tenths, point |-> tenths % 10 # 0, sign |-> tenths < 0]
Pt(tenths) == [is |-> "number", tenths |-> tenths, point |-> TRUE, sign |-> tenths < 0]

\* Words as they are written, letter and number.
W(of, tenths) == <<Letter(of), IF of \in {"G", "M", "N"} THEN Num(tenths) ELSE Pt(tenths)>>

Alone == {I(is) : is \in {"blank", "slash", "percent", "semicolon", "open", "close", "hash", "o",
                          "keyword", "marker", "equals", "other"}}
           \cup {Letter(of) : of \in {"G", "X", "R", "U"}} \cup {Num(0), Pt(-15)}

Items == {<<i>> : i \in Alone}

Pieces4 == {<<I(is)>> : is \in {"slash", "open", "close", "semicolon"}}
             \cup {W("X", 10), W("X", -25), W("G", 0)}

Codes == {W("G", 10 * n) : n \in {0, 2, 4, 10, 17, 18, 20, 28, 40, 41, 43, 49, 53, 54, 61, 64, 73, 80, 84, 90, 91, 92, 93, 94, 99}}
           \cup {W("G", n) : n \in {281, 331, 431, 541, 591, 593, 901, 911, 921, 923, -10}}
           \cup {W("M", 10 * n) : n \in {0, 2, 3, 4, 6, 8, 30, 55, 98, 99}}
           \cup {W("X", 20), W("Z", -30), W("F", 50), W("T", 10), W("H", 10), W("P", 20), W("L", -10), W("U", 0)}

ShortLines == {FlattenSeq(f) : f \in UNION {[1 .. n -> Items] : n \in 0 .. 3}}
MixedLines == {FlattenSeq(f) : f \in [1 .. 4 -> Pieces4]}
CodeLines == {W("F", 50) \o a \o b : a, b \in Codes}

\* A comment that may run on, and what may follow it.
Opened == {W("X", 10) \o <<I("open")>> \o m : m \in {<<>>, <<I("open")>>, <<I("close")>>, W("F", 50)}}
Followed == {FlattenSeq(f) : f \in [1 .. 3 -> {<<I("close")>>, <<I("open")>>, <<I("slash")>>, <<I("hash")>>, W("X", 20)}]}

MCTexts ==
  {<<>>} \cup {<<line>> : line \in ShortLines \cup MixedLines \cup CodeLines}
    \cup {<<W("F", 50) \o W("G", 0), a, b, W("X", 30)>> : a \in Opened, b \in Followed}
    \cup {
      <<<<I("percent")>>, W("O", 10), W("G", 210) \o W("G", 900) \o W("F", 90),
        W("G", 10) \o W("X", 10) \o <<I("blank")>> \o W("Z", -20), W("M", 980) \o W("P", 20),
        W("M", 300), W("O", 20), W("G", 930) \o W("X", 50), W("M", 990)>>,
      <<W("G", 0) \o W("X", 10), <<Letter("R"), Num(10), I("blank"), I("equals")>>>>,
      <<<<I("hash")>>, <<I("open"), I("marker"), I("close")>>>>,
      <<W("G", 410), <<I("hash")>>>>
    }
    \cup {<<W("F", 50) \o W("G", n) \o W("X", 10) \o W("Z", -30) \o W("R", 10)>>
          : n \in {740} \cup {10 * k : k \in 81 .. 89}}

NoTexts == {<<>>}

FlatAndNone == FlatPrograms \cup {<<>>}

AllPrograms == HandedPrograms \cup {<<>>} \cup {parse(lines).blocks : lines \in MCTexts}
=============================================================================
