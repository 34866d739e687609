---------------------------- MODULE MCParallelCut ----------------------------
(* Two bundles of three rays. Volumes have two significant bits, so that     *)
(* 4 + 1 + 1 is 4 and 1 + 1 + 4 is 6: any regrouping of the removed volumes  *)
(* shows. `chip` weighs nothing: removing it rearranges a ray's spans only.  *)
EXTENDS ParallelCut

CONSTANTS big, small, chip

Cells == {big, small, chip}
Weights == [c \in Cells |-> CASE c = big -> 4 [] c = small -> 1 [] c = chip -> 0]

\* A motion that sweeps `cells` of the rays first .. last of both bundles, and
\* in the second bundle one ray fewer.
Sweep(isExact, first, last, cells) ==
  [exact |-> isExact, tool |-> 0, box |-> [b \in Bundle |-> <<first, last>>],
   swept |-> [b \in Bundle |-> [r \in Ray |->
                IF first <= r /\ r <= last /\ (b = 1 \/ r > first) THEN cells ELSE {}]]]

Face == Sweep(TRUE, 0, 2, {big, small})
Dust == Sweep(TRUE, 0, 1, {chip})
Left == Sweep(TRUE, 0, 0, {small, chip})
Right == Sweep(TRUE, 2, 2, Cells)
Helix == Sweep(FALSE, 1, 2, {small, chip})

MCPrograms == {<<>>, <<Left, Right, Face>>, <<Dust, Face, Helix, Right>>}

MCStocks ==
  {[b \in Bundle |-> [r \in Ray |-> IF r = 0 THEN Cells ELSE {small, chip}]],
   [b \in Bundle |-> [r \in Ray |-> IF r = b THEN Cells ELSE {small}]]}

MCSchedules ==
  {[threads |-> 1, chunk |-> 2, size |-> 1, chaos |-> FALSE],
   [threads |-> 1, chunk |-> 1, size |-> 0, chaos |-> TRUE],
   [threads |-> 2, chunk |-> 2, size |-> 1, chaos |-> FALSE],
   [threads |-> 2, chunk |-> 0, size |-> 3, chaos |-> TRUE],
   [threads |-> 3, chunk |-> 1, size |-> 4, chaos |-> FALSE]}
==============================================================================
