------------------------------- MODULE MCJob -------------------------------
(***************************************************************************)
(* Jobs of one or two setups over four cells. The motions: one that opens a *)
(* cell and brings its shank where the first has been, one whose shank needs *)
(* that to have happened, and one that passes close to the stock. Nominals   *)
(* are left whole, cut into, removed whole, touched and far away.            *)
(***************************************************************************)
EXTENDS Job

MCCells == 1 .. 4

MCImage == [flip |-> [c \in MCCells |-> 5 - c]]

Motions == {
  [cut |-> {1}, shank |-> {}, near |-> {2}, close |-> {2}],
  [cut |-> {2}, shank |-> {1}, near |-> {1, 2}, close |-> {3}],
  [cut |-> {}, shank |-> {4}, near |-> {3, 4}, close |-> {}]
}

Setups(transforms, programs) ==
  [transform : transforms, resolves : {TRUE}, holder : BOOLEAN, retracts : {0},
   motions : programs, fixtures : {<<>>, <<{2}>>}]

First == Setups({None}, UNION {[1 .. n -> Motions] : n \in 0 .. 2})
Second == Setups({None, "flip"}, UNION {[1 .. n -> Motions] : n \in 0 .. 2})

\* Setups that end the job or cannot be checked for their retracts.
Bad == [transform : {"flip", "rotated", "sheared"}, resolves : BOOLEAN, holder : {TRUE},
        retracts : {1}, motions : {<<>>}, fixtures : {<<>>}]

Job1 == [stock : {MCCells}, setups : {<<s>> : s \in First}, nominal : {None, {2, 3}}]
Job2 == [stock : {1 .. 3}, setups : {<<s, t>> : s \in First, t \in Second},
         nominal : {{1}, {3}, {3, 4}}]
JobBad == [stock : {MCCells}, setups : {<<s, t>> : s \in First, t \in Bad}, nominal : {{3}}]

MCJobs == Job1 \cup Job2 \cup JobBad
=============================================================================
