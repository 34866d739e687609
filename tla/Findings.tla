------------------------------- MODULE Findings -------------------------------
(***************************************************************************)
(* crates/chipbreaker-core/src/findings: what becomes of clusters and hits. *)
(* `identify` names the clusters, `assemble` makes collisions of the hits   *)
(* of a replay, the gates judge both, a report is written as JSON and read  *)
(* back, and `diff` compares two. Functions of their arguments, all of them; *)
(* Verify and Pipeline have the steps.                                      *)
(*                                                                          *)
(* An id is the tuple whose hash the code prints, so two are equal when     *)
(* what they are made of is. A reason (`why`) is wording, and left out.     *)
(***************************************************************************)
EXTENDS Integers, Sequences, FiniteSets, SequencesExt

(* What the standard library's ordered containers and sorts do: the keys of a   *)
(* BTreeMap come in order, and `sort_by` with comparisons chained by `then_with`*)
(* puts the smaller tuple first. A key is a tuple of integers that tells the    *)
(* members apart; where the code's sort is stable, their place is the key's     *)
(* last component.                                                              *)
Lexicographic(p, q) ==
  \E i \in 1 .. Len(p) : p[i] < q[i] /\ \A j \in 1 .. i - 1 : p[j] = q[j]

\* The members that come before x.
Before(S, key, x) == {y \in S : Lexicographic(key[y], key[x])}

\* The members of S in the order of their keys: the n-th has n - 1 before it.
InOrder(S, key) ==
  [n \in 1 .. Cardinality(S) |-> CHOOSE x \in S : Cardinality(Before(S, key, x)) = n - 1]
-----------------------------------------------------------------------------
SCHEMA_VERSION == 3

\* Where a cluster's centroid, the sum of its members' places over their
\* number, lies in a grid.
CellOf(c, grid) ==
  LET n == Len(c.members) * grid IN <<c.at[1] \div n, c.at[2] \div n>>

finding_id(class, cell, slot) == <<class, cell, slot>>

\* Slip: the clusters of the other classes count too.
SlotOfAnyClass(found, grid, i) ==
  Cardinality({j \in 1 .. i - 1 : CellOf(found[j], grid) = CellOf(found[i], grid)})

\* How many findings of this class and cell come before it.
Slot(found, grid, i) ==
  Cardinality({j \in 1 .. i - 1 : /\ found[j].class = found[i].class
                                  /\ CellOf(found[j], grid) = CellOf(found[i], grid)})

\* One finding for each cluster, named; its place is the centroid, written as a
\* sum and of how many. What has no samples counts none.
identify(found, grid) ==
  [i \in DOMAIN found |->
    LET c == found[i]
    IN  [id |-> finding_id(c.class, CellOf(c, grid), Slot(found, grid, i)),
         class |-> c.class, at |-> <<c.at, Len(c.members)>>, worst |-> c.worst, total |-> c.total,
         count |-> IF c.class \in {"gouge", "excess-stock"} THEN Len(c.members) ELSE 0,
         probes |-> c.probes, segments |-> {}]]
-----------------------------------------------------------------------------
\* A hit is [k, role, contact, obstacle, length, at]: what of the tool met what,
\* and by how much. Obstacle 0 is the stock, the others are fixtures.
Hit == [k : Nat \ {0}, role : Nat, contact : {"collision", "cutter-into-fixture", "near-miss"},
        obstacle : Nat, length : Nat, at : Int]

is_collision(x) == x.contact \in {"collision", "cutter-into-fixture"}

GroupKey(h) == <<h.k, h.role, IF is_collision(h) THEN 1 ELSE 0, h.obstacle>>

\* Where the deepest overlap of a group is (the last of several), or its
\* narrowest gap (the first).
WorstOf(raw, key) ==
  LET group == InOrder({i \in DOMAIN raw : GroupKey(raw[i]) = key},
                       [i \in DOMAIN raw |-> <<raw[i].length, i>>])
  IN  IF key[3] = 1 THEN group[Len(group)] ELSE group[1]

\* Collisions first, then rapids, then by size, whatever the contact, then by
\* obstacle and place; what agrees in all of it stays in the order of the motions.
ReportKey(kinds, h) ==
  <<IF is_collision(h) THEN 0 ELSE 1, IF kinds[h.k] = "rapid" THEN 0 ELSE 1,
    -h.length, h.obstacle, h.at, h.role, h.k>>

\* One collision for each motion, part of the tool, kind of contact and obstacle;
\* of several in one cell of the grid, in that order, each has its own slot.
assemble(raw, kinds, grid) ==
  LET worst == {WorstOf(raw, key) : key \in {GroupKey(raw[i]) : i \in DOMAIN raw}}
      slot(i) == Cardinality({j \in worst : /\ raw[j].at \div grid = raw[i].at \div grid
                                           /\ Lexicographic(GroupKey(raw[j]), GroupKey(raw[i]))})
      found == [i \in worst |->
                 LET h == raw[i]
                 IN  [id |-> <<h.role, h.obstacle, kinds[h.k], h.at \div grid, slot(i)>>,
                      contact |-> h.contact, role |-> h.role, obstacle |-> h.obstacle,
                      length |-> h.length, at |-> h.at, k |-> h.k]]
      order == InOrder(worst, [i \in worst |-> ReportKey(kinds, raw[i])])
  IN  [n \in DOMAIN order |-> found[order[n]]]
-----------------------------------------------------------------------------
is_defect(f) == f.class = "gouge"

gouge_gate(findings) ==
  IF \E i \in DOMAIN findings : is_defect(findings[i]) THEN "fail" ELSE "pass"

collision_gate(collisions) ==
  IF \E i \in DOMAIN collisions : is_collision(collisions[i]) THEN "fail" ELSE "pass"

\* Slip: what was not checked did not fail.
pass_unless_failed(gates) == \A g \in DOMAIN gates : gates[g] # "fail"

\* Verdict::pass
pass(gates) == DOMAIN gates # {} /\ \A g \in DOMAIN gates : gates[g] = "pass"

\* A refusal is a report too: nothing was looked at, so no gate passes.
refusal(gates) == [g \in gates |-> "unchecked"]

\* A finding as it is written: without the places it was probed at.
finding_json(f) == [f EXCEPT !.probes = <<>>]

\* A collision as it is written. Its size goes under a key that says whether it
\* is an overlap or a gap.
collision_json(c) == [c EXCEPT !.contact = <<@, IF is_collision(c) THEN "overlap" ELSE "clearance">>]

Each(seq, f(_)) == [i \in DOMAIN seq |-> f(seq[i])]

to_json(report) ==
  [version |-> SCHEMA_VERSION,
   report |-> [report EXCEPT !.findings = Each(@, finding_json), !.collisions = Each(@, collision_json)]]

\* What a reader keeps of a collision it judges by that key: a cutter in a fixture
\* reads as a collision.
Loaded(c) == [c EXCEPT !.contact = IF @[2] = "overlap" THEN "collision" ELSE "near-miss"]

\* Slip: a gate this build does not know is passed over.
parse_leniently(word) == IF word \in {"pass", "fail", "unchecked"} THEN word ELSE "pass"

Gate_parse(word) == IF word \in {"pass", "fail", "unchecked"} THEN word ELSE "unchecked"

\* Whether a file is read at all: any other version is refused.
Readable(file) == file.version = SCHEMA_VERSION

\* What load_report makes of a file it can read.
load_report(file) ==
  [file.report EXCEPT !.collisions = Each(@, Loaded),
                      !.gates = [g \in DOMAIN @ |-> Gate_parse(@[g])]]
-----------------------------------------------------------------------------
Ids(seq) == {seq[i].id : i \in DOMAIN seq}

\* A map from id to item keeps the last of two with one id.
Entry(seq, id) == seq[Max({i \in DOMAIN seq : seq[i].id = id})]

Both(old, new) == Ids(old) \cap Ids(new)

\* What is in one list only, and what is in both and moved.
Changes(old, new, moved) ==
  {<<"disappeared", id>> : id \in Ids(old) \ Ids(new)}
    \cup {<<"appeared", id>> : id \in Ids(new) \ Ids(old)}
    \cup {<<"changed", id>> : id \in moved}

\* A mean times the other's count, so that means compare without division.
Deepened(f, g) ==
  \/ f.worst # g.worst \/ f.total * g.count # g.total * f.count \/ f.count # g.count
  \/ f.segments # g.segments

Shifted(c, d) == is_collision(c) # is_collision(d) \/ c.length # d.length \/ c.k # d.k

\* A key of one of two maps, whose values differ; what is missing is "absent".
Differs(f, g) ==
  {k \in DOMAIN f \cup DOMAIN g :
     k \notin DOMAIN f \/ k \notin DOMAIN g \/ (k \in DOMAIN f \cap DOMAIN g /\ f[k] # g[k])}

diff(old, new) ==
  [manifest |-> Differs(old.manifest, new.manifest),
   gates |-> Differs(old.gates, new.gates),
   changes |-> Changes(old.findings, new.findings,
                       {i \in Both(old.findings, new.findings) :
                          Deepened(Entry(old.findings, i), Entry(new.findings, i))}),
   collisions |-> Changes(old.collisions, new.collisions,
                          {i \in Both(old.collisions, new.collisions) :
                             Shifted(Entry(old.collisions, i), Entry(new.collisions, i))})]

is_empty(d) == d.manifest = {} /\ d.gates = {} /\ d.changes = {} /\ d.collisions = {}
===============================================================================
