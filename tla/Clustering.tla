----------------------------- MODULE Clustering -----------------------------
(***************************************************************************)
(* crates/chipbreaker-core/src/findings/cluster.rs: how the samples of a    *)
(* deviation field become findings. `cluster` joins the samples out of      *)
(* tolerance, `unsampled` the facets of the nominal that no sample says     *)
(* anything about; both bucket what they join in a grid of cells one radius *)
(* across, unite neighbours in a UnionFind forest, gather the trees and     *)
(* fold each into a cluster. Verify starts them on a field, the one and     *)
(* then the other. A step is an iteration of `find`, a union, or a loop's   *)
(* end.                                                                     *)
(*                                                                          *)
(* Positions are integers in two dimensions. A facet is its centroid and    *)
(* which way it faces, up, down or undefined. Areas, volumes and means are  *)
(* left to the sums they come from.                                         *)
(***************************************************************************)
EXTENDS UnionFind, Findings

CONSTANTS
  Fields,     \* the inputs: [samples, facets]
  Radius,     \* radius_mm
  Tolerance,  \* tolerance_mm
  PROBES      \* 8 in the code

Point == Int \X Int
Sample == [at : Point, near : Point, signed : Int]
Facet == [at : Point, faces : {"up", "down", None}]

\* A slot is a u32, of which there are enough.
IsField(f) ==
  /\ f.samples \in Seq(Sample) /\ Len(f.samples) <= MaxSlots
  /\ f.facets \in Seq(Facet) /\ Len(f.facets) <= MaxSlots

ASSUME ClusteringAssumption ==
  /\ \A f \in Fields : IsField(f)
  /\ Radius \in Nat \ {0} /\ Tolerance \in Nat /\ PROBES \in Nat \ {0, 1}
  /\ None \notin {"up", "down", "gouge", "excess-stock", "undercut", "unreachable"}

VARIABLES
  field,     \* the samples and the facets; never changes
  stage,     \* "idle", "classify", "join", "gather", "fold" or "done"
  of,        \* whose clusters these are: "samples" or "facets"
  points,    \* what is joined: [of, at, class], slot s being points[s + 1]
  edges,     \* the pairs still to unite, in the order the grid yields them
  slot,      \* the next slot to be gathered
  groups,    \* the slots gathered so far by the root of their tree
  clusters,  \* what `cluster` returned
  missing    \* what `unsampled` returned

workVars == <<field, stage, of, points, edges, slot, groups, clusters, missing>>
vars == <<forestVars, workVars>>

\* Before the first field is read.
ClusterInit ==
  /\ field = [samples |-> <<>>, facets |-> <<>>]
  /\ stage = "idle" /\ of = "samples"
  /\ points = <<>> /\ edges = <<>> /\ slot = 0 /\ groups = <<>>
  /\ clusters = <<>> /\ missing = <<>>
  /\ parent = <<>> /\ rank = <<>> /\ joined = {}
  /\ NoWalk
-----------------------------------------------------------------------------
Distance2(p, q) == (p[1] - q[1]) * (p[1] - q[1]) + (p[2] - q[2]) * (p[2] - q[2])

Within(p, q) == Distance2(p, q) <= Radius * Radius

\* \div rounds down, as floor does.
cell_of(p) == <<p[1] \div Radius, p[2] \div Radius>>

\* Slip: the cells to the left and below are left to the pair's other end, as
\* if a < b ordered cells too.
NeighboursAhead(p, q) == \A d \in 1 .. 2 : q[d] - p[d] \in 0 .. 1

\* The nine cells around a cell; twenty-seven in the code.
Neighbours(p, q) == \A d \in 1 .. 2 : q[d] - p[d] \in -1 .. 1

classify(s) ==
  CASE s.signed <= Tolerance /\ -s.signed <= Tolerance -> None
    [] s.signed < -Tolerance -> "gouge"
    [] s.signed > Tolerance -> "excess-stock"

\* Some sample was measured to a place within the radius of p.
covered(p) ==
  \E s \in Range(field.samples) :
    Neighbours(cell_of(p), cell_of(s.near)) /\ Within(s.near, p)

\* What this pass joins, and what class each of it is: samples out of tolerance,
\* or facets with a normal that nothing covers. None is not joined.
Items == IF of = "samples" THEN field.samples ELSE field.facets

class_of(i) ==
  IF of = "samples" THEN classify(field.samples[i])
  ELSE LET f == field.facets[i]
       IN  CASE covered(f.at) \/ f.faces = None -> None
             [] ~covered(f.at) /\ f.faces = "down" -> "undercut"
             [] ~covered(f.at) /\ f.faces = "up" -> "unreachable"

\* The slots of this pass, in the order of the input.
Kept ==
  LET order == InOrder({i \in DOMAIN Items : class_of(i) # None}, [i \in DOMAIN Items |-> <<i>>])
  IN  [k \in DOMAIN order |-> [of |-> order[k], at |-> Items[order[k]].at, class |-> class_of(order[k])]]

\* What is united: slots of one class in neighbouring cells, no further apart
\* than the radius. A pair is met from its lower slot.
United(pts) ==
  {e \in (0 .. Len(pts) - 1) \X (0 .. Len(pts) - 1) :
     LET p == pts[e[1] + 1]
         q == pts[e[2] + 1]
     IN  /\ e[1] < e[2] /\ p.class = q.class
         /\ Neighbours(cell_of(p.at), cell_of(q.at)) /\ Within(p.at, q.at)}

\* The unions in the order of the grid's loops: by cell, by neighbouring cell,
\* and by the slots in each.
Edges(pts) ==
  LET cell(s) == cell_of(pts[s + 1].at)
  IN  InOrder(United(pts), [e \in United(pts) |-> cell(e[1]) \o cell(e[2]) \o e])

\* Everything up to the loop over the grid. Nothing to join: nothing found.
Classify ==
  /\ stage = "classify"
  /\ points' = Kept
  /\ edges' = Edges(Kept)
  /\ groups' = <<>> /\ slot' = 0
  /\ stage' = IF Kept = <<>> THEN "fold" ELSE "join"
  /\ New(Len(Kept))
  /\ UNCHANGED <<field, of, clusters, missing>>

Join ==
  /\ stage = "join" /\ edges # <<>>
  /\ BeginUnion(Head(edges)[1], Head(edges)[2])
  /\ edges' = Tail(edges)
  /\ UNCHANGED <<field, stage, of, points, slot, groups, clusters, missing>>

JoinEnd ==
  /\ stage = "join" /\ edges = <<>> /\ NoWalk
  /\ stage' = "gather"
  /\ UNCHANGED <<forestVars, field, of, points, edges, slot, groups, clusters, missing>>

Find ==
  /\ stage \in {"join", "gather"}
  /\ Walk
  /\ UNCHANGED workVars

Gather ==
  /\ stage = "gather" /\ slot < Len(points)
  /\ BeginFind(slot)
  /\ UNCHANGED workVars

Gathered ==
  /\ stage = "gather"
  /\ EndFind
  /\ LET members == IF node \in DOMAIN groups THEN groups[node] ELSE <<>>
     IN  groups' = [r \in DOMAIN groups \cup {node} |-> IF r = node THEN Append(members, slot) ELSE groups[r]]
  /\ slot' = slot + 1
  /\ UNCHANGED <<field, stage, of, points, edges, clusters, missing>>

GatherEnd ==
  /\ stage = "gather" /\ slot = Len(points) /\ NoWalk
  /\ stage' = "fold"
  /\ UNCHANGED <<forestVars, field, of, points, edges, slot, groups, clusters, missing>>
-----------------------------------------------------------------------------
Abs(n) == IF n < 0 THEN -n ELSE n

Largest(S) == CHOOSE m \in S : \A k \in S : k <= m
Smallest(S) == CHOOSE m \in S : \A k \in S : m <= k

SumOf(seq) ==
  LET upto[k \in 0 .. Len(seq)] == IF k = 0 THEN 0 ELSE upto[k - 1] + seq[k]
  IN  upto[Len(seq)]

\* The deepest member's position first, then those of the members at even
\* steps, each position once.
probe_points(members, worst_at) ==
  LET n == Len(members)
      step == (n + PROBES - 2) \div (PROBES - 1)
      stepped == [k \in 1 .. (n + step - 1) \div step |-> field.samples[members[(k - 1) * step + 1]].at]
      all == <<worst_at>> \o IF n > 1 THEN stepped ELSE <<>>
      firsts == InOrder({k \in DOMAIN all : \A j \in 1 .. k - 1 : all[j] # all[k]}, [k \in DOMAIN all |-> <<k>>])
  IN  [k \in 1 .. Smallest({Len(firsts), PROBES}) |-> all[firsts[k]]]

Depth(i) == IF of = "samples" THEN Abs(field.samples[i].signed) ELSE 0

\* Slip: the first member speaks for the cluster.
FirstMember(members) == 1

\* Which member is the deepest, the first of several.
Deepest(members) ==
  CHOOSE k \in DOMAIN members :
    /\ \A j \in DOMAIN members : Depth(members[j]) <= Depth(members[k])
    /\ \A j \in 1 .. k - 1 : Depth(members[j]) < Depth(members[k])

\* One cluster from the slots of one tree. The sum of positions stands for the
\* centroid. Clusters of facets have no depth and no deepest member, and in
\* the code no members.
Cluster(slots) ==
  LET members == [k \in DOMAIN slots |-> points[slots[k] + 1].of]
      places == [k \in DOMAIN slots |-> points[slots[k] + 1].at]
      at == <<SumOf([k \in DOMAIN places |-> places[k][1]]), SumOf([k \in DOMAIN places |-> places[k][2]])>>
      worst_at == IF of = "samples" THEN places[Deepest(members)] ELSE at
      side(d) == {p[d] : p \in Range(places)}
  IN  [class |-> points[slots[1] + 1].class, members |-> members,
       worst |-> Depth(members[Deepest(members)]), total |-> SumOf([k \in DOMAIN members |-> Depth(members[k])]),
       worst_at |-> worst_at, at |-> at,
       bounds |-> << <<Smallest(side(1)), Smallest(side(2))>>, <<Largest(side(1)), Largest(side(2))>> >>,
       probes |-> IF of = "samples" THEN probe_points(members, worst_at) ELSE <<>>]

ClassRank(class) ==
  CASE class = "gouge" -> 0 [] class = "excess-stock" -> 1
    [] class = "undercut" -> 2 [] class = "unreachable" -> 3

\* Class, then worst first, then position; clusters that agree in all of it stay
\* as they were.
sort_canonically(found) ==
  LET key(i) == LET c == found[i]
                    n == Len(c.members)
                IN  <<ClassRank(c.class), -c.worst, c.at[1] \div n, c.at[2] \div n, i>>
      order == InOrder(DOMAIN found, [i \in DOMAIN found |-> key(i)])
  IN  [i \in DOMAIN order |-> found[order[i]]]

\* The trees in the order of their roots, each folded.
Folded ==
  LET roots == InOrder(DOMAIN groups, [r \in DOMAIN groups |-> <<r>>])
  IN  [i \in DOMAIN roots |-> Cluster(groups[roots[i]])]

Fold ==
  /\ stage = "fold"
  /\ IF of = "samples"
     THEN clusters' = sort_canonically(Folded) /\ UNCHANGED missing
     ELSE missing' = sort_canonically(Folded) /\ UNCHANGED clusters
  /\ IF of = "samples"
     THEN of' = "facets" /\ stage' = "classify"
     ELSE of' = of /\ stage' = "done"
  /\ UNCHANGED <<forestVars, field, points, edges, slot, groups>>

ClusterNext ==
  \/ Classify \/ Join \/ JoinEnd \/ Find \/ Gather \/ Gathered \/ GatherEnd \/ Fold
-----------------------------------------------------------------------------
\* `found` is the partition of `elems` into the classes of `alike`: every
\* element is in one cluster, and a set cuts no cluster apart exactly when no
\* two alike elements are on its two sides.
IsPartition(found, elems, alike(_, _)) ==
  LET sets == {Range(c.members) : c \in Range(found)}
  IN  /\ elems = UNION sets
      /\ Len(found) = Cardinality(sets)
      /\ \A S \in SUBSET elems :
           (\A i \in S, j \in elems \ S : ~alike(i, j))
             <=> (\A C \in sets : C \subseteq S \/ C \cap S = {})

SamplesAreParted(found) ==
  LET s == field.samples
      out == {i \in DOMAIN s : Abs(s[i].signed) > Tolerance}
  IN  IsPartition(found, out,
        LAMBDA i, j : (s[i].signed < 0) = (s[j].signed < 0) /\ Within(s[i].at, s[j].at))

FacetsAreParted(found) ==
  LET s == field.samples
      f == field.facets
      bare == {i \in DOMAIN f : f[i].faces # None /\ \A j \in DOMAIN s : ~Within(s[j].near, f[i].at)}
  IN  IsPartition(found, bare,
        LAMBDA i, j : f[i].faces = f[j].faces /\ Within(f[i].at, f[j].at))

\* The clusters of the samples are the connected components of "same class
\* and within the radius", whatever grid, order of unions and shape of the
\* forest produced them; and so are those of the facets that no sample was
\* measured to, so that nothing of the nominal is passed over in silence and
\* no gouged floor is called unreachable. About `cluster` and `unsampled`,
\* cluster.rs:32-36, 321-387 and 488-593.
ClustersAreComponents == stage = "done" => SamplesAreParted(clusters) /\ FacetsAreParted(missing)

\* One cluster and its members.
SpeaksFor(c) ==
  LET places == {field.samples[m].at : m \in Range(c.members)}
      depths == {Abs(field.samples[m].signed) : m \in Range(c.members)}
  IN  /\ c.worst \in depths /\ \A d \in depths : d <= c.worst
      /\ c.probes[1] = c.worst_at
      /\ Range(c.probes) \subseteq places
      /\ IsInjective(c.probes)
      /\ Cardinality(places) <= PROBES - 1 /\ Len(c.members) <= PROBES - 1
           => Range(c.probes) = places
      /\ \E m \in Range(c.members) : /\ field.samples[m].at = c.worst_at
                                     /\ Abs(field.samples[m].signed) = c.worst
      /\ \A d \in 1 .. 2 :
           /\ \E p \in places : p[d] = c.bounds[1][d]
           /\ \E p \in places : p[d] = c.bounds[2][d]
           /\ \A p \in places : c.bounds[1][d] <= p[d] /\ p[d] <= c.bounds[2][d]

\* A list is worst first within a class.
WorstFirst(found) ==
  \A i, j \in DOMAIN found : i < j /\ found[i].class = found[j].class => found[i].worst >= found[j].worst

\* What a cluster says of itself is said of all its members, not of the root
\* or of the first: its worst depth is the deepest, its box the smallest
\* around them, and the places handed to attribution begin with the deepest
\* and are theirs. The list is read worst first within a class. About `cluster`,
\* `probe_points` and `sort_canonically`, cluster.rs:389-471.
SpeaksForAll ==
  stage = "done" => WorstFirst(clusters) /\ \A i \in DOMAIN clusters : SpeaksFor(clusters[i])
=============================================================================
