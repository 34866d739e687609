------------------------------ MODULE UnionFind ------------------------------
(***************************************************************************)
(* crates/chipbreaker-core/src/findings/cluster.rs: `Union`, the forest of  *)
(* disjoint sets that clustering joins samples in. `find` walks to the root *)
(* and halves the path behind it, one iteration of its loop a step; `union` *)
(* is two finds and a link by rank.                                         *)
(*                                                                          *)
(* The forest is rewritten while it is walked, and the shape it takes       *)
(* depends on the order of the unions. What must not depend on it is which  *)
(* slots hang together.                                                     *)
(***************************************************************************)
EXTENDS Naturals

CONSTANTS
  MaxSlots,  \* how many slots a forest has at most; u32::MAX in the code
  None       \* no walk, or no root found yet

ASSUME UnionFindAssumption ==
  /\ MaxSlots \in Nat
  /\ None \notin Nat \cup (Nat \X Nat)

VARIABLES
  parent,  \* every slot's parent; a root is its own
  rank,    \* how tall a root's tree can be
  pair,    \* the slots `union` was given, or None outside it
  first,   \* the root of the first of them, once found
  node,    \* where the walk of `find` is, or None
  joined   \* the pairs united since `new`: not in the code

forestVars == <<parent, rank, pair, first, node, joined>>

Slots == DOMAIN parent

IsRoot(s) == parent[s] = s

NoWalk == pair = None /\ first = None /\ node = None

Init ==
  /\ \E n \in 0 .. MaxSlots : /\ parent = [s \in 0 .. n - 1 |-> s]
                              /\ rank = [s \in 0 .. n - 1 |-> 0]
  /\ joined = {}
  /\ NoWalk

\* Union::new(n)
New(n) ==
  /\ NoWalk
  /\ parent' = [s \in 0 .. n - 1 |-> s]
  /\ rank' = [s \in 0 .. n - 1 |-> 0]
  /\ joined' = {}
  /\ UNCHANGED <<pair, first, node>>

\* `find(s)` is called from outside: a walk with nothing to join.
BeginFind(s) ==
  /\ NoWalk
  /\ node' = s
  /\ UNCHANGED <<parent, rank, pair, first, joined>>

EndFind ==
  /\ pair = None
  /\ node # None /\ IsRoot(node)
  /\ node' = None
  /\ UNCHANGED <<parent, rank, pair, first, joined>>

\* `union(a, b)` is called: it finds a first.
BeginUnion(a, b) ==
  /\ NoWalk
  /\ pair' = <<a, b>>
  /\ node' = a
  /\ UNCHANGED <<parent, rank, first, joined>>

\* One iteration of find: the slot is hung on its grandparent, which is next.
Halve ==
  /\ node # None /\ ~IsRoot(node)
  /\ LET grand == parent[parent[node]]
     IN  parent' = [parent EXCEPT ![node] = grand] /\ node' = grand
  /\ UNCHANGED <<rank, pair, first, joined>>

FoundFirst ==
  /\ pair # None /\ first = None
  /\ IsRoot(node)
  /\ first' = node
  /\ node' = pair[2]
  /\ UNCHANGED <<parent, rank, pair, joined>>

BothFound == first # None /\ IsRoot(node)

EndUnion == pair' = None /\ first' = None /\ node' = None /\ joined' = joined \cup {pair}

SameTree ==
  /\ BothFound /\ first = node
  /\ EndUnion
  /\ UNCHANGED <<parent, rank>>

\* Slip: what is linked is the slot, not its root.
LinkSlot ==
  /\ BothFound /\ first # node
  /\ EndUnion
  /\ parent' = [parent EXCEPT ![pair[1]] = node]
  /\ UNCHANGED rank

\* The root of lower rank goes under the other; of two equal ones the lower
\* index does, and the tree that takes it in may have grown.
Link ==
  /\ BothFound /\ first # node
  /\ EndUnion
  /\ \E lo, hi \in {first, node} :
       /\ lo # hi
       /\ rank[lo] < rank[hi] \/ (rank[lo] = rank[hi] /\ lo < hi)
       /\ parent' = [parent EXCEPT ![lo] = hi]
       /\ rank' = IF rank[lo] = rank[hi] THEN [rank EXCEPT ![hi] = @ + 1] ELSE rank

Walk == Halve \/ FoundFirst \/ SameTree \/ Link

Next ==
  \/ \E n \in 0 .. MaxSlots : New(n)
  \/ \E s \in Slots : BeginFind(s)
  \/ EndFind
  \/ \E a, b \in Slots : BeginUnion(a, b)
  \/ Walk

ForestSpec == Init /\ [][Next]_forestVars
-----------------------------------------------------------------------------
\* Types: a walk is always at a slot, and goes on until a pair is united.
ForestTypeOK ==
  /\ \E n \in 0 .. MaxSlots : /\ parent \in [0 .. n - 1 -> 0 .. n - 1]
                              /\ rank \in [0 .. n - 1 -> Nat]
  /\ pair \in (Slots \X Slots) \cup {None}
  /\ first \in Slots \cup {None}
  /\ node \in Slots \cup {None}
  /\ joined \subseteq Slots \X Slots
  /\ pair # None => node # None
  /\ first # None => pair # None /\ IsRoot(first)

\* Along a path ranks rise, so no path meets itself and `find` reaches a root
\* however the path was halved before. About the link in `union` and the
\* halving in `find`, cluster.rs:204-233.
RanksRise == \A s \in Slots : ~IsRoot(s) => rank[s] < rank[parent[s]]

CutsNoTree(S) == \A s \in Slots : s \in S <=> parent[s] \in S

CutsNoPair(S) == \A p \in joined : p[1] \in S <=> p[2] \in S

\* The trees are the classes of what was united, no more and no less, at every
\* moment of every walk: a set of slots cuts no tree apart exactly when it
\* cuts no united pair apart. This is what cluster.rs:32-34 promises of any
\* order of unions.
TreesAreJoins == \A S \in SUBSET Slots : CutsNoTree(S) <=> CutsNoPair(S)
==============================================================================
