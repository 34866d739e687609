----------------------------- MODULE VerifyProofs -----------------------------
(***************************************************************************)
(* Theorems about the forest of disjoint sets, about clustering and about   *)
(* `verify`, for every field, request and program, every number of slots    *)
(* and every history of edits. In the order of what they rest on: the       *)
(* forest; the grid, which misses no two places within the radius; the      *)
(* unions of the loop over it; the trees gathered, folded and sorted, which *)
(* are the components the property speaks of; and the verdict, which is the *)
(* field's and the replay's.                                                *)
(***************************************************************************)
EXTENDS Verify, SharedLemmas

\* A walk has not left the tree of the slot it began at.
WalkInv ==
  pair # None =>
    \A S \in SUBSET Slots :
      CutsNoTree(S) =>
        /\ first = None => (node \in S <=> pair[1] \in S)
        /\ first # None => (first \in S <=> pair[1] \in S) /\ (node \in S <=> pair[2] \in S)

\* The inductive invariant of the forest.
IInv == ForestTypeOK /\ RanksRise /\ TreesAreJoins /\ WalkInv
-----------------------------------------------------------------------------
(* A forest of single slots: every set cuts no tree and nothing is united.  *)
LEMMA SingleSlots ==
  ASSUME NEW n \in 0 .. MaxSlots,
         parent = [s \in 0 .. n - 1 |-> s], rank = [s \in 0 .. n - 1 |-> 0],
         joined = {}, NoWalk
  PROVE  IInv
<1>1. ForestTypeOK
  BY UnionFindAssumption DEF ForestTypeOK, NoWalk, Slots
<1>2. RanksRise
  BY DEF RanksRise, IsRoot, Slots
<1>3. TreesAreJoins
  BY DEF TreesAreJoins, CutsNoTree, CutsNoPair, Slots
<1>4. WalkInv
  BY DEF WalkInv, NoWalk
<1> QED
  BY <1>1, <1>2, <1>3, <1>4 DEF IInv

\* It holds of no slots.
LEMMA InitInv == Init => IInv
BY SingleSlots DEF Init

(* A step that leaves the forest and the united pairs alone keeps what is   *)
(* said about them.                                                         *)
LEMMA ForestKept ==
  ASSUME IInv, UNCHANGED <<parent, rank, joined>>
  PROVE  /\ RanksRise' /\ TreesAreJoins' /\ Slots' = Slots
         /\ \A S : CutsNoTree(S)' <=> CutsNoTree(S)
         /\ \A s : IsRoot(s)' <=> IsRoot(s)
         /\ \E n \in 0 .. MaxSlots : /\ parent' \in [0 .. n - 1 -> 0 .. n - 1]
                                     /\ rank' \in [0 .. n - 1 -> Nat]
BY DEF IInv, ForestTypeOK, RanksRise, TreesAreJoins, CutsNoTree, CutsNoPair, Slots, IsRoot
-----------------------------------------------------------------------------
(* Hanging a slot on its grandparent moves it within its tree: the same     *)
(* sets cut no tree.                                                        *)
LEMMA HalvingKeepsTrees ==
  ASSUME IInv, Halve
  PROVE  \A S : CutsNoTree(S)' <=> CutsNoTree(S)
<1> DEFINE p == parent[node]
           g == parent[p]
<1>1. /\ node \in Slots /\ p \in Slots /\ g \in Slots /\ p # node
      /\ parent' = [parent EXCEPT ![node] = g]
  BY DEF IInv, ForestTypeOK, Halve, Slots, IsRoot
<1>2. Slots' = Slots /\ parent'[node] = g /\ \A s \in Slots : s # node => parent'[s] = parent[s]
  BY <1>1 DEF Slots
<1> HIDE DEF g
<1>3. SUFFICES ASSUME NEW S PROVE CutsNoTree(S)' <=> CutsNoTree(S)
  OBVIOUS
<1>4. ASSUME CutsNoTree(S) PROVE CutsNoTree(S)'
  <2>1. (node \in S <=> p \in S) /\ (p \in S <=> g \in S)
    BY <1>1, <1>4 DEF CutsNoTree, g
  <2> QED
    BY <1>2, <1>4, <2>1 DEF CutsNoTree
<1>5. ASSUME CutsNoTree(S)' PROVE CutsNoTree(S)
  <2>1. (node \in S <=> g \in S) /\ (p \in S <=> g \in S)
    BY <1>1, <1>2, <1>5 DEF CutsNoTree, g
  <2> QED
    BY <1>2, <1>5, <2>1 DEF CutsNoTree
<1> QED
  BY <1>4, <1>5

\* Path halving keeps it: a slot is moved up within its tree.
LEMMA HalveInv == ASSUME IInv, Halve PROVE IInv'
<1> DEFINE p == parent[node]
           g == parent[p]
<1>1. PICK n \in 0 .. MaxSlots : /\ parent \in [0 .. n - 1 -> 0 .. n - 1]
                                 /\ rank \in [0 .. n - 1 -> Nat]
  BY DEF IInv, ForestTypeOK
<1>2. /\ node \in Slots /\ p \in Slots /\ g \in Slots /\ p # node /\ node' = g
      /\ parent' = [parent EXCEPT ![node] = g]
      /\ UNCHANGED <<rank, pair, first, joined>>
  BY DEF IInv, ForestTypeOK, Halve, Slots, IsRoot
<1>3. Slots' = Slots /\ Slots = 0 .. n - 1 /\ parent'[node] = g
      /\ \A s \in Slots : s # node => parent'[s] = parent[s]
  BY <1>1, <1>2 DEF Slots
<1>4. \A s \in Slots : IsRoot(s) => IsRoot(s)' \/ s = node
  BY <1>3 DEF IsRoot
<1>5. ~IsRoot(node)
  BY DEF Halve
<1>6. rank[node] < rank[p] /\ rank[p] <= rank[g]
  <2>1. rank[node] < rank[p]
    BY <1>2, <1>5 DEF IInv, RanksRise
  <2>2. CASE IsRoot(p)
    BY <1>1, <1>2, <1>3, <2>1, <2>2 DEF IsRoot
  <2>3. CASE ~IsRoot(p)
    <3>1. rank[p] < rank[g]
      BY <1>2, <2>3 DEF IInv, RanksRise
    <3> QED
      BY <1>1, <1>2, <1>3, <2>1, <3>1
  <2> QED
    BY <2>2, <2>3
<1> HIDE DEF g
<1>7. ForestTypeOK'
  <2>1. /\ parent' \in [0 .. n - 1 -> 0 .. n - 1] /\ rank' \in [0 .. n - 1 -> Nat]
    BY <1>1, <1>2, <1>3
  <2>2. first # None => IsRoot(first)'
    <3>1. first # None => first \in Slots /\ IsRoot(first)
      BY DEF IInv, ForestTypeOK
    <3>2. first # None => parent'[first] = parent[first] /\ rank' = rank /\ first' = first
      BY <1>2, <1>3, <1>5, <3>1
    <3> QED
      BY <3>1, <3>2 DEF IsRoot
  <2>3. node' \in Slots' /\ node' # None
    <3>1. node' \in Slots' /\ node' \in Nat
      BY <1>2, <1>3
    <3>2. None \notin Nat
      BY UnionFindAssumption
    <3> QED
      BY <3>1, <3>2
  <2>4. /\ pair' \in (Slots' \X Slots') \cup {None} /\ first' \in Slots' \cup {None}
        /\ joined' \subseteq Slots' \X Slots'
        /\ first' # None => pair' # None
    <3>1. /\ pair \in (Slots \X Slots) \cup {None} /\ first \in Slots \cup {None} /\ joined \subseteq Slots \X Slots
          /\ first # None => pair # None
      BY DEF IInv, ForestTypeOK
    <3> QED
      BY <1>2, <1>3, <3>1
  <2>5. first' = first /\ \E k \in 0 .. MaxSlots : /\ parent' \in [0 .. k - 1 -> 0 .. k - 1]
                                                  /\ rank' \in [0 .. k - 1 -> Nat]
    BY <1>1, <1>2, <2>1
  <2> QED
    BY <2>2, <2>3, <2>4, <2>5 DEF ForestTypeOK
<1>8. RanksRise'
  <2>1. \A s \in Slots : rank[s] \in Nat
    BY <1>1, <1>3
  <2>2. SUFFICES ASSUME NEW s \in Slots, parent'[s] # s PROVE rank[s] < rank[parent'[s]]
    BY <1>2, <1>3 DEF RanksRise, IsRoot
  <2>3. CASE s = node
    BY <1>2, <1>3, <1>6, <2>1, <2>3
  <2>4. CASE s # node
    BY <1>3, <2>2, <2>4 DEF IInv, RanksRise, IsRoot
  <2> QED
    BY <2>3, <2>4
<1>9. TreesAreJoins'
  BY <1>2, <1>3, HalvingKeepsTrees DEF IInv, TreesAreJoins, CutsNoPair
<1>10. WalkInv'
  <2>1. \A S : CutsNoTree(S) => (node \in S <=> g \in S)
    BY <1>2, <1>3 DEF CutsNoTree, g
  <2> QED
    BY <1>2, <1>3, <2>1, HalvingKeepsTrees DEF IInv, WalkInv
<1> QED
  BY <1>7, <1>8, <1>9, <1>10 DEF IInv
-----------------------------------------------------------------------------
(* Steps of a walk that leave the forest alone.                             *)
LEMMA BeginsInv ==
  ASSUME IInv, (\E s \in Slots : BeginFind(s)) \/ (\E a, b \in Slots : BeginUnion(a, b)) \/ EndFind
  PROVE  IInv'
<1>1. /\ UNCHANGED <<parent, rank, first, joined>>
      /\ first = None /\ node' \in Slots \cup {None}
      /\ pair' = None \/ \E a, b \in Slots : pair' = <<a, b>> /\ node' = a
  BY DEF BeginFind, BeginUnion, EndFind, NoWalk, IInv, ForestTypeOK
<1>2. /\ RanksRise' /\ TreesAreJoins' /\ Slots' = Slots
      /\ \A S : CutsNoTree(S)' <=> CutsNoTree(S)
      /\ \E n \in 0 .. MaxSlots : /\ parent' \in [0 .. n - 1 -> 0 .. n - 1]
                                  /\ rank' \in [0 .. n - 1 -> Nat]
  BY <1>1, ForestKept
<1>3. None \notin Slots
  BY UnionFindAssumption DEF IInv, ForestTypeOK, Slots
<1>4. ForestTypeOK'
  <2>1. pair' # None => node' # None
    BY <1>1, <1>3
  <2>2. pair' \in (Slots \X Slots) \cup {None} /\ joined' \subseteq Slots \X Slots
    BY <1>1 DEF IInv, ForestTypeOK
  <2> QED
    BY <1>1, <1>2, <2>1, <2>2 DEF ForestTypeOK
<1>5. WalkInv'
  BY <1>1 DEF WalkInv
<1> QED
  BY <1>2, <1>4, <1>5 DEF IInv

\* So does going on to the second slot of a pair.
LEMMA FoundFirstInv == ASSUME IInv, FoundFirst PROVE IInv'
<1>1. /\ UNCHANGED <<parent, rank, pair, joined>>
      /\ first = None /\ first' = node /\ node' = pair[2] /\ pair # None /\ IsRoot(node)
  BY DEF FoundFirst
<1>2. /\ RanksRise' /\ TreesAreJoins' /\ Slots' = Slots
      /\ \A S : CutsNoTree(S)' <=> CutsNoTree(S)
      /\ \A s : IsRoot(s)' <=> IsRoot(s)
      /\ \E n \in 0 .. MaxSlots : /\ parent' \in [0 .. n - 1 -> 0 .. n - 1]
                                  /\ rank' \in [0 .. n - 1 -> Nat]
  BY <1>1, ForestKept
<1>3. None \notin Slots
  BY UnionFindAssumption DEF IInv, ForestTypeOK, Slots
<1>4. node \in Slots /\ pair \in Slots \X Slots
  BY <1>1 DEF IInv, ForestTypeOK
<1>5. ForestTypeOK'
  BY <1>1, <1>2, <1>3, <1>4 DEF IInv, ForestTypeOK
<1>6. WalkInv'
  <2>1. \A S \in SUBSET Slots : CutsNoTree(S) => (node \in S <=> pair[1] \in S)
    BY <1>1 DEF IInv, WalkInv
  <2>2. first' # None
    BY <1>1, <1>3, <1>4
  <2> QED
    BY <1>1, <1>2, <2>1, <2>2 DEF WalkInv
<1> QED
  BY <1>2, <1>5, <1>6 DEF IInv
-----------------------------------------------------------------------------
(* A union that is over has one more pair united, and both of its slots in  *)
(* the trees of the two roots.                                              *)
LEMMA RootsOfPair ==
  ASSUME IInv, BothFound
  PROVE  /\ first \in Slots /\ node \in Slots /\ pair \in Slots \X Slots
         /\ IsRoot(first) /\ IsRoot(node)
         /\ \A S \in SUBSET Slots : CutsNoTree(S) =>
              (first \in S <=> pair[1] \in S) /\ (node \in S <=> pair[2] \in S)
BY DEF BothFound, IInv, ForestTypeOK, WalkInv

\* So does a pair found to be in one tree.
LEMMA SameTreeInv == ASSUME IInv, SameTree PROVE IInv'
<1>1. /\ UNCHANGED <<parent, rank>> /\ joined' = joined \cup {pair}
      /\ first = node /\ pair' = None /\ first' = None /\ node' = None /\ BothFound
  BY DEF SameTree, EndUnion
<1>2. Slots' = Slots /\ \A S : CutsNoTree(S)' <=> CutsNoTree(S)
  BY <1>1 DEF Slots, CutsNoTree
<1>3. ForestTypeOK'
  BY <1>1, <1>2, RootsOfPair DEF IInv, ForestTypeOK
<1>4. RanksRise'
  BY <1>1 DEF IInv, RanksRise, Slots, IsRoot
<1>5. TreesAreJoins'
  <2>1. \A S : CutsNoPair(S)' <=> CutsNoPair(S) /\ (pair[1] \in S <=> pair[2] \in S)
    BY <1>1 DEF CutsNoPair
  <2>2. \A S \in SUBSET Slots : CutsNoTree(S) => (pair[1] \in S <=> pair[2] \in S)
    BY <1>1, RootsOfPair
  <2> QED
    BY <1>2, <2>1, <2>2 DEF IInv, TreesAreJoins
<1>6. WalkInv'
  BY <1>1 DEF WalkInv
<1> QED
  BY <1>3, <1>4, <1>5, <1>6 DEF IInv

(* Linking two roots: the sets that cut no tree are those that cut none     *)
(* before and have both roots on one side.                                  *)
LEMMA LinkTrees ==
  ASSUME IInv, NEW lo \in Slots, NEW hi \in Slots, IsRoot(lo), lo # hi,
         parent' = [parent EXCEPT ![lo] = hi]
  PROVE  /\ Slots' = Slots /\ parent'[lo] = hi
         /\ \A s \in Slots : s # lo => parent'[s] = parent[s]
         /\ \A S : CutsNoTree(S)' <=> CutsNoTree(S) /\ (lo \in S <=> hi \in S)
<1>1. /\ Slots' = Slots /\ parent'[lo] = hi
      /\ \A s \in Slots : s # lo => parent'[s] = parent[s]
  BY DEF Slots, IInv, ForestTypeOK
<1>2. \A S : CutsNoTree(S)' <=> CutsNoTree(S) /\ (lo \in S <=> hi \in S)
  BY <1>1 DEF CutsNoTree, IsRoot
<1> QED
  BY <1>1, <1>2

\* So does a link of two roots, the lower of rank below the other.
LEMMA LinkInv == ASSUME IInv, Link PROVE IInv'
<1>1. PICK n \in 0 .. MaxSlots : /\ parent \in [0 .. n - 1 -> 0 .. n - 1]
                                 /\ rank \in [0 .. n - 1 -> Nat]
  BY DEF IInv, ForestTypeOK
<1>2. BothFound /\ first # node /\ EndUnion
  BY DEF Link
<1>3. PICK lo \in {first, node}, hi \in {first, node} :
        /\ lo # hi
        /\ rank[lo] < rank[hi] \/ (rank[lo] = rank[hi] /\ lo < hi)
        /\ parent' = [parent EXCEPT ![lo] = hi]
        /\ rank' = IF rank[lo] = rank[hi] THEN [rank EXCEPT ![hi] = @ + 1] ELSE rank
  BY DEF Link
<1>4. lo \in Slots /\ hi \in Slots /\ IsRoot(lo) /\ IsRoot(hi)
  BY <1>2, <1>3, RootsOfPair
<1>5. /\ Slots' = Slots /\ parent'[lo] = hi
      /\ \A s \in Slots : s # lo => parent'[s] = parent[s]
      /\ \A S : CutsNoTree(S)' <=> CutsNoTree(S) /\ (lo \in S <=> hi \in S)
  BY <1>3, <1>4, LinkTrees
<1>6. Slots = 0 .. n - 1 /\ None \notin Slots
  BY <1>1, UnionFindAssumption DEF Slots
<1>7. ForestTypeOK'
  <2>1. parent' \in [0 .. n - 1 -> 0 .. n - 1]
    BY <1>1, <1>3, <1>4, <1>6
  <2>2. rank' \in [0 .. n - 1 -> Nat]
    <3>1. CASE rank[lo] = rank[hi]
      <4>1. rank' = [rank EXCEPT ![hi] = rank[hi] + 1]
        BY <1>3, <3>1
      <4>2. rank[hi] + 1 \in Nat
        <5>1. hi \in 0 .. n - 1
          BY <1>4, <1>6
        <5>2. rank[hi] \in Nat
          BY <1>1, <5>1
        <5> QED
          BY <5>2
      <4> QED
        BY <1>1, <1>4, <1>6, <4>1, <4>2
    <3>2. CASE rank[lo] # rank[hi]
      BY <1>1, <1>3, <3>2
    <3> QED
      BY <3>1, <3>2
  <2>3. joined' \subseteq Slots \X Slots
    BY <1>2, RootsOfPair DEF EndUnion, IInv, ForestTypeOK
  <2> QED
    BY <1>2, <1>5, <1>6, <2>1, <2>2, <2>3 DEF ForestTypeOK, EndUnion
<1>8. RanksRise'
  <2>1. \A s \in Slots : rank[s] \in Nat
    BY <1>1, <1>6
  <2>2. /\ \A s \in Slots : rank'[s] \in Nat /\ rank'[s] >= rank[s]
        /\ \A s \in Slots : s # hi => rank'[s] = rank[s]
        /\ rank[lo] < rank'[hi]
    <3>1. CASE rank[lo] = rank[hi]
      <4>1. rank' = [rank EXCEPT ![hi] = rank[hi] + 1]
        BY <1>3, <3>1
      <4>2. rank'[hi] = rank[hi] + 1 /\ \A s \in Slots : s # hi => rank'[s] = rank[s]
        BY <1>1, <1>4, <1>6, <4>1
      <4> QED
        BY <1>4, <2>1, <3>1, <4>2
    <3>2. CASE rank[lo] # rank[hi]
      BY <1>3, <1>4, <2>1, <3>2
    <3> QED
      BY <3>1, <3>2
  <2>3. SUFFICES ASSUME NEW s \in Slots, parent'[s] # s PROVE rank'[s] < rank'[parent'[s]]
    BY <1>5 DEF RanksRise, IsRoot
  <2>4. CASE s = lo
    BY <1>3, <1>4, <1>5, <2>1, <2>2, <2>4
  <2>5. CASE s # lo
    <3>1. parent'[s] = parent[s] /\ parent[s] # s /\ parent[s] \in Slots
      BY <1>1, <1>5, <1>6, <2>3, <2>5
    <3>2. rank[s] < rank[parent[s]]
      BY <3>1 DEF IInv, RanksRise, IsRoot
    <3>3. s # hi
      BY <1>4, <3>1 DEF IsRoot
    <3> QED
      BY <2>1, <2>2, <3>1, <3>2, <3>3
  <2> QED
    BY <2>4, <2>5
<1>9. TreesAreJoins'
  <2>1. joined' = joined \cup {pair}
    BY <1>2 DEF EndUnion
  <2>2. \A S : CutsNoPair(S)' <=> CutsNoPair(S) /\ (pair[1] \in S <=> pair[2] \in S)
    BY <2>1 DEF CutsNoPair
  <2>3. \A S \in SUBSET Slots : CutsNoTree(S) =>
          ((lo \in S <=> hi \in S) <=> (pair[1] \in S <=> pair[2] \in S))
    BY <1>2, <1>3, RootsOfPair
  <2> QED
    BY <1>5, <2>2, <2>3 DEF IInv, TreesAreJoins
<1>10. WalkInv'
  BY <1>2 DEF WalkInv, EndUnion
<1> QED
  BY <1>7, <1>8, <1>9, <1>10 DEF IInv
-----------------------------------------------------------------------------

\* Every step keeps it.
LEMMA NextInv == ASSUME IInv, [Next]_forestVars PROVE IInv'
<1>1. CASE \E n \in 0 .. MaxSlots : New(n)
  <2>1. PICK n \in 0 .. MaxSlots : New(n)
    BY <1>1
  <2>2. ForestTypeOK' /\ RanksRise'
    BY <2>1, UnionFindAssumption DEF New, NoWalk, ForestTypeOK, RanksRise, Slots, IsRoot
  <2>3. TreesAreJoins' /\ WalkInv'
    BY <2>1 DEF New, NoWalk, TreesAreJoins, CutsNoTree, CutsNoPair, Slots, WalkInv
  <2> QED
    BY <2>2, <2>3 DEF IInv
<1>2. CASE (\E s \in Slots : BeginFind(s)) \/ (\E a, b \in Slots : BeginUnion(a, b)) \/ EndFind
  BY <1>2, BeginsInv
<1>3. CASE Walk
  BY <1>3, HalveInv, FoundFirstInv, SameTreeInv, LinkInv DEF Walk
<1>4. CASE UNCHANGED forestVars
  BY <1>4 DEF forestVars, IInv, ForestTypeOK, RanksRise, TreesAreJoins, WalkInv,
     CutsNoTree, CutsNoPair, Slots, IsRoot
<1> QED
  BY <1>1, <1>2, <1>3, <1>4 DEF Next

\* It is an invariant.
LEMMA AlwaysInv == ForestSpec => []IInv
BY InitInv, NextInv, PTL DEF ForestSpec

(* The forest and the walk keep their types.                                *)
THEOREM ForestTypeCorrect == ForestSpec => []ForestTypeOK
<1>1. IInv => ForestTypeOK
  BY DEF IInv
<1> QED
  BY AlwaysInv, <1>1, PTL

(* No path meets itself, whatever was united and found before: the loop of  *)
(* `find` cannot run for ever.                                              *)
THEOREM PathsEnd == ForestSpec => []RanksRise
<1>1. IInv => RanksRise
  BY DEF IInv
<1> QED
  BY AlwaysInv, <1>1, PTL

(* The trees are exactly the classes of what was united, in the middle of   *)
(* every walk and for every order of unions.                                *)
THEOREM TreesAreClasses == ForestSpec => []TreesAreJoins
<1>1. IInv => TreesAreJoins
  BY DEF IInv
<1> QED
  BY AlwaysInv, <1>1, PTL

-------------------------------------------------------------------------------
\* The grid, and the roots a forest has.

(* Rounding down, by a positive divisor.                                    *)
LEMMA DivBounds ==
  ASSUME NEW R \in Nat \ {0}, NEW a \in Int
  PROVE  a \div R \in Int /\ R * (a \div R) <= a /\ a < R * (a \div R) + R
  OBVIOUS

(* What squares to no more than R squared is no more than R.                *)
LEMMA SquareBound ==
  ASSUME NEW R \in Nat, NEW x \in Int, x * x <= R * R
  PROVE  x <= R /\ -R <= x
<1>1. CASE x > R
  <2>1. x * x > R * R
    BY <1>1, Z3
  <2>2. QED
    BY <2>1
<1>2. CASE x < -R
  <2>1. x * x > R * R
    BY <1>2, Z3
  <2>2. QED
    BY <2>1
<1>3. QED
  BY <1>1, <1>2

(* Numbers no further apart than R round to cells side by side.             *)
LEMMA CellsMeet ==
  ASSUME NEW R \in Nat \ {0}, NEW a \in Int, NEW b \in Int, a - b <= R, -R <= a - b
  PROVE  (a \div R) - (b \div R) \in -1 .. 1
<1> DEFINE p == a \div R
           q == b \div R
<1>1. p \in Int /\ R * p <= a /\ a < R * p + R
  BY DivBounds
<1>2. q \in Int /\ R * q <= b /\ b < R * q + R
  BY DivBounds
<1> HIDE DEF p, q
<1>3. CASE p - q >= 2
  <2>1. R * (p - q) >= R * 2
    BY <1>1, <1>2, <1>3
  <2>2. R * (p - q) = R * p - R * q
    BY <1>1, <1>2
  <2>3. QED
    BY <1>1, <1>2, <2>1, <2>2
<1>4. CASE q - p >= 2
  <2>1. R * (q - p) >= R * 2
    BY <1>1, <1>2, <1>4
  <2>2. R * (q - p) = R * q - R * p
    BY <1>1, <1>2
  <2>3. QED
    BY <1>1, <1>2, <2>1, <2>2
<1>5. QED
  BY <1>1, <1>2, <1>3, <1>4 DEF p, q

(* The grid misses no pair: what lies within the radius lies in neighbouring *)
(* cells, on either side of the origin.                                     *)
LEMMA NearIsNeighbour ==
  ASSUME NEW p \in Point, NEW q \in Point, Within(p, q)
  PROVE  Neighbours(cell_of(p), cell_of(q)) /\ Within(q, p)
<1> DEFINE x == p[1] - q[1]
           y == p[2] - q[2]
<1>1. /\ Radius \in Nat \ {0} /\ p[1] \in Int /\ p[2] \in Int /\ q[1] \in Int /\ q[2] \in Int
      /\ x \in Int /\ y \in Int
  BY ClusteringAssumption DEF Point
<1>2. x * x + y * y <= Radius * Radius
  BY DEF Within, Distance2
<1>3. Within(q, p)
  <2>1. \A a, b \in Int : (a - b) * (a - b) = (b - a) * (b - a)
    OBVIOUS
  <2>2. (q[1] - p[1]) * (q[1] - p[1]) = x * x /\ (q[2] - p[2]) * (q[2] - p[2]) = y * y
    BY <1>1, <2>1
  <2>3. QED
    BY <1>2, <2>2 DEF Within, Distance2
<1>4. (q[1] \div Radius) - (p[1] \div Radius) \in -1 .. 1 /\ (q[2] \div Radius) - (p[2] \div Radius) \in -1 .. 1
  <2> HIDE DEF x, y
  <2>1. \A a \in Int : a * a >= 0 /\ a * a \in Int
    OBVIOUS
  <2>2. x * x <= Radius * Radius /\ y * y <= Radius * Radius
    <3>1. \A a, b, c \in Int : a >= 0 /\ b >= 0 /\ a + b <= c => a <= c /\ b <= c
      OBVIOUS
    <3>2. Radius * Radius \in Int
      BY <1>1
    <3>3. QED
      BY <1>1, <1>2, <2>1, <3>1, <3>2
  <2>3. x <= Radius /\ -Radius <= x /\ y <= Radius /\ -Radius <= y
    BY <1>1, <2>2, SquareBound
  <2>4. /\ q[1] - p[1] <= Radius /\ -Radius <= q[1] - p[1]
        /\ q[2] - p[2] <= Radius /\ -Radius <= q[2] - p[2]
    BY <1>1, <2>3 DEF x, y
  <2>5. QED
    BY <1>1, <2>4, CellsMeet
<1>5. /\ cell_of(p) = <<p[1] \div Radius, p[2] \div Radius>>
      /\ cell_of(q) = <<q[1] \div Radius, q[2] \div Radius>>
  BY DEF cell_of
<1>6. \A d \in 1 .. 2 : cell_of(q)[d] - cell_of(p)[d] \in -1 .. 1
  BY <1>4, <1>5
<1>7. QED
  BY <1>3, <1>6 DEF Neighbours
-----------------------------------------------------------------------------
(* Every slot has a root, which all sets that cut no tree have with it.     *)
RootMap(root) ==
  /\ root \in [Slots -> Slots]
  /\ \A s \in Slots : /\ IsRoot(root[s]) /\ root[parent[s]] = root[s]
                      /\ IsRoot(s) => root[s] = s
  /\ \A S \in SUBSET Slots : CutsNoTree(S) => \A s \in Slots : s \in S <=> root[s] \in S

\* The forest has a map to its roots.
Rooted == \E root : RootMap(root)

(* Halving a path and linking two roots leave every slot a root.            *)
LEMMA RootedNext ==
  ASSUME IInv, Rooted, [Next]_forestVars
  PROVE  Rooted'
<1>1. PICK root : RootMap(root)
  BY DEF Rooted
<1>2. PICK n \in 0 .. MaxSlots : parent \in [0 .. n - 1 -> 0 .. n - 1]
  BY DEF IInv, ForestTypeOK
<1>3. Slots = 0 .. n - 1 /\ \A s \in Slots : parent[s] \in Slots
  BY <1>2 DEF Slots
<1>4. CASE \E m \in 0 .. MaxSlots : New(m)
  <2>1. PICK m \in 0 .. MaxSlots : parent' = [s \in 0 .. m - 1 |-> s]
    BY <1>4 DEF New
  <2> DEFINE id == [s \in 0 .. m - 1 |-> s]
  <2>2. RootMap(id)'
    BY <2>1 DEF RootMap, IsRoot, CutsNoTree, Slots
  <2>3. QED
    BY <2>2 DEF Rooted
<1>5. CASE Halve
  <2> DEFINE p == parent[node]
             g == parent[p]
  <2>1. node \in Slots /\ parent' = [parent EXCEPT ![node] = g]
    BY <1>5 DEF Halve, IInv, ForestTypeOK
  <2>2. p \in Slots /\ g \in Slots /\ p # node
    BY <1>3, <1>5, <2>1 DEF Halve, IsRoot
  <2>3. Slots' = Slots /\ parent'[node] = g /\ \A s \in Slots : s # node => parent'[s] = parent[s]
    BY <2>1 DEF Slots
  <2>4. \A S : CutsNoTree(S)' <=> CutsNoTree(S)
    BY <1>5, HalvingKeepsTrees
  <2>5. root[g] = root[node]
    BY <1>1, <2>1, <2>2 DEF RootMap
  <2>6. \A s \in Slots : IsRoot(s)' <=> IsRoot(s)
    <3>1. rank[node] \in Nat /\ rank[p] \in Nat /\ rank[g] \in Nat /\ rank[node] < rank[p] /\ (g # p => rank[p] < rank[g])
      BY <1>3, <2>1, <2>2 DEF IInv, ForestTypeOK, RanksRise, IsRoot, Slots
    <3>2. g # node
      BY <3>1
    <3>3. QED
      BY <2>2, <2>3, <3>2 DEF IsRoot
  <2>7. \A s \in Slots : IsRoot(root[s])' /\ root[parent'[s]] = root[s] /\ (IsRoot(s)' => root[s] = s)
    BY <1>1, <2>3, <2>5, <2>6 DEF RootMap
  <2>8. RootMap(root)'
    BY <1>1, <2>3, <2>4, <2>7 DEF RootMap
  <2>9. QED
    BY <2>8 DEF Rooted
<1>6. CASE Link
  <2>1. PICK lo \in {first, node}, hi \in {first, node} : lo # hi /\ parent' = [parent EXCEPT ![lo] = hi]
    BY <1>6 DEF Link
  <2>2. lo \in Slots /\ hi \in Slots /\ IsRoot(lo) /\ IsRoot(hi)
    BY <1>6, <2>1, RootsOfPair DEF Link
  <2>3. /\ Slots' = Slots /\ parent'[lo] = hi
        /\ \A s \in Slots : s # lo => parent'[s] = parent[s]
        /\ \A S : CutsNoTree(S)' <=> CutsNoTree(S) /\ (lo \in S <=> hi \in S)
    BY <2>1, <2>2, LinkTrees
  <2>4. PICK up \in [Slots -> Slots] : \A s \in Slots : up[s] = IF root[s] = lo THEN hi ELSE root[s]
    <3>1. [s \in Slots |-> IF root[s] = lo THEN hi ELSE root[s]] \in [Slots -> Slots]
      BY <1>1, <2>2 DEF RootMap
    <3>2. QED
      BY <3>1
  <2>5. \A s \in Slots : s # lo => (IsRoot(s)' <=> IsRoot(s))
    BY <2>3 DEF IsRoot
  <2>6. ASSUME NEW s \in Slots
        PROVE  IsRoot(up[s])' /\ up[parent'[s]] = up[s] /\ (IsRoot(s)' => up[s] = s)
    <3>1. root[s] \in Slots /\ IsRoot(root[s]) /\ root[parent[s]] = root[s] /\ (IsRoot(s) => root[s] = s)
      BY <1>1 DEF RootMap
    <3>2. up[s] \in Slots /\ up[s] # lo /\ IsRoot(up[s])
      BY <2>1, <2>2, <2>4, <3>1
    <3>3. IsRoot(up[s])'
      BY <2>5, <3>2
    <3>4. root[lo] = lo /\ root[hi] = hi
      BY <1>1, <2>2 DEF RootMap
    <3>5. up[parent'[s]] = up[s]
      <4>1. CASE s = lo
        BY <2>1, <2>2, <2>3, <2>4, <3>4, <4>1
      <4>2. CASE s # lo
        BY <1>3, <2>3, <2>4, <3>1, <4>2
      <4>3. QED
        BY <4>1, <4>2
    <3>6. IsRoot(s)' => up[s] = s
      <4>1. ASSUME IsRoot(s)' PROVE s # lo
        BY <2>1, <2>3, <4>1 DEF IsRoot
      <4>2. QED
        BY <2>4, <2>5, <3>1, <4>1
    <3>7. QED
      BY <3>3, <3>5, <3>6
  <2>7. ASSUME NEW S \in SUBSET Slots, CutsNoTree(S), lo \in S <=> hi \in S, NEW s \in Slots
        PROVE  s \in S <=> up[s] \in S
    BY <1>1, <2>4, <2>7 DEF RootMap
  <2>8. RootMap(up)'
    BY <2>3, <2>4, <2>6, <2>7 DEF RootMap
  <2>9. QED
    BY <2>8 DEF Rooted
<1>7. CASE UNCHANGED parent
  BY <1>1, <1>7 DEF Rooted, RootMap, IsRoot, CutsNoTree, Slots
<1>8. QED
  BY <1>4, <1>5, <1>6, <1>7 DEF Next, Walk, BeginFind, EndFind, BeginUnion, FoundFirst, SameTree, forestVars

-------------------------------------------------------------------------------
\* What is joined.

\* The classes of a finding.
Classes == {"gouge", "excess-stock", "undercut", "unreachable"}

\* What of the input is joined.
Chosen == {i \in DOMAIN Items : class_of(i) # None}

\* The slots are the chosen, each once, with their class.
KeptFacts(pts) ==
  /\ pts \in Seq([of : Chosen, at : Point, class : Classes]) /\ Len(pts) \in 0 .. MaxSlots
  /\ \A k \in 1 .. Len(pts) : /\ pts[k].of \in Chosen /\ pts[k].at \in Point /\ pts[k].class \in Classes
                              /\ pts[k].at = Items[pts[k].of].at /\ pts[k].class = class_of(pts[k].of)
  /\ \A i \in Chosen : \E k \in 1 .. Len(pts) : pts[k].of = i
  /\ \A j, k \in 1 .. Len(pts) : pts[j].of = pts[k].of => j = k

\* The field is one that may be read.
InputOK == IsField(field) /\ of \in {"samples", "facets"}

\* Every sample and facet has a place, and its class is one of four or None.
LEMMA ItemsTyped ==
  ASSUME InputOK
  PROVE  /\ Items = field.samples \/ Items = field.facets
         /\ Len(Items) \in 0 .. MaxSlots /\ DOMAIN Items = 1 .. Len(Items)
         /\ \A i \in DOMAIN Items : Items[i].at \in Point
         /\ \A i \in DOMAIN Items : class_of(i) \in Classes \cup {None}
<1>1. CASE of = "samples"
  <2>1. Items = field.samples /\ \A i \in DOMAIN Items : field.samples[i] \in Sample
    BY <1>1 DEF Items, InputOK, IsField
  <2>2. \A i \in DOMAIN Items : class_of(i) = classify(field.samples[i])
    BY <1>1 DEF class_of
  <2>3. \A x \in Sample : classify(x) \in Classes \cup {None} /\ x.at \in Point
    <3>1. \A x \in Sample : x.signed \in Int /\ x.at \in Point
      BY DEF Sample
    <3>2. Tolerance \in Nat
      BY ClusteringAssumption
    <3>3. ASSUME NEW x \in Sample PROVE classify(x) \in Classes \cup {None}
      <4>1. x.signed < -Tolerance \/ x.signed > Tolerance \/ (x.signed <= Tolerance /\ -x.signed <= Tolerance)
        BY <3>1, <3>2
      <4>2. QED
        BY <4>1 DEF classify, Classes
    <3>4. QED
      BY <3>1, <3>3
  <2>4. QED
    BY <2>1, <2>2, <2>3 DEF InputOK, IsField
<1>2. CASE of = "facets"
  <2>1. Items = field.facets /\ \A i \in DOMAIN Items : field.facets[i] \in Facet
    BY <1>2 DEF Items, InputOK, IsField
  <2>2. \A i \in DOMAIN Items :
          class_of(i) = LET f == field.facets[i]
                        IN  CASE covered(f.at) \/ f.faces = None -> None
                              [] ~covered(f.at) /\ f.faces = "down" -> "undercut"
                              [] ~covered(f.at) /\ f.faces = "up" -> "unreachable"
    BY <1>2 DEF class_of
  <2>3. \A x \in Facet : x.faces \in {"up", "down", None} /\ x.at \in Point
    BY DEF Facet
  <2>4. ASSUME NEW i \in DOMAIN Items PROVE class_of(i) \in Classes \cup {None}
    <3>1. field.facets[i].faces \in {"up", "down", None}
      BY <2>1, <2>3
    <3>2. QED
      BY <2>2, <3>1 DEF Classes
  <2>5. QED
    BY <2>1, <2>3, <2>4 DEF InputOK, IsField
<1>3. QED
  BY <1>1, <1>2 DEF InputOK

\* The slots of a pass are the chosen of its input, each once.
LEMMA KeptIsChosen == ASSUME InputOK PROVE KeptFacts(Kept)
<1> DEFINE key == [i \in DOMAIN Items |-> <<i>>]
           order == InOrder(Chosen, key)
           c == Cardinality(Chosen)
<1>0. Len(Items) \in Nat /\ DOMAIN Items = 1 .. Len(Items)
  BY ItemsTyped
<1>1. IsFiniteSet(DOMAIN Items) /\ Cardinality(DOMAIN Items) = Len(Items)
  <2>1. IsFiniteSet(1 .. Len(Items)) /\ Cardinality(1 .. Len(Items)) = Len(Items)
    <3>1. 1 \in Int /\ Len(Items) \in Int
      BY <1>0
    <3>2. /\ IsFiniteSet(1 .. Len(Items))
          /\ Cardinality(1 .. Len(Items)) = IF 1 > Len(Items) THEN 0 ELSE Len(Items) - 1 + 1
      BY <3>1, FS_Interval
    <3>3. QED
      BY <1>0, <3>2
  <2>2. QED
    BY <1>0, <2>1
<1>2. Chosen \in SUBSET (DOMAIN Items) /\ Chosen \in SUBSET Nat
  BY ItemsTyped DEF Chosen
<1>3. IsFiniteSet(Chosen) /\ c <= Len(Items)
  BY <1>1, <1>2, FS_Subset
<1>4. Keyed(Chosen, key, 1)
  BY <1>2 DEF Keyed
<1>5. /\ c \in Nat /\ order \in [1 .. c -> Chosen]
      /\ \A x \in Chosen : \E n \in 1 .. c : order[n] = x
      /\ \A m, n \in 1 .. c : m < n => Lexicographic(key[order[m]], key[order[n]])
  <2> HIDE DEF key
  <2>1. QED
    BY <1>3, <1>4, InOrderProperties
<1>6. \A m, n \in 1 .. c : order[m] = order[n] => m = n
  <2>1. ASSUME NEW m \in 1 .. c, NEW n \in 1 .. c, m < n, order[m] = order[n] PROVE FALSE
    <3>1. key[order[m]] \in Seq(Int)
      BY <1>4, <1>5 DEF Keyed
    <3>2. ~Lexicographic(key[order[m]], key[order[m]])
      BY <3>1, LexicographicIrreflexive
    <3>3. QED
      BY <1>5, <2>1, <3>2
  <2>2. \A m, n \in 1 .. c : m < n \/ m = n \/ n < m
    BY <1>5
  <2>3. QED
    BY <2>1, <2>2
<1>7. Kept = [k \in 1 .. c |-> [of |-> order[k], at |-> Items[order[k]].at, class |-> class_of(order[k])]]
  BY <1>5 DEF Kept, Chosen
<1> HIDE DEF order, c, key
<1>8. \A k \in 1 .. c : order[k] \in Chosen /\ Items[order[k]].at \in Point /\ class_of(order[k]) \in Classes
  BY <1>2, <1>5, ItemsTyped DEF Chosen
<1>9. Kept \in [1 .. c -> [of : Chosen, at : Point, class : Classes]]
  BY <1>7, <1>8
<1>10. Kept \in Seq([of : Chosen, at : Point, class : Classes]) /\ Len(Kept) = c
  <2> DEFINE R == [of : Chosen, at : Point, class : Classes]
  <2>1. c \in Nat /\ Kept \in [1 .. c -> R]
    BY <1>5, <1>9
  <2> HIDE DEF R
  <2>2. Kept \in Seq(R) /\ Len(Kept) = c
    BY <2>1
  <2>3. QED
    BY <2>2 DEF R
<1>11. Len(Kept) \in 0 .. MaxSlots
  BY <1>3, <1>5, <1>10, ItemsTyped, UnionFindAssumption DEF c
<1>12. \A k \in 1 .. c : /\ Kept[k].of = order[k] /\ Kept[k].at = Items[order[k]].at
                         /\ Kept[k].class = class_of(order[k])
  BY <1>7
<1>13. QED
  BY <1>5, <1>6, <1>8, <1>10, <1>11, <1>12 DEF KeptFacts

\* The slots of a pass depend on the field and on the pass alone.
LEMMA SameInput ==
  ASSUME field' = field, of' = of
  PROVE  Kept' = Kept /\ Chosen' = Chosen
<1>1. Items' = Items
  BY DEF Items
<1>3. \A i : class_of(i)' = class_of(i)
  BY DEF class_of, covered
<1>4. Chosen' = Chosen
  BY <1>1, <1>3 DEF Chosen
<1>5. QED
  BY <1>1, <1>3, <1>4 DEF Kept

-------------------------------------------------------------------------------
\* What is united.

\* The range of a sequence is what stands in it.
LEMMA RangeIs == ASSUME NEW S, NEW q \in Seq(S) PROVE Range(q) = {q[k] : k \in 1 .. Len(q)} /\ Range(q) \subseteq S
BY DEF Range

\* A concatenation of sequences of integers is one.
LEMMA ConcatInts ==
  ASSUME NEW p \in Seq(Int), NEW q \in Seq(Int)
  PROVE  /\ p \o q \in Seq(Int) /\ Len(p \o q) = Len(p) + Len(q)
         /\ \A i \in 1 .. Len(p) + Len(q) : (p \o q)[i] = IF i <= Len(p) THEN p[i] ELSE q[i - Len(p)]
BY ConcatProperties

(* Three pairs in a row: the last are the fifth and the sixth.                *)
LEMMA ThreePairs ==
  ASSUME NEW a \in Seq(Int), NEW b \in Seq(Int), NEW e \in Seq(Int), Len(a) = 2, Len(b) = 2, Len(e) = 2
  PROVE  /\ a \o b \o e \in Seq(Int) /\ Len(a \o b \o e) = 6
         /\ (a \o b \o e)[5] = e[1] /\ (a \o b \o e)[6] = e[2]
<1>1. PICK cc : cc = a \o b
  OBVIOUS
<1>2. cc \in Seq(Int) /\ Len(cc) = Len(a) + Len(b)
  BY <1>1, ConcatInts
<1>3. Len(cc) = 4
  BY <1>2
<1>4. /\ cc \o e \in Seq(Int) /\ Len(cc \o e) = Len(cc) + Len(e)
      /\ \A i \in 1 .. Len(cc) + Len(e) : (cc \o e)[i] = IF i <= Len(cc) THEN cc[i] ELSE e[i - Len(cc)]
  BY <1>2, ConcatInts
<1>5. /\ (cc \o e)[5] = IF 5 <= 4 THEN cc[5] ELSE e[5 - 4]
      /\ (cc \o e)[6] = IF 6 <= 4 THEN cc[6] ELSE e[6 - 4]
  <2>1. 5 \in 1 .. Len(cc) + Len(e) /\ 6 \in 1 .. Len(cc) + Len(e)
    BY <1>3
  <2>2. QED
    BY <1>3, <1>4, <2>1
<1>6. QED
  BY <1>1, <1>3, <1>4, <1>5

\* Each of a list of slots has a place.
Placed(pts) == Len(pts) \in Nat /\ \A k \in 1 .. Len(pts) : pts[k].at \in Point

\* The loops of the grid yield the pairs to unite, each of them and no other.
LEMMA EdgesOfPlaced ==
  ASSUME NEW pts, Placed(pts)
  PROVE  /\ United(pts) \subseteq (0 .. Len(pts) - 1) \X (0 .. Len(pts) - 1)
         /\ Edges(pts) \in Seq((0 .. Len(pts) - 1) \X (0 .. Len(pts) - 1)) /\ Range(Edges(pts)) = United(pts)
<1> DEFINE N == 0 .. Len(pts) - 1
           U == United(pts)
           cell(s) == cell_of(pts[s + 1].at)
           key == [e \in U |-> cell(e[1]) \o cell(e[2]) \o e]
           c == Cardinality(U)
<1>1. Len(pts) \in Nat /\ \A k \in 1 .. Len(pts) : pts[k].at \in Point
  BY DEF Placed
<1>2. U \subseteq N \X N
  BY DEF United
<1>3. IsFiniteSet(U)
  <2>1. IsFiniteSet(N)
    BY <1>1, FS_Interval
  <2>2. IsFiniteSet(N \X N)
    BY <2>1, FS_Product
  <2>3. QED
    BY <1>2, <2>2, FS_Subset
<1>4. \A s \in N : cell(s) \in Seq(Int) /\ Len(cell(s)) = 2
  <2>1. ASSUME NEW p \in Point PROVE cell_of(p) \in Seq(Int) /\ Len(cell_of(p)) = 2
    <3>1. p[1] \div Radius \in Int /\ p[2] \div Radius \in Int
      BY ClusteringAssumption, DivBounds DEF Point
    <3>2. QED
      BY <3>1 DEF cell_of
  <2>2. \A s \in N : s + 1 \in 1 .. Len(pts)
    BY <1>1
  <2>3. QED
    BY <1>1, <2>1, <2>2
<1> HIDE DEF cell
<1>5. ASSUME NEW e \in U
      PROVE  key[e] \in Seq(Int) /\ Len(key[e]) = 6 /\ key[e][5] = e[1] /\ key[e][6] = e[2]
  <2>1. e[1] \in N /\ e[2] \in N /\ e \in Seq(Int) /\ Len(e) = 2
    <3>1. e \in N \X N /\ \A x \in N : x \in Int
      BY <1>1, <1>2
    <3>2. e = <<e[1], e[2]>> /\ e[1] \in N /\ e[2] \in N
      BY <3>1
    <3>3. <<e[1], e[2]>> \in Seq(Int) /\ Len(<<e[1], e[2]>>) = 2
      BY <3>1, <3>2
    <3>4. QED
      BY <3>2, <3>3
  <2>2. cell(e[1]) \in Seq(Int) /\ Len(cell(e[1])) = 2 /\ cell(e[2]) \in Seq(Int) /\ Len(cell(e[2])) = 2
    BY <1>4, <2>1
  <2>3. key[e] = cell(e[1]) \o cell(e[2]) \o e
    OBVIOUS
  <2> HIDE DEF key
  <2>4. PICK a, b : a = cell(e[1]) /\ b = cell(e[2])
    OBVIOUS
  <2>5. /\ a \o b \o e \in Seq(Int) /\ Len(a \o b \o e) = 6
        /\ (a \o b \o e)[5] = e[1] /\ (a \o b \o e)[6] = e[2]
    BY <2>1, <2>2, <2>4, ThreePairs
  <2>6. QED
    BY <2>3, <2>4, <2>5
<1>6. Keyed(U, key, 6)
  <2>1. \A e \in U : e = <<e[1], e[2]>>
    BY <1>2
  <2> HIDE DEF key
  <2>2. \A e, g \in U : key[e] = key[g] => e = g
    BY <1>5, <2>1
  <2>3. QED
    BY <1>5, <2>2 DEF Keyed
<1>7. Edges(pts) = InOrder(U, key)
  BY DEF Edges, cell
<1> HIDE DEF key
<1>8. /\ c \in Nat /\ InOrder(U, key) \in [1 .. c -> U]
      /\ \A x \in U : \E n \in 1 .. c : InOrder(U, key)[n] = x
  BY <1>3, <1>6, InOrderProperties
<1> DEFINE E == InOrder(U, key)
<1> HIDE DEF U, N, E, c
<1>9. E \in Seq(U) /\ Len(E) = c
  BY <1>8 DEF E
<1>10. E \in Seq(N \X N)
  BY <1>2, <1>8, <1>9 DEF E
<1>11. Range(E) = U
  <2>1. Range(E) = {E[k] : k \in 1 .. c}
    BY <1>9, RangeIs
  <2>2. QED
    BY <2>1, <1>8 DEF E
<1>12. QED
  BY <1>2, <1>7, <1>10, <1>11 DEF U, N, E

(* So they do for what is kept.                                              *)
LEMMA EdgesAreUnited ==
  ASSUME NEW pts, KeptFacts(pts)
  PROVE  /\ United(pts) \subseteq (0 .. Len(pts) - 1) \X (0 .. Len(pts) - 1)
         /\ Edges(pts) \in Seq((0 .. Len(pts) - 1) \X (0 .. Len(pts) - 1)) /\ Range(Edges(pts)) = United(pts)
<1>1. Placed(pts)
  BY UnionFindAssumption DEF KeptFacts, Placed
<1>2. QED
  BY <1>1, EdgesOfPlaced

-------------------------------------------------------------------------------
\* The loop over the grid.

\* The pair being united, if one is.
Uniting == IF pair = None THEN {} ELSE {pair}

\* Nothing is united but what is to be, and nothing of that is forgotten.
JoinInv ==
  /\ stage \in {"join", "gather", "fold"} => points = Kept /\ Slots = 0 .. Len(points) - 1
  /\ stage \notin {"join", "gather"} => NoWalk
  /\ stage = "join" => /\ edges \in Seq(Slots \X Slots)
                       /\ joined \cup Range(edges) \cup Uniting = United(points)
  /\ stage \in {"gather", "fold"} => joined = United(points) /\ pair = None

\* What is gathered so far, by what every slot has for a root.
GroupsOf(root) ==
  /\ DOMAIN groups = {root[s] : s \in 0 .. slot - 1}
  /\ \A r \in DOMAIN groups : /\ groups[r] \in Seq(Slots)
                              /\ Range(groups[r]) = {s \in 0 .. slot - 1 : root[s] = r}

\* What is gathered so far: of every tree the slots below the next.
GatherInv ==
  /\ stage \in {"join", "gather", "fold"} => slot \in 0 .. Len(points)
  /\ stage = "join" => slot = 0 /\ groups = <<>>
  /\ stage \in {"gather", "fold"} =>
       \E root : /\ RootMap(root) /\ GroupsOf(root)
                 /\ node # None => slot < Len(points) /\ root[node] = root[slot]
  /\ stage = "fold" => slot = Len(points)

\* All of it, at every step of a clustering.
Standing == InputOK /\ IInv /\ Rooted /\ JoinInv /\ GatherInv

\* What the later lemmas use of it.
LEMMA StandingFacts ==
  ASSUME Standing
  PROVE  /\ InputOK /\ IInv /\ Rooted /\ JoinInv /\ GatherInv /\ KeptFacts(Kept)
         /\ Len(Kept) \in Nat
         /\ stage \in {"join", "gather", "fold"} => points = Kept /\ Slots = 0 .. Len(points) - 1 /\ Len(points) \in Nat
<1>1. KeptFacts(Kept)
  BY KeptIsChosen DEF Standing
<1>2. Len(Kept) \in Nat
  BY <1>1, UnionFindAssumption DEF KeptFacts
<1>3. QED
  BY <1>1, <1>2 DEF Standing, JoinInv

\* A pair of slots is not None.
LEMMA PairIsSome == ASSUME NEW a \in Nat, NEW b \in Nat PROVE <<a, b>> # None
<1>1. <<a, b>> \in Nat \X Nat
  OBVIOUS
<1>2. QED
  BY <1>1, UnionFindAssumption

\* Slots are naturals.
LEMMA SlotsAreNat == ASSUME IInv PROVE \A s \in Slots : s \in Nat
BY UnionFindAssumption DEF IInv, ForestTypeOK, Slots

\* A step of the loop takes the first of the pairs left to unite.
LEMMA JoinTakes ==
  ASSUME Standing, Join
  PROVE  /\ Head(edges)[1] \in Slots /\ Head(edges)[2] \in Slots
         /\ Head(edges) = <<Head(edges)[1], Head(edges)[2]>>
         /\ Tail(edges) \in Seq(Slots \X Slots) /\ Range(edges) = {Head(edges)} \cup Range(Tail(edges))
<1>1. edges \in Seq(Slots \X Slots) /\ edges # <<>>
  BY DEF Standing, JoinInv, Join
<1>2. /\ Head(edges) \in Slots \X Slots /\ Tail(edges) \in Seq(Slots \X Slots)
      /\ Len(Tail(edges)) = Len(edges) - 1
      /\ \A i \in 1 .. Len(Tail(edges)) : Tail(edges)[i] = edges[i + 1]
  BY <1>1, HeadTailProperties
<1>3. Len(edges) \in Nat \ {0} /\ Head(edges) = edges[1]
  BY <1>1
<1>4. Range(edges) = {edges[k] : k \in 1 .. Len(edges)} /\ Range(Tail(edges)) = {Tail(edges)[k] : k \in 1 .. Len(edges) - 1}
  BY <1>1, <1>2, RangeIs
<1>5. \A k \in 1 .. Len(edges) : k = 1 \/ (k - 1 \in 1 .. Len(edges) - 1 /\ Tail(edges)[k - 1] = edges[k])
  BY <1>2, <1>3
<1>6. \A k \in 1 .. Len(edges) - 1 : k + 1 \in 1 .. Len(edges) /\ Tail(edges)[k] = edges[k + 1]
  BY <1>2, <1>3
<1>7. Range(edges) = {Head(edges)} \cup Range(Tail(edges))
  <2>1. Head(edges) \in Range(edges)
    BY <1>3, <1>4
  <2>2. Range(Tail(edges)) \subseteq Range(edges)
    BY <1>4, <1>6
  <2>3. \A x \in Range(edges) : x = Head(edges) \/ x \in Range(Tail(edges))
    BY <1>3, <1>4, <1>5
  <2>4. QED
    BY <2>1, <2>2, <2>3
<1>8. QED
  BY <1>2, <1>7

\* A step of a clustering is a step of the forest, or begins one of single slots.
LEMMA ClusterStepsForest ==
  ASSUME Standing, ClusterNext
  PROVE  [Next]_forestVars
<1>1. CASE Classify
  <2>1. New(Len(Kept)) /\ Len(Kept) \in 0 .. MaxSlots
    BY <1>1, StandingFacts DEF Classify, KeptFacts
  <2>2. QED
    BY <2>1 DEF Next
<1>2. CASE Join
  <2>1. BeginUnion(Head(edges)[1], Head(edges)[2])
    BY <1>2 DEF Join
  <2>2. QED
    BY <1>2, <2>1, JoinTakes DEF Next
<1>3. CASE Gather
  <2>1. BeginFind(slot) /\ slot \in Slots
    BY <1>3, StandingFacts DEF Gather, GatherInv
  <2>2. QED
    BY <2>1 DEF Next
<1>4. CASE Find \/ Gathered
  BY <1>4 DEF Find, Gathered, Next
<1>5. CASE JoinEnd \/ GatherEnd \/ Fold
  BY <1>5 DEF JoinEnd, GatherEnd, Fold
<1>6. QED
  BY <1>1, <1>2, <1>3, <1>4, <1>5 DEF ClusterNext

\* So it keeps what the forest keeps.
LEMMA ClusterForest ==
  ASSUME Standing, ClusterNext
  PROVE  IInv' /\ Rooted'
BY ClusterStepsForest, NextInv, RootedNext DEF Standing

\* Every step keeps that what is not united yet is still to be.
LEMMA JoinInvNext ==
  ASSUME Standing, ClusterNext
  PROVE  JoinInv'
<1>0. /\ JoinInv /\ IInv /\ KeptFacts(Kept) /\ Len(Kept) \in Nat /\ GatherInv
      /\ stage \in {"join", "gather", "fold"} => points = Kept /\ Slots = 0 .. Len(points) - 1 /\ Len(points) \in Nat
  BY StandingFacts
<1>1. CASE Classify
  <2>1. /\ points' = Kept /\ edges' = Edges(Kept) /\ field' = field /\ of' = of
        /\ stage' = IF Kept = <<>> THEN "fold" ELSE "join"
        /\ New(Len(Kept))
    BY <1>1 DEF Classify
  <2>2. Kept' = Kept
    BY <2>1, SameInput
  <2>3. Slots' = 0 .. Len(Kept) - 1 /\ joined' = {} /\ NoWalk' /\ pair' = None
    BY <2>1 DEF New, NoWalk, Slots
  <2>4. edges' \in Seq(Slots' \X Slots') /\ Range(edges') = United(Kept)
    BY <1>0, <2>1, <2>3, EdgesAreUnited
  <2>5. stage' = "fold" => joined' = United(points')
    <3>1. ASSUME Kept = <<>> PROVE United(Kept) = {}
      <4>1. Len(Kept) = 0
        BY <3>1
      <4>2. 0 .. Len(Kept) - 1 = {}
        BY <4>1
      <4>3. QED
        BY <1>0, <4>2, EdgesAreUnited
    <3>2. QED
      BY <2>1, <2>3, <3>1
  <2>6. stage' = "join" => joined' \cup Range(edges') \cup Uniting' = United(points')
    BY <2>1, <2>3, <2>4 DEF Uniting
  <2>7. QED
    BY <2>1, <2>2, <2>3, <2>4, <2>5, <2>6 DEF JoinInv
<1>2. CASE Join
  <2>1. /\ stage = "join" /\ edges # <<>> /\ UNCHANGED <<field, stage, of, points, slot, groups>>
        /\ edges' = Tail(edges) /\ pair = None /\ pair' = <<Head(edges)[1], Head(edges)[2]>>
        /\ UNCHANGED <<parent, joined>>
    BY <1>2 DEF Join, BeginUnion, NoWalk
  <2>2. Kept' = Kept /\ Slots' = Slots
    BY <2>1, SameInput DEF Slots
  <2>3. pair' # None /\ pair' = Head(edges)
    BY <1>0, <1>2, <2>1, JoinTakes, PairIsSome, SlotsAreNat
  <2>4. Uniting = {} /\ Uniting' = {Head(edges)}
    BY <2>1, <2>3 DEF Uniting
  <2>5. joined' \cup Range(edges') \cup Uniting' = United(points')
    <3>1. joined \cup Range(edges) \cup Uniting = United(points)
      BY <1>0, <2>1 DEF JoinInv
    <3>2. Range(edges) = {Head(edges)} \cup Range(Tail(edges))
      BY <1>2, JoinTakes
    <3>3. QED
      BY <2>1, <2>4, <3>1, <3>2
  <2>6. edges' \in Seq(Slots' \X Slots')
    BY <1>2, <2>1, <2>2, JoinTakes
  <2>7. QED
    BY <1>0, <2>1, <2>2, <2>5, <2>6 DEF JoinInv
<1>3. CASE JoinEnd
  <2>1. /\ stage = "join" /\ edges = <<>> /\ NoWalk /\ stage' = "gather"
        /\ UNCHANGED <<forestVars, field, of, points, edges, slot, groups>>
    BY <1>3 DEF JoinEnd
  <2>2. Kept' = Kept /\ Slots' = Slots /\ pair = None /\ pair' = None /\ joined' = joined
    BY <2>1, SameInput DEF Slots, forestVars, NoWalk
  <2>3. Range(edges) = {} /\ Uniting = {}
    BY <2>1, <2>2 DEF Range, Uniting
  <2>4. joined' = United(points')
    BY <1>0, <2>1, <2>2, <2>3 DEF JoinInv
  <2>5. QED
    BY <1>0, <2>1, <2>2, <2>4 DEF JoinInv
<1>4. CASE Find
  <2>1. stage \in {"join", "gather"} /\ Walk /\ UNCHANGED workVars
    BY <1>4 DEF Find
  <2>2. /\ UNCHANGED <<field, stage, of, points, edges, slot, groups>> /\ Kept' = Kept
    BY <2>1, SameInput DEF workVars
  <2>3. Slots' = Slots
    BY <1>0, <2>1 DEF Walk, Halve, FoundFirst, SameTree, Link, Slots, IInv, ForestTypeOK
  <2>4. joined' \cup Uniting' = joined \cup Uniting /\ (pair = None => pair' = None /\ joined' = joined)
    <3>1. CASE Halve \/ FoundFirst
      BY <3>1 DEF Halve, FoundFirst, Uniting
    <3>2. CASE SameTree \/ Link
      <4>1. first # None /\ pair' = None /\ joined' = joined \cup {pair}
        BY <3>2 DEF SameTree, Link, BothFound, EndUnion
      <4>2. pair # None
        BY <1>0, <4>1 DEF IInv, ForestTypeOK
      <4>3. QED
        BY <4>1, <4>2 DEF Uniting
    <3>3. QED
      BY <2>1, <3>1, <3>2 DEF Walk
  <2>5. stage = "join" => joined' \cup Range(edges') \cup Uniting' = United(points')
    BY <1>0, <2>2, <2>4 DEF JoinInv
  <2>6. QED
    BY <1>0, <2>1, <2>2, <2>3, <2>4, <2>5 DEF JoinInv
<1>5. CASE Gather \/ Gathered
  <2>1. /\ stage = "gather" /\ UNCHANGED <<field, of, stage, points, parent, joined, pair>>
    BY <1>5 DEF Gather, Gathered, BeginFind, EndFind, workVars
  <2>2. Kept' = Kept /\ Slots' = Slots
    BY <2>1, SameInput DEF Slots
  <2>3. QED
    BY <1>0, <2>1, <2>2 DEF JoinInv
<1>6. CASE GatherEnd
  <2>1. stage = "gather" /\ stage' = "fold" /\ NoWalk /\ UNCHANGED <<field, of, points, forestVars>>
    BY <1>6 DEF GatherEnd
  <2>2. Kept' = Kept /\ Slots' = Slots /\ joined' = joined /\ pair' = pair /\ NoWalk'
    BY <2>1, SameInput DEF Slots, forestVars, NoWalk
  <2>3. QED
    BY <1>0, <2>1, <2>2 DEF JoinInv
<1>7. CASE Fold
  <2>1. stage = "fold" /\ stage' \in {"classify", "done"} /\ UNCHANGED forestVars
    BY <1>7 DEF Fold
  <2>2. NoWalk'
    BY <1>0, <2>1 DEF JoinInv, NoWalk, forestVars
  <2>3. QED
    BY <2>1, <2>2 DEF JoinInv
<1>8. QED
  BY <1>1, <1>2, <1>3, <1>4, <1>5, <1>6, <1>7 DEF ClusterNext

-------------------------------------------------------------------------------
\* The trees gathered.

\* A forest that does not change keeps its roots.
LEMMA RootsKept ==
  ASSUME NEW root, RootMap(root), parent' = parent
  PROVE  RootMap(root)' /\ Slots' = Slots
BY DEF RootMap, IsRoot, CutsNoTree, Slots

(* Halving a path changes no slot's root.                                   *)
LEMMA HalveKeepsRoots ==
  ASSUME IInv, NEW root, RootMap(root), Halve
  PROVE  RootMap(root)' /\ Slots' = Slots /\ node' \in Slots /\ root[node'] = root[node]
<1> DEFINE p == parent[node]
           g == parent[p]
<1>1. PICK n \in 0 .. MaxSlots : parent \in [0 .. n - 1 -> 0 .. n - 1]
  BY DEF IInv, ForestTypeOK
<1>2. Slots = 0 .. n - 1 /\ \A s \in Slots : parent[s] \in Slots
  BY <1>1 DEF Slots
<1>3. node \in Slots /\ parent' = [parent EXCEPT ![node] = g] /\ node' = g
  BY DEF Halve, IInv, ForestTypeOK
<1>4. p \in Slots /\ g \in Slots /\ p # node
  BY <1>2, <1>3 DEF Halve, IsRoot
<1>5. Slots' = Slots /\ parent'[node] = g /\ \A s \in Slots : s # node => parent'[s] = parent[s]
  BY <1>3 DEF Slots
<1>6. \A S : CutsNoTree(S)' <=> CutsNoTree(S)
  BY HalvingKeepsTrees
<1>7. root[g] = root[node]
  BY <1>3, <1>4 DEF RootMap
<1>8. \A s \in Slots : IsRoot(s)' <=> IsRoot(s)
  <2>1. rank[node] \in Nat /\ rank[p] \in Nat /\ rank[g] \in Nat /\ rank[node] < rank[p] /\ (g # p => rank[p] < rank[g])
    BY <1>2, <1>3, <1>4 DEF IInv, ForestTypeOK, RanksRise, IsRoot, Slots
  <2>2. g # node
    BY <2>1
  <2>3. QED
    BY <1>4, <1>5, <2>2 DEF IsRoot
<1>9. \A s \in Slots : IsRoot(root[s])' /\ root[parent'[s]] = root[s] /\ (IsRoot(s)' => root[s] = s)
  BY <1>5, <1>7, <1>8 DEF RootMap
<1>10. RootMap(root)'
  BY <1>5, <1>6, <1>9 DEF RootMap
<1>11. QED
  BY <1>3, <1>4, <1>5, <1>7, <1>10

(* The slot goes to the others of its root.                                 *)
LEMMA GatheredGroups ==
  ASSUME Standing, Gathered, NEW root, RootMap(root), GroupsOf(root), slot \in Slots, root[node] = root[slot]
  PROVE  GroupsOf(root)'
<1>1. node \in Slots /\ IsRoot(node) /\ slot \in Nat /\ slot' = slot + 1 /\ parent' = parent
  BY SlotsAreNat DEF Gathered, EndFind, Standing, IInv, ForestTypeOK
<1>2. Slots' = Slots /\ root[slot] = node
  BY <1>1 DEF RootMap, Slots
<1>3. 0 .. slot' - 1 = (0 .. slot - 1) \cup {slot}
  BY <1>1
<1> DEFINE members == IF node \in DOMAIN groups THEN groups[node] ELSE <<>>
<1>4. groups' = [r \in DOMAIN groups \cup {node} |-> IF r = node THEN Append(members, slot) ELSE groups[r]]
  BY DEF Gathered
<1>5. /\ members \in Seq(Slots) /\ Range(members) = {s \in 0 .. slot - 1 : root[s] = node}
  <2>1. CASE node \in DOMAIN groups
    BY <2>1 DEF GroupsOf
  <2>2. CASE node \notin DOMAIN groups
    <3>1. members = <<>> /\ Range(members) = {} /\ members \in Seq(Slots)
      BY <2>2 DEF Range
    <3>2. {s \in 0 .. slot - 1 : root[s] = node} = {}
      BY <2>2 DEF GroupsOf
    <3>3. QED
      BY <3>1, <3>2
  <2>3. QED
    BY <2>1, <2>2
<1> HIDE DEF members
<1> DEFINE more == Append(members, slot)
<1>6. more \in Seq(Slots) /\ Range(more) = Range(members) \cup {slot}
  <2>1. /\ more \in Seq(Slots) /\ Len(more) = Len(members) + 1 /\ Len(members) \in Nat
        /\ \A i \in 1 .. Len(members) : more[i] = members[i]
        /\ more[Len(members) + 1] = slot
    BY <1>5, AppendProperties
  <2>2. Range(more) = {more[k] : k \in 1 .. Len(members) + 1} /\ Range(members) = {members[k] : k \in 1 .. Len(members)}
    <3>1. Range(more) = {more[k] : k \in 1 .. Len(more)}
      BY <2>1, RangeIs
    <3>2. Range(members) = {members[k] : k \in 1 .. Len(members)}
      BY <1>5, RangeIs
    <3> HIDE DEF more
    <3>3. QED
      BY <2>1, <3>1, <3>2
  <2> HIDE DEF more
  <2>3. \A k \in 1 .. Len(members) + 1 : k \in 1 .. Len(members) \/ k = Len(members) + 1
    BY <2>1
  <2>4. \A k \in 1 .. Len(members) : k \in 1 .. Len(members) + 1
    BY <2>1
  <2>5. Len(members) + 1 \in 1 .. Len(members) + 1
    BY <2>1
  <2>6. Range(members) \subseteq Range(more) /\ slot \in Range(more)
    BY <2>1, <2>2, <2>4, <2>5
  <2>7. \A x \in Range(more) : x \in Range(members) \/ x = slot
    BY <2>1, <2>2, <2>3
  <2>8. QED
    BY <2>1, <2>6, <2>7
<1> HIDE DEF more
<1>7. /\ DOMAIN groups' = DOMAIN groups \cup {node}
      /\ \A r \in DOMAIN groups' : groups'[r] = IF r = node THEN more ELSE groups[r]
  BY <1>4 DEF more
<1>8. DOMAIN groups' = {root[s] : s \in 0 .. slot' - 1}
  <2>1. DOMAIN groups = {root[s] : s \in 0 .. slot - 1}
    BY DEF GroupsOf
  <2>2. QED
    BY <1>2, <1>3, <1>7, <2>1
<1>9. ASSUME NEW r \in DOMAIN groups'
      PROVE  groups'[r] \in Seq(Slots) /\ Range(groups'[r]) = {s \in 0 .. slot' - 1 : root[s] = r}
  <2>1. CASE r = node
    BY <1>2, <1>3, <1>5, <1>6, <1>7, <2>1
  <2>2. CASE r # node
    <3>1. r \in DOMAIN groups /\ groups'[r] = groups[r]
      BY <1>7, <2>2
    <3>2. {s \in 0 .. slot' - 1 : root[s] = r} = {s \in 0 .. slot - 1 : root[s] = r}
      BY <1>2, <1>3, <2>2
    <3>3. QED
      BY <3>1, <3>2 DEF GroupsOf
  <2>3. QED
    BY <2>1, <2>2
<1>10. QED
  BY <1>2, <1>8, <1>9 DEF GroupsOf

\* Every step keeps what is gathered.
LEMMA GatherInvNext ==
  ASSUME Standing, ClusterNext
  PROVE  GatherInv'
<1>0. /\ JoinInv /\ IInv /\ Rooted /\ KeptFacts(Kept) /\ Len(Kept) \in Nat /\ GatherInv
      /\ stage \in {"join", "gather", "fold"} => points = Kept /\ Slots = 0 .. Len(points) - 1 /\ Len(points) \in Nat
  BY StandingFacts
<1>a. Rooted'
  BY ClusterForest
<1>1. CASE Classify
  <2>1. /\ points' = Kept /\ groups' = <<>> /\ slot' = 0
        /\ stage' = IF Kept = <<>> THEN "fold" ELSE "join"
        /\ New(Len(Kept))
    BY <1>1 DEF Classify
  <2>2. slot' \in 0 .. Len(points')
    BY <1>0, <2>1
  <2>3. node' = None
    BY <2>1 DEF New, NoWalk
  <2>4. ASSUME stage' = "fold" PROVE slot' = Len(points')
    BY <2>1, <2>4
  <2>5. PICK root : RootMap(root)'
    BY <1>a DEF Rooted
  <2>6. GroupsOf(root)'
    <3>1. DOMAIN groups' = {} /\ 0 .. slot' - 1 = {}
      BY <2>1
    <3>2. QED
      BY <3>1 DEF GroupsOf
  <2>7. stage' \in {"join", "fold"}
    BY <2>1
  <2>8. QED
    BY <2>1, <2>2, <2>3, <2>4, <2>5, <2>6, <2>7 DEF GatherInv
<1>2. CASE Join
  BY <1>0, <1>2 DEF Join, GatherInv
<1>3. CASE JoinEnd
  <2>1. stage = "join" /\ stage' = "gather" /\ NoWalk /\ UNCHANGED <<forestVars, points, slot, groups>>
    BY <1>3 DEF JoinEnd
  <2>2. PICK root : RootMap(root)'
    BY <1>a DEF Rooted
  <2>3. slot' = 0 /\ groups' = <<>> /\ slot' \in 0 .. Len(points') /\ node' = None
    BY <1>0, <2>1 DEF GatherInv, NoWalk, forestVars
  <2>4. GroupsOf(root)'
    <3>1. DOMAIN groups' = {} /\ 0 .. slot' - 1 = {}
      BY <2>3
    <3>2. QED
      BY <3>1 DEF GroupsOf
  <2>5. QED
    BY <2>1, <2>2, <2>3, <2>4 DEF GatherInv
<1>4. CASE Find
  <2>1. stage \in {"join", "gather"} /\ Walk /\ UNCHANGED <<stage, points, slot, groups>>
    BY <1>4 DEF Find, workVars
  <2>2. CASE stage = "join"
    BY <1>0, <2>1, <2>2 DEF GatherInv
  <2>3. CASE stage = "gather"
    <3>1. pair = None /\ first = None
      BY <1>0, <2>3 DEF JoinInv, IInv, ForestTypeOK
    <3>2. Halve
      BY <2>1, <3>1 DEF Walk, FoundFirst, SameTree, Link, BothFound
    <3>3. PICK root : RootMap(root) /\ GroupsOf(root) /\ (node # None => slot < Len(points) /\ root[node] = root[slot])
      BY <1>0, <2>3 DEF GatherInv
    <3>4. RootMap(root)' /\ Slots' = Slots /\ node # None /\ root[node'] = root[node]
      BY <1>0, <3>2, <3>3, HalveKeepsRoots DEF Halve
    <3>5. GroupsOf(root)'
      BY <2>1, <3>3, <3>4 DEF GroupsOf
    <3>6. slot' \in 0 .. Len(points')
      BY <1>0, <2>1, <2>3 DEF GatherInv
    <3>7. QED
      BY <2>1, <2>3, <3>3, <3>4, <3>5, <3>6 DEF GatherInv
  <2>4. QED
    BY <2>1, <2>2, <2>3
<1>5. CASE Gather
  <2>1. /\ stage = "gather" /\ slot < Len(points) /\ node' = slot /\ parent' = parent
        /\ UNCHANGED <<stage, points, slot, groups>>
    BY <1>5 DEF Gather, BeginFind, workVars
  <2>2. PICK root : RootMap(root) /\ GroupsOf(root)
    BY <1>0, <2>1 DEF GatherInv
  <2>3. RootMap(root)' /\ Slots' = Slots
    BY <2>1, <2>2, RootsKept
  <2>4. GroupsOf(root)'
    BY <2>1, <2>2, <2>3 DEF GroupsOf
  <2>5. slot' \in 0 .. Len(points')
    BY <1>0, <2>1 DEF GatherInv
  <2>6. QED
    BY <2>1, <2>3, <2>4, <2>5 DEF GatherInv
<1>6. CASE Gathered
  <2>1. /\ stage = "gather" /\ node # None /\ node' = None /\ slot' = slot + 1 /\ parent' = parent
        /\ UNCHANGED <<stage, points>>
    BY <1>6 DEF Gathered, EndFind
  <2>2. PICK root : RootMap(root) /\ GroupsOf(root) /\ (node # None => slot < Len(points) /\ root[node] = root[slot])
    BY <1>0, <2>1 DEF GatherInv
  <2>3. slot \in 0 .. Len(points) /\ slot < Len(points) /\ Len(points) \in Nat /\ slot \in Slots /\ root[node] = root[slot]
    BY <1>0, <2>1, <2>2 DEF GatherInv
  <2>4. RootMap(root)'
    BY <2>1, <2>2, RootsKept
  <2>5. GroupsOf(root)'
    BY <1>6, <2>2, <2>3, GatheredGroups
  <2>6. slot' \in 0 .. Len(points')
    BY <2>1, <2>3
  <2>7. QED
    BY <2>1, <2>4, <2>5, <2>6 DEF GatherInv
<1>7. CASE GatherEnd
  <2>1. /\ stage = "gather" /\ slot = Len(points) /\ NoWalk /\ stage' = "fold" /\ parent' = parent /\ node' = node
        /\ UNCHANGED <<points, slot, groups>>
    BY <1>7 DEF GatherEnd, forestVars
  <2>2. PICK root : RootMap(root) /\ GroupsOf(root)
    BY <1>0, <2>1 DEF GatherInv
  <2>3. RootMap(root)' /\ Slots' = Slots
    BY <2>1, <2>2, RootsKept
  <2>4. GroupsOf(root)'
    BY <2>1, <2>2, <2>3 DEF GroupsOf
  <2>5. slot' \in 0 .. Len(points') /\ node' = None
    BY <1>0, <2>1 DEF GatherInv, NoWalk
  <2>6. QED
    BY <2>1, <2>3, <2>4, <2>5 DEF GatherInv
<1>8. CASE Fold
  <2>1. stage' \in {"classify", "done"}
    BY <1>8 DEF Fold
  <2>2. QED
    BY <2>1 DEF GatherInv
<1>9. QED
  BY <1>1, <1>2, <1>3, <1>4, <1>5, <1>6, <1>7, <1>8 DEF ClusterNext

-------------------------------------------------------------------------------
\* One cluster.

(* A sum of integers is one.                                                *)
LEMMA SumTyped ==
  ASSUME NEW n \in Nat, NEW q \in [1 .. n -> Int]
  PROVE  SumOf(q) \in Int
<1> DEFINE T == [k \in 1 .. n |-> [y \in Int |-> y + q[k]]]
           Step(f) == [k \in 0 .. n |-> IF k = 0 THEN 0 ELSE f[k - 1] + q[k]]
<1>1. \A k \in 1 .. n : \A y \in Int : T[k][y] = y + q[k] /\ T[k][y] \in Int
  OBVIOUS
<1>2. PICK h : Iterates(h, n, 0, T)
  <2>1. 0 \in Int /\ \A k \in 1 .. n : \A y \in Int : T[k][y] \in Int
    BY <1>1
  <2> HIDE DEF T
  <2> QED BY <2>1, IterationExists
<1>3. h[0] = 0 /\ (\A k \in 1 .. n : h[k] = T[k][h[k - 1]]) /\ h = [k \in 0 .. n |-> h[k]]
  <2> HIDE DEF T
  <2> QED BY <1>2 DEF Iterates
<1>4. \A k \in 0 .. n : h[k] \in Int
  <2> DEFINE G == {k \in 0 .. n : h[k] \in Int}
  <2>1. 0 \in G
    BY <1>3
  <2>2. ASSUME NEW k \in 0 .. n - 1, k \in G PROVE k + 1 \in G
    <3>1. k + 1 \in 1 .. n /\ (k + 1) - 1 = k /\ k + 1 \in 0 .. n
      OBVIOUS
    <3> HIDE DEF T
    <3>2. h[k + 1] = T[k + 1][h[k]]
      BY <1>3, <3>1
    <3> QED BY <2>2, <3>1, <3>2, <1>1
  <2> HIDE DEF G
  <2>3. \A k \in 0 .. n : k \in G
    BY <2>1, <2>2, Induction
  <2> QED BY <2>3 DEF G
<1>5. ASSUME NEW k \in 0 .. n PROVE h[k] = IF k = 0 THEN 0 ELSE h[k - 1] + q[k]
  <2>1. CASE k = 0
    BY <2>1, <1>3
  <2>2. CASE k # 0
    <3>1. k \in 1 .. n /\ k - 1 \in 0 .. n
      BY <2>2
    <3>2. h[k] = T[k][h[k - 1]] /\ h[k - 1] \in Int
      BY <3>1, <1>3, <1>4
    <3>3. T[k][h[k - 1]] = h[k - 1] + q[k]
      BY <1>1, <3>1, <3>2
    <3> HIDE DEF T
    <3> QED BY <2>2, <3>2, <3>3
  <2> QED BY <2>1, <2>2
<1> HIDE DEF T
<1>6. h = Step(h)
  BY <1>3, <1>5
<1> DEFINE upto == CHOOSE f : f = Step(f)
<1>7. upto = Step(upto)
  BY <1>6
<1>8. \A k \in 0 .. n : upto[k] = IF k = 0 THEN 0 ELSE upto[k - 1] + q[k]
  <2> HIDE DEF upto
  <2> QED BY <1>7
<1>9. Len(q) = n
  OBVIOUS
<1>10. SumOf(q) = upto[n]
  BY <1>9 DEF SumOf
<1> HIDE DEF upto
<1>11. \A k \in 0 .. n : upto[k] \in Int
  <2> DEFINE G == {k \in 0 .. n : upto[k] \in Int}
  <2>1. 0 \in G
    BY <1>8
  <2>2. ASSUME NEW k \in 0 .. n - 1, k \in G PROVE k + 1 \in G
    <3>1. k + 1 \in 1 .. n /\ (k + 1) - 1 = k /\ k + 1 \in 0 .. n /\ k + 1 # 0
      OBVIOUS
    <3>2. upto[k + 1] = upto[k] + q[k + 1]
      BY <1>8, <3>1
    <3> QED BY <2>2, <3>1, <3>2
  <2> HIDE DEF G
  <2>3. \A k \in 0 .. n : k \in G
    BY <2>1, <2>2, Induction
  <2> QED BY <2>3 DEF G
<1> QED BY <1>10, <1>11

(* Of finitely many numbers one is the largest, and the first of those.     *)
LEMMA FirstLargest ==
  ASSUME NEW n \in Nat \ {0}, NEW f, \A k \in 1 .. n : f[k] \in Int
  PROVE  \E m \in 1 .. n : (\A j \in 1 .. n : f[j] <= f[m]) /\ (\A j \in 1 .. m - 1 : f[j] < f[m])
<1> DEFINE Tops(k, m) == (\A j \in 1 .. k : f[j] <= f[m]) /\ (\A j \in 1 .. m - 1 : f[j] < f[m])
           G == {k \in 0 .. n - 1 : \E m \in 1 .. k + 1 : Tops(k + 1, m)}
<1>1. 0 \in G
  <2>1. Tops(0 + 1, 1)
    OBVIOUS
  <2>2. QED
    BY <2>1
<1>2. ASSUME NEW k \in 0 .. (n - 1) - 1, k \in G PROVE k + 1 \in G
  <2>1. PICK m \in 1 .. k + 1 : Tops(k + 1, m)
    BY <1>2
  <2>2. m \in 1 .. n /\ k + 2 \in 1 .. n /\ f[m] \in Int /\ f[k + 2] \in Int /\ (k + 1) + 1 = k + 2
    OBVIOUS
  <2>3. \A j \in 1 .. k + 2 : j \in 1 .. k + 1 \/ j = k + 2
    OBVIOUS
  <2>4. CASE f[k + 2] <= f[m]
    <3>1. Tops(k + 2, m)
      BY <2>1, <2>2, <2>3, <2>4
    <3>2. m \in 1 .. (k + 1) + 1 /\ k + 1 \in 0 .. n - 1
      OBVIOUS
    <3>3. QED
      BY <2>2, <3>1, <3>2
  <2>5. CASE f[m] < f[k + 2]
    <3>1. \A j \in 1 .. k + 1 : f[j] \in Int /\ f[j] <= f[m] /\ f[j] < f[k + 2]
      BY <2>1, <2>2, <2>5
    <3>2. Tops(k + 2, k + 2)
      <4>1. (k + 2) - 1 = k + 1
        OBVIOUS
      <4>2. QED
        BY <2>2, <2>3, <3>1, <4>1
    <3>3. k + 2 \in 1 .. (k + 1) + 1 /\ k + 1 \in 0 .. n - 1
      OBVIOUS
    <3>4. QED
      BY <2>2, <3>2, <3>3
  <2>6. QED
    BY <2>2, <2>4, <2>5
<1> HIDE DEF G
<1>3. \A k \in 0 .. n - 1 : k \in G
  BY <1>1, <1>2, Induction
<1>4. n - 1 \in G /\ (n - 1) + 1 = n
  BY <1>3
<1>5. QED
  BY <1>4 DEF G

\* A depth is a natural.
LEMMA DepthTyped ==
  ASSUME InputOK, NEW i \in DOMAIN Items
  PROVE  Depth(i) \in Int /\ Depth(i) >= 0
<1>1. CASE of = "samples"
  <2>1. field.samples \in Seq(Sample) /\ i \in DOMAIN field.samples
    BY <1>1 DEF InputOK, IsField, Items
  <2>2. field.samples[i] \in Sample
    BY <2>1
  <2>4. field.samples[i].signed \in Int
    BY <2>2 DEF Sample
  <2>3. QED
    BY <1>1, <2>4 DEF Depth, Abs
<1>2. CASE of # "samples"
  BY <1>2 DEF Depth
<1>3. QED
  BY <1>1, <1>2

(* The deepest member is one of them, and none is deeper.                   *)
LEMMA DeepestIs ==
  ASSUME InputOK, NEW n \in Nat \ {0}, NEW members \in [1 .. n -> DOMAIN Items]
  PROVE  /\ Deepest(members) \in 1 .. n
         /\ \A j \in 1 .. n : Depth(members[j]) <= Depth(members[Deepest(members)])
         /\ \A j \in 1 .. Deepest(members) - 1 : Depth(members[j]) < Depth(members[Deepest(members)])
<1> DEFINE f == [k \in 1 .. n |-> Depth(members[k])]
<1>1. \A k \in 1 .. n : f[k] = Depth(members[k]) /\ f[k] \in Int
  BY DepthTyped
<1> HIDE DEF f
<1>2. PICK m \in 1 .. n : (\A j \in 1 .. n : f[j] <= f[m]) /\ (\A j \in 1 .. m - 1 : f[j] < f[m])
  BY <1>1, FirstLargest
<1>3. \A j \in 1 .. m - 1 : j \in 1 .. n
  OBVIOUS
<1>4. DOMAIN members = 1 .. n
  OBVIOUS
<1>5. \E k \in DOMAIN members : /\ \A j \in DOMAIN members : Depth(members[j]) <= Depth(members[k])
                                /\ \A j \in 1 .. k - 1 : Depth(members[j]) < Depth(members[k])
  BY <1>1, <1>2, <1>3, <1>4
<1>6. QED
  BY <1>4, <1>5 DEF Deepest

\* What is known of a cluster that is kept or sorted.
ClusterTyped(c) ==
  /\ c.class \in Classes /\ c.worst \in Int /\ c.at[1] \in Int /\ c.at[2] \in Int
  /\ c.members \in Seq(Nat) /\ c.members # <<>>

(* A cluster is made of the slots of a tree and of no others.               *)
LEMMA ClusterOf ==
  ASSUME InputOK, KeptFacts(points), NEW q \in Seq(0 .. Len(points) - 1), q # <<>>
  PROVE  /\ ClusterTyped(Cluster(q))
         /\ Cluster(q).class = points[q[1] + 1].class
         /\ Len(Cluster(q).members) = Len(q)
         /\ \A k \in 1 .. Len(q) : Cluster(q).members[k] = points[q[k] + 1].of
         /\ Range(Cluster(q).members) = {points[s + 1].of : s \in Range(q)}
<1> DEFINE n == Len(q)
           members == [k \in DOMAIN q |-> points[q[k] + 1].of]
           places == [k \in DOMAIN q |-> points[q[k] + 1].at]
           at == <<SumOf([k \in DOMAIN places |-> places[k][1]]), SumOf([k \in DOMAIN places |-> places[k][2]])>>
<1>1. n \in Nat \ {0} /\ DOMAIN q = 1 .. n /\ \A k \in 1 .. n : q[k] \in 0 .. Len(points) - 1
  OBVIOUS
<1>2. Len(points) \in Nat
  BY UnionFindAssumption DEF KeptFacts
<1>3. \A k \in 1 .. n : q[k] + 1 \in 1 .. Len(points)
  BY <1>1, <1>2
<1>4. Chosen \subseteq DOMAIN Items /\ Chosen \subseteq Nat
  BY ItemsTyped DEF Chosen
<1>5. \A k \in 1 .. n : /\ members[k] \in Chosen /\ places[k] \in Point
                        /\ points[q[k] + 1].class \in Classes
  BY <1>1, <1>3 DEF KeptFacts
<1>6. members \in [1 .. n -> DOMAIN Items] /\ members \in Seq(Nat) /\ Len(members) = n /\ members # <<>>
  BY <1>1, <1>4, <1>5
<1>7. at[1] \in Int /\ at[2] \in Int
  <2>1. ASSUME NEW d \in 1 .. 2 PROVE SumOf([k \in DOMAIN places |-> places[k][d]]) \in Int
    <3>1. PICK f : f = [k \in DOMAIN places |-> places[k][d]]
      OBVIOUS
    <3>2. f \in [1 .. n -> Int]
      BY <1>1, <1>5, <3>1 DEF Point
    <3> HIDE DEF places, n
    <3>3. SumOf(f) \in Int
      BY <1>1, <3>2, SumTyped
    <3>4. QED
      BY <3>1, <3>3
  <2> HIDE DEF places
  <2>2. QED
    BY <2>1
<1>8. Deepest(members) \in 1 .. n
  BY <1>1, <1>6, DeepestIs
<1>9. Depth(members[Deepest(members)]) \in Int
  BY <1>6, <1>8, DepthTyped
<1>10. /\ Cluster(q).class = points[q[1] + 1].class /\ Cluster(q).members = members
       /\ Cluster(q).worst = Depth(members[Deepest(members)]) /\ Cluster(q).at = at
  BY DEF Cluster
<1>11. Range(members) = {points[s + 1].of : s \in Range(q)}
  <2>1. Range(members) = {members[k] : k \in 1 .. n} /\ Range(q) = {q[k] : k \in 1 .. n}
    BY <1>1 DEF Range
  <2>2. \A k \in 1 .. n : members[k] = points[q[k] + 1].of
    BY <1>1
  <2> HIDE DEF members, n
  <2>3. \A x \in Range(members) : \E s \in Range(q) : x = points[s + 1].of
    BY <2>1, <2>2
  <2>4. \A s \in Range(q) : points[s + 1].of \in Range(members)
    BY <2>1, <2>2
  <2>5. QED
    BY <2>3, <2>4
<1>12. points[q[1] + 1].class \in Classes
  BY <1>1, <1>5
<1>13. \A k \in 1 .. n : members[k] = points[q[k] + 1].of
  BY <1>1
<1> HIDE DEF members, at, places
<1>14. QED
  BY <1>6, <1>7, <1>9, <1>10, <1>11, <1>12, <1>13 DEF ClusterTyped

-------------------------------------------------------------------------------
\* What a cluster says of its members.

(* Every step-th of n, beginning with the first, and no further than n; of    *)
(* no more than PROBES - 1 each one.                                          *)
LEMMA Strides ==
  ASSUME NEW n \in Nat \ {0}
  PROVE  LET step == (n + PROBES - 2) \div (PROBES - 1)
             m == (n + step - 1) \div step
         IN  /\ step \in Nat \ {0} /\ m \in Nat
             /\ \A k \in 1 .. m : (k - 1) * step + 1 \in 1 .. n
             /\ n <= PROBES - 1 => m = n /\ \A k \in 1 .. n : (k - 1) * step + 1 = k
<1> DEFINE step == (n + PROBES - 2) \div (PROBES - 1)
           m == (n + step - 1) \div step
<1>1. PICK p \in Nat \ {0} : p = PROBES - 1
  BY ClusteringAssumption
<1>2. step = (n + p - 1) \div p
  <2>1. n + PROBES - 2 = n + p - 1
    BY <1>1, ClusteringAssumption
  <2>2. QED
    BY <1>1, <2>1
<1>3. step \in Int /\ p * step <= n + p - 1 /\ n + p - 1 < p * step + p
  <2>1. n + p - 1 \in Int
    OBVIOUS
  <2>2. QED
    BY <1>2, <2>1, DivBounds
<1>4. step \in Nat \ {0}
  <2>1. SUFFICES ASSUME step <= 0 PROVE FALSE
    BY <1>3
  <2>2. p * step <= 0
    <3>1. \A a \in Nat, b \in Int : b <= 0 => a * b <= 0
      BY Z3
    <3>2. QED
      BY <1>3, <2>1, <3>1
  <2>3. p * step \in Int
    BY <1>3
  <2>4. QED
    BY <1>3, <2>2, <2>3
<1> HIDE DEF step
<1>5. m \in Int /\ step * m <= n + step - 1 /\ n + step - 1 < step * m + step
  <2>1. n + step - 1 \in Int
    BY <1>4
  <2>2. QED
    BY <1>4, <2>1, DivBounds
<1>6. m \in Nat
  <2>1. SUFFICES ASSUME m < 0 PROVE FALSE
    BY <1>5
  <2>2. \A a \in Nat, b \in Int : b < 0 => a * b + a <= 0
    BY Z3
  <2>3. step * m \in Int
    BY <1>4, <1>5
  <2>4. QED
    BY <1>4, <1>5, <2>1, <2>2, <2>3
<1> HIDE DEF m
<1>7. ASSUME NEW k \in 1 .. m PROVE (k - 1) * step + 1 \in 1 .. n
  <2>1. \A a \in Nat, b, c \in Int : b <= c => a * b <= a * c
    BY Z3
  <2>2. step * k <= step * m /\ step * k \in Int /\ step * m \in Int /\ k \in Int /\ k - 1 \in Nat
    BY <1>4, <1>6, <2>1
  <2>3. (k - 1) * step = step * k - step
    <3>1. \A a, b \in Int : (b - 1) * a = a * b - a
      BY Z3
    <3>2. QED
      BY <1>4, <2>2, <3>1
  <2>4. (k - 1) * step \in Nat
    BY <1>4, <2>2
  <2>5. QED
    BY <1>4, <1>5, <2>2, <2>3, <2>4
<1>8. ASSUME n <= PROBES - 1 PROVE m = n /\ \A k \in 1 .. n : (k - 1) * step + 1 = k
  <2>1. n <= p
    BY <1>1, <1>8
  <2>2. step = 1
    <3>1. SUFFICES ASSUME step >= 2 PROVE FALSE
      BY <1>4
    <3>2. \A a \in Nat, b \in Int : b >= 2 => a * b >= a + a
      BY Z3
    <3>3. p * step >= p + p /\ p * step \in Int
      BY <1>4, <3>1, <3>2
    <3>4. QED
      BY <1>3, <2>1, <3>3
  <2>3. m = n
    BY <1>5, <2>2
  <2>4. QED
    BY <2>2, <2>3
<1>9. QED
  BY <1>4, <1>6, <1>7, <1>8 DEF step, m

(* The smaller of two numbers.                                               *)
LEMMA SmallerOf ==
  ASSUME NEW a \in Int, NEW b \in Int
  PROVE  Smallest({a, b}) = IF a <= b THEN a ELSE b
<1> DEFINE m == IF a <= b THEN a ELSE b
<1>1. m \in {a, b} /\ \A k \in {a, b} : m <= k
  OBVIOUS
<1>2. \A x \in {a, b} : (\A k \in {a, b} : x <= k) => x = m
  OBVIOUS
<1> HIDE DEF m
<1>3. Smallest({a, b}) \in {a, b} /\ \A k \in {a, b} : Smallest({a, b}) <= k
  BY <1>1 DEF Smallest
<1>4. QED
  BY <1>2, <1>3 DEF m

\* The first of every value of all.
Firsts(all, n) == {k \in 1 .. n : \A j \in 1 .. k - 1 : all[j] # all[k]}

\* c positions in the order they are met: the first of all first, no value
\* twice, and every value.
EachOnce(all, n, c, order) ==
  /\ c \in Nat \ {0} /\ order \in [1 .. c -> 1 .. n] /\ order[1] = 1
  /\ \A i, j \in 1 .. c : all[order[i]] = all[order[j]] => i = j
  /\ \A k \in 1 .. n : \E i \in 1 .. c : all[order[i]] = all[k]

(* The first positions of the values, in order, are such a list.             *)
LEMMA FirstsInOrder ==
  ASSUME NEW n \in Nat \ {0}, NEW all, DOMAIN all = 1 .. n, NEW c, NEW order,
         c = Cardinality(Firsts(all, n)), order = InOrder(Firsts(all, n), [k \in 1 .. n |-> <<k>>])
  PROVE  EachOnce(all, n, c, order)
<1>0. PICK key : key = [k \in 1 .. n |-> <<k>>]
  OBVIOUS
<1>1. PICK F : F = Firsts(all, n)
  OBVIOUS
<1>2. F \subseteq 1 .. n /\ 1 \in F /\ IsFiniteSet(F)
  <2>1. F \subseteq 1 .. n /\ 1 \in F
    BY <1>1 DEF Firsts
  <2>2. IsFiniteSet(1 .. n)
    BY FS_Interval
  <2>3. QED
    BY <2>1, <2>2, FS_Subset
<1>3. \A k \in 1 .. n : key[k] = <<k>>
  BY <1>0
<1>4. Keyed(F, key, 1)
  <2>1. ASSUME NEW k \in F PROVE key[k] \in Seq(Int) /\ Len(key[k]) = 1
    <3>1. k \in Int /\ key[k] = <<k>>
      BY <1>2, <1>3
    <3>2. QED
      BY <3>1
  <2>2. \A x, y \in F : key[x] = key[y] => x = y
    <3>1. \A x, y \in F : key[x] = <<x>> /\ key[y] = <<y>>
      BY <1>2, <1>3
    <3>2. \A x, y : <<x>> = <<y>> => x = y
      OBVIOUS
    <3>3. QED
      BY <3>1, <3>2
  <2>3. QED
    BY <2>1, <2>2 DEF Keyed
<1>5. /\ c \in Nat /\ order \in [1 .. c -> F]
      /\ \A x \in F : \E i \in 1 .. c : order[i] = x
      /\ \A i, j \in 1 .. c : i < j => Lexicographic(key[order[i]], key[order[j]])
  <2>1. c = Cardinality(F) /\ order = InOrder(F, key)
    BY <1>0, <1>1
  <2>2. /\ Cardinality(F) \in Nat /\ InOrder(F, key) \in [1 .. Cardinality(F) -> F]
        /\ \A x \in F : \E i \in 1 .. Cardinality(F) : InOrder(F, key)[i] = x
        /\ \A i, j \in 1 .. Cardinality(F) :
             i < j => Lexicographic(key[InOrder(F, key)[i]], key[InOrder(F, key)[j]])
    BY <1>2, <1>4, InOrderProperties
  <2>3. QED
    BY <2>1, <2>2
<1>6. \A i, j \in 1 .. c : i < j => order[i] < order[j]
  <2>1. ASSUME NEW i \in 1 .. c, NEW j \in 1 .. c, i < j PROVE order[i] < order[j]
    <3>1. PICK a \in 1 .. n, b \in 1 .. n : a = order[i] /\ b = order[j]
      BY <1>2, <1>5
    <3>2. Lexicographic(<<a>>, <<b>>)
      <4>1. key[a] = <<a>> /\ key[b] = <<b>>
        BY <1>3
      <4>2. Lexicographic(key[order[i]], key[order[j]])
        BY <1>5, <2>1
      <4>3. QED
        BY <3>1, <4>1, <4>2
    <3>3. a < b
      BY <3>2 DEF Lexicographic
    <3>4. QED
      BY <3>1, <3>3
  <2>2. QED
    BY <2>1
<1>7. order \in [1 .. c -> 1 .. n] /\ c # 0
  <2>1. PICK i \in 1 .. c : order[i] = 1
    BY <1>2, <1>5
  <2>2. c # 0
    BY <1>5
  <2>3. QED
    BY <1>2, <1>5, <2>2
<1>8. order[1] = 1
  <2>1. PICK i \in 1 .. c : order[i] = 1
    BY <1>2, <1>5
  <2>2. CASE i = 1
    BY <2>1, <2>2
  <2>3. CASE i # 1
    <3>1. 1 \in 1 .. c /\ 1 < i
      BY <1>5, <2>3
    <3>2. order[1] < 1 /\ order[1] \in 1 .. n
      BY <1>6, <1>7, <2>1, <3>1
    <3>3. QED
      BY <3>2
  <2>4. QED
    BY <2>2, <2>3
<1>9. \A i, j \in 1 .. c : i < j => all[order[i]] # all[order[j]]
  <2>1. ASSUME NEW i \in 1 .. c, NEW j \in 1 .. c, i < j PROVE all[order[i]] # all[order[j]]
    <3>1. order[i] \in 1 .. order[j] - 1 /\ order[j] \in F
      <4>1. PICK a \in 1 .. n : a = order[i]
        BY <1>7
      <4>2. PICK b \in 1 .. n : b = order[j] /\ b \in F
        BY <1>5, <1>7
      <4>3. a < b
        BY <1>6, <2>1, <4>1, <4>2
      <4>4. QED
        BY <4>1, <4>2, <4>3
    <3>2. QED
      BY <1>1, <3>1 DEF Firsts
  <2>2. QED
    BY <2>1
<1>10. \A i, j \in 1 .. c : all[order[i]] = all[order[j]] => i = j
  <2>1. \A i, j \in 1 .. c : i < j \/ i = j \/ j < i
    BY <1>5
  <2>2. QED
    BY <1>9, <2>1
<1>11. ASSUME NEW k \in 1 .. n PROVE \E i \in 1 .. c : all[order[i]] = all[k]
  <2> DEFINE same == {j \in 1 .. n : all[j] = all[k]}
  <2>1. same \in SUBSET Nat /\ k \in same
    OBVIOUS
  <2>2. PICK f \in same : \A j \in same : f <= j
    BY <2>1, NatMin
  <2>3. f \in 1 .. n /\ all[f] = all[k] /\ \A j \in 1 .. f - 1 : all[j] # all[f]
    <3>1. f \in 1 .. n /\ all[f] = all[k]
      BY <2>2
    <3>2. ASSUME NEW j \in 1 .. f - 1, all[j] = all[f] PROVE FALSE
      <4>1. j \in same /\ ~(f <= j)
        BY <3>1, <3>2
      <4>2. QED
        BY <2>2, <4>1
    <3>3. QED
      BY <3>1, <3>2
  <2> HIDE DEF same
  <2>4. f \in F
    BY <1>1, <2>3 DEF Firsts
  <2>5. PICK i \in 1 .. c : order[i] = f
    BY <1>5, <2>4
  <2>6. QED
    BY <2>3, <2>5
<1>12. QED
  BY <1>5, <1>7, <1>8, <1>10, <1>11 DEF EachOnce

(* There are no more of them than places the values are in.                  *)
LEMMA NoMoreThanPlaces ==
  ASSUME NEW n \in Nat \ {0}, NEW all, NEW c, NEW order, EachOnce(all, n, c, order),
         NEW A, IsFiniteSet(A), \A k \in 1 .. n : all[k] \in A
  PROVE  c <= Cardinality(A)
<1> DEFINE g == [i \in 1 .. c |-> all[order[i]]]
<1>1. c \in Nat /\ \A i \in 1 .. c : order[i] \in 1 .. n
  BY DEF EachOnce
<1>2. \A i \in 1 .. c : g[i] = all[order[i]] /\ g[i] \in A
  BY <1>1
<1>3. g \in [1 .. c -> A]
  BY <1>2
<1> HIDE DEF g
<1>4. g \in Injection(1 .. c, A)
  <2>1. \A i, j \in 1 .. c : g[i] = g[j] => i = j
    BY <1>2 DEF EachOnce
  <2>2. QED
    BY <1>3, <2>1 DEF Injection, IsInjective
<1>5. Cardinality(1 .. c) = c
  BY <1>1, FS_Interval
<1>6. QED
  BY <1>4, <1>5, FS_Injection

\* The places of the members of a cluster.
PlacesOf(members) == {field.samples[m].at : m \in Range(members)}

\* What is said of the places handed to attribution.
ProbesFine(probes, members, w) ==
  /\ probes[1] = w /\ Range(probes) \subseteq PlacesOf(members) /\ IsInjective(probes)
  /\ Cardinality(PlacesOf(members)) <= PROBES - 1 /\ Len(members) <= PROBES - 1
       => Range(probes) = PlacesOf(members)

(* The probes of a cluster begin with the place of its deepest member, are    *)
(* places of its members and name none twice; of few, they are all.           *)
LEMMA ProbesSpeak ==
  ASSUME NEW n \in Nat \ {0}, NEW members, members \in Seq(DOMAIN field.samples), Len(members) = n,
         NEW D \in 1 .. n
  PROVE  ProbesFine(probe_points(members, field.samples[members[D]].at), members, field.samples[members[D]].at)
<1>1. PICK at : at = [k \in 1 .. n |-> field.samples[members[k]].at]
  OBVIOUS
<1>2. PICK places : places = PlacesOf(members)
  OBVIOUS
<1>3. at \in [1 .. n -> places] /\ \A p \in places : \E k \in 1 .. n : at[k] = p
  <2>1. Range(members) = {members[k] : k \in 1 .. n}
    BY DEF Range
  <2>2. \A k \in 1 .. n : at[k] = field.samples[members[k]].at
    BY <1>1
  <2>3. \A k \in 1 .. n : at[k] \in places
    BY <1>2, <2>1, <2>2 DEF PlacesOf
  <2>4. \A p \in places : \E k \in 1 .. n : at[k] = p
    BY <1>2, <2>1, <2>2 DEF PlacesOf
  <2>5. QED
    BY <1>1, <2>3, <2>4
<1>4. PICK w : w = at[D]
  OBVIOUS
<1>5. w = field.samples[members[D]].at /\ w \in places
  BY <1>1, <1>3, <1>4
<1>6. IsFiniteSet(places)
  <2>1. at \in Surjection(1 .. n, places)
    BY <1>3 DEF Surjection
  <2>2. IsFiniteSet(1 .. n)
    BY FS_Interval
  <2>3. QED
    BY <2>1, <2>2, FS_Surjection
<1>7. PICK step : step = (n + PROBES - 2) \div (PROBES - 1)
  OBVIOUS
<1>8. PICK m : m = (n + step - 1) \div step
  OBVIOUS
<1>9. /\ step \in Nat \ {0} /\ m \in Nat
      /\ \A k \in 1 .. m : (k - 1) * step + 1 \in 1 .. n
      /\ n <= PROBES - 1 => m = n /\ \A k \in 1 .. n : (k - 1) * step + 1 = k
  BY <1>7, <1>8, Strides
<1>10. PICK stepped : stepped = [k \in 1 .. m |-> field.samples[members[(k - 1) * step + 1]].at]
  OBVIOUS
<1>11. stepped \in Seq(places) /\ Len(stepped) = m /\ \A k \in 1 .. m : stepped[k] = at[(k - 1) * step + 1]
  <2>1. \A k \in 1 .. m : stepped[k] = field.samples[members[(k - 1) * step + 1]].at
    BY <1>10
  <2>2. \A j \in 1 .. n : at[j] = field.samples[members[j]].at /\ at[j] \in places
    BY <1>1, <1>3
  <2>3. \A k \in 1 .. m : stepped[k] = at[(k - 1) * step + 1] /\ stepped[k] \in places
    BY <1>9, <2>1, <2>2
  <2>4. stepped \in [1 .. m -> places]
    BY <1>10, <2>3
  <2>5. QED
    BY <1>9, <2>3, <2>4
<1>12. PICK all : all = <<w>> \o (IF n > 1 THEN stepped ELSE <<>>)
  OBVIOUS
<1>13. PICK N \in Nat \ {0} : N = IF n > 1 THEN m + 1 ELSE 1
  BY <1>9
<1>14. /\ DOMAIN all = 1 .. N /\ all[1] = w /\ \A k \in 1 .. N : all[k] \in places
       /\ n > 1 => \A k \in 1 .. m : k + 1 \in 1 .. N /\ all[k + 1] = stepped[k]
  <2>1. CASE n > 1
    <3>1. all = <<w>> \o stepped /\ N = m + 1 /\ <<w>> \in Seq(places) /\ Len(<<w>>) = 1
      BY <1>5, <1>12, <1>13, <2>1
    <3>2. all \in Seq(places) /\ Len(all) = N /\ all[1] = w /\ \A k \in 1 .. m : all[k + 1] = stepped[k]
      BY <1>9, <1>11, <3>1
    <3>3. QED
      BY <1>9, <3>1, <3>2
  <2>2. CASE n = 1
    <3>1. all = <<w>> /\ N = 1
      BY <1>12, <1>13, <2>2
    <3>2. QED
      BY <1>5, <2>2, <3>1
  <2>3. QED
    BY <2>1, <2>2
<1>15. PICK firsts : firsts = InOrder(Firsts(all, N), [k \in 1 .. N |-> <<k>>])
  OBVIOUS
<1>16. PICK c : c = Cardinality(Firsts(all, N))
  OBVIOUS
<1>17. /\ c \in Nat \ {0} /\ firsts \in [1 .. c -> 1 .. N] /\ firsts[1] = 1
       /\ \A i, j \in 1 .. c : all[firsts[i]] = all[firsts[j]] => i = j
       /\ \A k \in 1 .. N : \E i \in 1 .. c : all[firsts[i]] = all[k]
       /\ c <= Cardinality(places)
  <2>1. EachOnce(all, N, c, firsts)
    BY <1>14, <1>15, <1>16, FirstsInOrder
  <2>2. c <= Cardinality(places)
    BY <1>6, <1>14, <2>1, NoMoreThanPlaces
  <2>3. QED
    BY <2>1, <2>2 DEF EachOnce
<1>18. PICK probes : probes = probe_points(members, w)
  OBVIOUS
<1>19. PICK L : L = IF c <= PROBES THEN c ELSE PROBES
  OBVIOUS
<1>20. L \in 1 .. c /\ L = Smallest({c, PROBES}) /\ PROBES \in Nat
  <2>1. PROBES \in Nat \ {0, 1}
    BY ClusteringAssumption
  <2>2. PICK b \in Nat \ {0, 1} : b = PROBES
    BY <2>1
  <2>3. Smallest({c, b}) = IF c <= b THEN c ELSE b
    BY <1>17, SmallerOf
  <2>4. L \in 1 .. c
    BY <1>17, <1>19, <2>2
  <2>5. QED
    BY <1>19, <2>2, <2>3, <2>4
<1>21. probes = [k \in 1 .. L |-> all[firsts[k]]]
  <2>1. Len(firsts) = c
    BY <1>17
  <2>2. {k \in DOMAIN all : \A j \in 1 .. k - 1 : all[j] # all[k]} = Firsts(all, N)
    BY <1>14 DEF Firsts
  <2>3. InOrder({k \in DOMAIN all : \A j \in 1 .. k - 1 : all[j] # all[k]}, [k \in DOMAIN all |-> <<k>>]) = firsts
    BY <1>14, <1>15, <2>2
  <2>4. probe_points(members, w) = [k \in 1 .. Smallest({Len(firsts), PROBES}) |-> all[firsts[k]]]
    <3> DEFINE n0 == Len(members)
               step0 == (n0 + PROBES - 2) \div (PROBES - 1)
               stepped0 == [k \in 1 .. (n0 + step0 - 1) \div step0 |-> field.samples[members[(k - 1) * step0 + 1]].at]
               all0 == <<w>> \o IF n0 > 1 THEN stepped0 ELSE <<>>
               firsts0 == InOrder({k \in DOMAIN all0 : \A j \in 1 .. k - 1 : all0[j] # all0[k]},
                                  [k \in DOMAIN all0 |-> <<k>>])
    <3>1. probe_points(members, w) = [k \in 1 .. Smallest({Len(firsts0), PROBES}) |-> all0[firsts0[k]]]
      BY DEF probe_points
    <3>2. n0 = n
      OBVIOUS
    <3> HIDE DEF n0
    <3>3. step0 = step
      BY <1>7, <3>2
    <3> HIDE DEF step0
    <3>4. stepped0 = stepped
      BY <1>10, <1>8, <3>2, <3>3
    <3> HIDE DEF stepped0
    <3>5. all0 = all
      BY <1>12, <3>2, <3>4
    <3> HIDE DEF all0
    <3>6. firsts0 = firsts
      BY <2>3, <3>5
    <3> HIDE DEF firsts0
    <3>7. QED
      BY <3>1, <3>5, <3>6
  <2>5. QED
    BY <1>18, <1>20, <2>1, <2>4
<1>22. DOMAIN probes = 1 .. L /\ \A i \in 1 .. L : i \in 1 .. c /\ probes[i] = all[firsts[i]] /\ firsts[i] \in 1 .. N
  <2>1. \A i \in 1 .. L : i \in 1 .. c
    BY <1>17, <1>20
  <2>2. \A i \in 1 .. L : firsts[i] \in 1 .. N
    BY <1>17, <2>1
  <2>3. QED
    BY <1>21, <2>1, <2>2
<1>23. probes[1] = w
  <2>1. 1 \in 1 .. L
    BY <1>20
  <2>2. QED
    BY <1>14, <1>17, <1>22, <2>1
<1>24. Range(probes) = {probes[i] : i \in 1 .. L}
  BY <1>22 DEF Range
<1>25. Range(probes) \subseteq places
  BY <1>14, <1>22, <1>24
<1>26. IsInjective(probes)
  <2>1. \A i, j \in 1 .. L : i \in 1 .. c /\ j \in 1 .. c /\ probes[i] = all[firsts[i]] /\ probes[j] = all[firsts[j]]
    BY <1>22
  <2>2. ASSUME NEW i \in 1 .. L, NEW j \in 1 .. L, probes[i] = probes[j] PROVE i = j
    <3>1. i \in 1 .. c /\ j \in 1 .. c /\ all[firsts[i]] = all[firsts[j]]
      BY <2>1, <2>2
    <3>2. \A k, l \in 1 .. c : all[firsts[k]] = all[firsts[l]] => k = l
      BY <1>17
    <3> QED
      BY <3>1, <3>2
  <2>3. QED
    BY <1>22, <2>2 DEF IsInjective
<1>27. ASSUME Cardinality(places) <= PROBES - 1, n <= PROBES - 1 PROVE Range(probes) = places
  <2>1. c <= Cardinality(places) /\ Cardinality(places) \in Nat
    BY <1>6, <1>17, FS_CardinalityType
  <2>2. L = c
    BY <1>17, <1>19, <1>20, <1>27, <2>1
  <2>3. ASSUME NEW p \in places PROVE \E k \in 1 .. N : all[k] = p
    <3>1. PICK k \in 1 .. n : at[k] = p
      BY <1>3
    <3>2. CASE n > 1
      <4>1. k \in 1 .. m /\ (k - 1) * step + 1 = k
        BY <1>9, <1>27
      <4>2. all[k + 1] = p /\ k + 1 \in 1 .. N
        BY <1>11, <1>14, <3>1, <3>2, <4>1
      <4>3. QED
        BY <4>2
    <3>3. CASE n = 1
      <4>1. k = D
        BY <3>3
      <4>2. all[1] = p /\ 1 \in 1 .. N
        BY <1>4, <1>14, <3>1, <4>1
      <4>3. QED
        BY <4>2
    <3>4. QED
      BY <3>2, <3>3
  <2>4. ASSUME NEW p \in places PROVE p \in Range(probes)
    <3>1. PICK k \in 1 .. N : all[k] = p
      BY <2>3
    <3>2. PICK i \in 1 .. c : all[firsts[i]] = all[k]
      BY <1>17
    <3>3. probes[i] = p /\ i \in 1 .. L
      BY <1>22, <2>2, <3>1, <3>2
    <3>4. QED
      BY <1>24, <3>3
  <2>5. QED
    BY <1>25, <2>4
<1>28. ProbesFine(probes, members, w)
  BY <1>2, <1>23, <1>25, <1>26, <1>27 DEF ProbesFine
<1>29. QED
  BY <1>5, <1>18, <1>28

(* The ends of finitely many numbers are among them, and bound them.         *)
LEMMA Extremes ==
  ASSUME NEW n \in Nat \ {0}, NEW f \in [1 .. n -> Int], NEW S, S = {f[k] : k \in 1 .. n}
  PROVE  /\ Smallest(S) \in S /\ Largest(S) \in S
         /\ \A x \in S : Smallest(S) <= x /\ x <= Largest(S)
<1>1. \A k \in 1 .. n : f[k] \in Int /\ f[k] \in S
  OBVIOUS
<1>2. PICK h \in 1 .. n : \A j \in 1 .. n : f[j] <= f[h]
  BY <1>1, FirstLargest
<1>3. PICK g : g = [k \in 1 .. n |-> -f[k]]
  OBVIOUS
<1>4. \A k \in 1 .. n : g[k] = -f[k] /\ g[k] \in Int
  BY <1>1, <1>3
<1>5. PICK l \in 1 .. n : \A j \in 1 .. n : g[j] <= g[l]
  BY <1>4, FirstLargest
<1>6. \A j \in 1 .. n : f[l] <= f[j]
  BY <1>1, <1>4, <1>5
<1>7. f[h] \in S /\ \A x \in S : x <= f[h]
  BY <1>1, <1>2
<1>8. f[l] \in S /\ \A x \in S : f[l] <= x
  BY <1>1, <1>6
<1>9. Largest(S) \in S /\ \A x \in S : x <= Largest(S)
  BY <1>7 DEF Largest
<1>10. Smallest(S) \in S /\ \A x \in S : Smallest(S) <= x
  BY <1>8 DEF Smallest
<1>11. QED
  BY <1>9, <1>10

(* A cluster of samples speaks for all its members.                          *)
LEMMA ClusterSpeaks ==
  ASSUME InputOK, of = "samples", KeptFacts(points), NEW q \in Seq(0 .. Len(points) - 1), q # <<>>
  PROVE  SpeaksFor(Cluster(q))
<1>1. PICK n \in Nat \ {0} : n = Len(q) /\ DOMAIN q = 1 .. n
  OBVIOUS
<1>2. PICK c : c = Cluster(q)
  OBVIOUS
<1>3. PICK members : members = [k \in DOMAIN q |-> points[q[k] + 1].of]
  OBVIOUS
<1>4. PICK places : places = [k \in DOMAIN q |-> points[q[k] + 1].at]
  OBVIOUS
<1>5. PICK D : D = Deepest(members)
  OBVIOUS
<1>6. /\ c.members = members /\ c.worst = Depth(members[D]) /\ c.worst_at = places[D]
      /\ c.probes = probe_points(members, places[D])
      /\ c.bounds = << <<Smallest({p[1] : p \in Range(places)}), Smallest({p[2] : p \in Range(places)})>>,
                       <<Largest({p[1] : p \in Range(places)}), Largest({p[2] : p \in Range(places)})>> >>
  BY <1>2, <1>3, <1>4, <1>5 DEF Cluster
<1>7. Items = field.samples /\ \A i : Depth(i) = Abs(field.samples[i].signed)
  BY DEF Items, Depth
<1>8. \A k \in 1 .. n : q[k] + 1 \in 1 .. Len(points)
  <2>1. Len(points) \in Nat
    BY UnionFindAssumption DEF KeptFacts
  <2>2. \A k \in 1 .. n : q[k] \in 0 .. Len(points) - 1
    BY <1>1
  <2>3. QED
    BY <2>1, <2>2
<1>9. \A k \in 1 .. n : /\ members[k] \in DOMAIN field.samples /\ places[k] \in Point
                        /\ places[k] = field.samples[members[k]].at
  <2>1. \A k \in 1 .. n : members[k] = points[q[k] + 1].of /\ places[k] = points[q[k] + 1].at
    BY <1>1, <1>3, <1>4
  <2>2. Chosen \subseteq DOMAIN field.samples
    BY <1>7 DEF Chosen
  <2>3. \A j \in 1 .. Len(points) : /\ points[j].of \in Chosen /\ points[j].at \in Point
                                    /\ points[j].at = field.samples[points[j].of].at
    BY <1>7 DEF KeptFacts
  <2>4. QED
    BY <1>8, <2>1, <2>2, <2>3
<1>10. /\ members \in [1 .. n -> DOMAIN Items] /\ members \in Seq(DOMAIN field.samples) /\ Len(members) = n
       /\ DOMAIN places = 1 .. n /\ Range(members) = {members[k] : k \in 1 .. n}
  <2>1. members \in [1 .. n -> DOMAIN field.samples]
    BY <1>1, <1>3, <1>9
  <2>2. members \in Seq(DOMAIN field.samples) /\ Len(members) = n
    BY <2>1
  <2>3. DOMAIN members = 1 .. n /\ DOMAIN places = 1 .. n
    BY <1>1, <1>3, <1>4
  <2>4. Range(members) = {members[k] : k \in 1 .. n}
    BY <2>3 DEF Range
  <2>5. QED
    BY <1>7, <2>1, <2>2, <2>3, <2>4
<1>11. /\ D \in 1 .. n
       /\ \A j \in 1 .. n : Depth(members[j]) <= Depth(members[D])
  BY <1>5, <1>10, DeepestIs
<1>12. PICK P : P = PlacesOf(members)
  OBVIOUS
<1>13. Range(places) = {places[k] : k \in 1 .. n} /\ P = Range(places)
  <2>1. Range(places) = {places[k] : k \in 1 .. n}
    BY <1>10 DEF Range
  <2>2. P = {field.samples[m].at : m \in {members[k] : k \in 1 .. n}}
    BY <1>10, <1>12 DEF PlacesOf
  <2>3. \A x : x \in P <=> \E k \in 1 .. n : x = field.samples[members[k]].at
    BY <2>2
  <2>4. QED
    BY <1>9, <2>1, <2>3
<1>14. PICK depths : depths = {Abs(field.samples[m].signed) : m \in Range(members)}
  OBVIOUS
<1>15. \A x : x \in depths <=> \E k \in 1 .. n : x = Depth(members[k])
  <2>1. depths = {Depth(m) : m \in {members[k] : k \in 1 .. n}}
    BY <1>7, <1>10, <1>14
  <2>2. QED
    BY <2>1
<1>16. c.worst \in depths /\ \A d \in depths : d <= c.worst
  BY <1>6, <1>11, <1>15
<1>17. ProbesFine(c.probes, members, c.worst_at)
  <2>1. places[D] = field.samples[members[D]].at
    BY <1>9, <1>11
  <2>2. ProbesFine(probe_points(members, field.samples[members[D]].at), members, field.samples[members[D]].at)
    BY <1>10, <1>11, ProbesSpeak
  <2>3. QED
    BY <1>6, <2>1, <2>2
<1>18. \E m \in Range(members) : field.samples[m].at = c.worst_at /\ Abs(field.samples[m].signed) = c.worst
  <2>1. members[D] \in Range(members)
    BY <1>10, <1>11
  <2>2. QED
    BY <1>6, <1>7, <1>9, <1>11, <2>1
<1>19. ASSUME NEW d \in 1 .. 2
       PROVE  /\ \E p \in P : p[d] = c.bounds[1][d]
              /\ \E p \in P : p[d] = c.bounds[2][d]
              /\ \A p \in P : c.bounds[1][d] <= p[d] /\ p[d] <= c.bounds[2][d]
  <2>1. PICK S : S = {p[d] : p \in P}
    OBVIOUS
  <2>2. c.bounds[1][d] = Smallest(S) /\ c.bounds[2][d] = Largest(S)
    <3>1. /\ c.bounds[1][1] = Smallest({p[1] : p \in P}) /\ c.bounds[1][2] = Smallest({p[2] : p \in P})
          /\ c.bounds[2][1] = Largest({p[1] : p \in P}) /\ c.bounds[2][2] = Largest({p[2] : p \in P})
      BY <1>6, <1>13
    <3>2. CASE d = 1
      BY <2>1, <3>1, <3>2
    <3>3. CASE d = 2
      BY <2>1, <3>1, <3>3
    <3>4. QED
      BY <3>2, <3>3
  <2>3. PICK f : f = [k \in 1 .. n |-> places[k][d]]
    OBVIOUS
  <2>4. \A k \in 1 .. n : f[k] = places[k][d] /\ f[k] \in Int
    BY <1>9, <2>3 DEF Point
  <2>5. f \in [1 .. n -> Int]
    BY <2>3, <2>4
  <2>6. S = {f[k] : k \in 1 .. n}
    <3>1. \A x : x \in S <=> \E k \in 1 .. n : x = places[k][d]
      BY <1>13, <2>1
    <3>2. \A x : x \in S <=> \E k \in 1 .. n : x = f[k]
      BY <2>4, <3>1
    <3>3. QED
      BY <3>2
  <2>7. Smallest(S) \in S /\ Largest(S) \in S /\ \A x \in S : Smallest(S) <= x /\ x <= Largest(S)
    BY <2>5, <2>6, Extremes
  <2>8. QED
    BY <2>1, <2>2, <2>7
<1>20. SpeaksFor(c)
  <2>1. Len(c.members) = Len(members) /\ P = {field.samples[m].at : m \in Range(c.members)}
    BY <1>6, <1>12 DEF PlacesOf
  <2>2. depths = {Abs(field.samples[m].signed) : m \in Range(c.members)}
    BY <1>6, <1>14
  <2>3. /\ c.probes[1] = c.worst_at /\ Range(c.probes) \subseteq P /\ IsInjective(c.probes)
        /\ Cardinality(P) <= PROBES - 1 /\ Len(c.members) <= PROBES - 1 => Range(c.probes) = P
    BY <1>12, <1>17, <2>1 DEF ProbesFine
  <2>4. \E m \in Range(c.members) : field.samples[m].at = c.worst_at /\ Abs(field.samples[m].signed) = c.worst
    BY <1>6, <1>18
  <2>5. QED
    BY <1>16, <1>19, <2>1, <2>2, <2>3, <2>4 DEF SpeaksFor
<1>21. QED
  BY <1>2, <1>20

-------------------------------------------------------------------------------
\* Clusters sorted.

\* p rearranges 1 .. n.
Permutes(p, n) ==
  /\ p \in [1 .. n -> 1 .. n]
  /\ \A k \in 1 .. n : \E i \in 1 .. n : p[i] = k
  /\ \A i, j \in 1 .. n : p[i] = p[j] => i = j

\* A list of n clusters.
AllTyped(found, n) == DOMAIN found = 1 .. n /\ \A i \in 1 .. n : ClusterTyped(found[i])

(* Sorting clusters drops none, repeats none and changes none.              *)
LEMMA SortKeeps ==
  ASSUME NEW n \in Nat, NEW found, AllTyped(found, n)
  PROVE  /\ AllTyped(sort_canonically(found), n) /\ WorstFirst(sort_canonically(found))
         /\ sort_canonically(found) = [i \in 1 .. n |-> sort_canonically(found)[i]]
         /\ \E p : Permutes(p, n) /\ \A i \in 1 .. n : sort_canonically(found)[i] = found[p[i]]
<1> DEFINE k(i) == <<ClassRank(found[i].class), -found[i].worst, found[i].at[1] \div Len(found[i].members),
                     found[i].at[2] \div Len(found[i].members), i>>
           key == [i \in 1 .. n |-> k(i)]
           order == InOrder(1 .. n, key)
<1>1. sort_canonically(found) = [i \in DOMAIN order |-> found[order[i]]]
  BY DEF sort_canonically, AllTyped
<1>2. ASSUME NEW i \in 1 .. n
      PROVE  /\ k(i) \in Seq(Int) /\ Len(k(i)) = 5 /\ k(i)[1] = ClassRank(found[i].class)
             /\ k(i)[2] = -found[i].worst /\ k(i)[5] = i /\ found[i].worst \in Int
  <2>1. ClusterTyped(found[i])
    BY DEF AllTyped
  <2>2. ClassRank(found[i].class) \in Int
    BY <2>1 DEF ClusterTyped, Classes, ClassRank
  <2>3. Len(found[i].members) \in Nat \ {0}
    BY <2>1 DEF ClusterTyped
  <2>4. /\ found[i].at[1] \div Len(found[i].members) \in Int /\ found[i].at[2] \div Len(found[i].members) \in Int
        /\ -found[i].worst \in Int /\ found[i].worst \in Int
    <3>1. PICK a, b, w : a = found[i].at[1] /\ b = found[i].at[2] /\ w = found[i].worst
      OBVIOUS
    <3>2. a \in Int /\ b \in Int /\ w \in Int
      BY <2>1, <3>1 DEF ClusterTyped
    <3>3. -w \in Int
      BY <3>2
    <3>4. a \div Len(found[i].members) \in Int /\ b \div Len(found[i].members) \in Int
      BY <2>3, <3>2, DivBounds
    <3>5. QED
      BY <3>1, <3>2, <3>3, <3>4
  <2>5. QED
    BY <2>2, <2>4
<1> HIDE DEF k
<1>3. Keyed(1 .. n, key, 5)
  BY <1>2 DEF Keyed
<1>4. IsFiniteSet(1 .. n) /\ Cardinality(1 .. n) = n
  BY FS_Interval
<1>5. \A i \in 1 .. n : key[i] = k(i)
  OBVIOUS
<1> HIDE DEF key
<1>6. /\ order \in [1 .. n -> 1 .. n]
      /\ \A x \in 1 .. n : \E i \in 1 .. n : order[i] = x
      /\ \A i, j \in 1 .. n : i < j => Lexicographic(key[order[i]], key[order[j]])
  <2>1. /\ order \in [1 .. Cardinality(1 .. n) -> 1 .. n]
        /\ \A x \in 1 .. n : \E i \in 1 .. Cardinality(1 .. n) : order[i] = x
        /\ \A i, j \in 1 .. Cardinality(1 .. n) : i < j => Lexicographic(key[order[i]], key[order[j]])
    <3>1. PICK X : X = 1 .. n
      OBVIOUS
    <3>2. IsFiniteSet(X) /\ Keyed(X, key, 5)
      BY <1>3, <1>4, <3>1
    <3>3. /\ InOrder(X, key) \in [1 .. Cardinality(X) -> X]
          /\ \A x \in X : \E i \in 1 .. Cardinality(X) : InOrder(X, key)[i] = x
          /\ \A i, j \in 1 .. Cardinality(X) :
               i < j => Lexicographic(key[InOrder(X, key)[i]], key[InOrder(X, key)[j]])
      BY <3>2, InOrderProperties
    <3>4. QED
      BY <3>1, <3>3
  <2> HIDE DEF order
  <2>2. QED
    BY <1>4, <2>1
<1> HIDE DEF order
<1>7. \A i, j \in 1 .. n : order[i] = order[j] => i = j
  <2>1. ASSUME NEW i \in 1 .. n, NEW j \in 1 .. n, i < j, order[i] = order[j] PROVE FALSE
    <3>1. key[order[i]] \in Seq(Int)
      BY <1>3, <1>6 DEF Keyed
    <3>2. ~Lexicographic(key[order[i]], key[order[i]])
      BY <3>1, LexicographicIrreflexive
    <3>3. QED
      BY <1>6, <2>1, <3>2
  <2>2. \A i, j \in 1 .. n : i < j \/ i = j \/ j < i
    OBVIOUS
  <2>3. QED
    BY <2>1, <2>2
<1>8. /\ DOMAIN sort_canonically(found) = 1 .. n
      /\ \A i \in 1 .. n : sort_canonically(found)[i] = found[order[i]]
      /\ sort_canonically(found) = [i \in 1 .. n |-> sort_canonically(found)[i]]
  BY <1>1, <1>6
<1>9. Permutes(order, n)
  BY <1>6, <1>7 DEF Permutes
<1>10. AllTyped(sort_canonically(found), n)
  BY <1>6, <1>8 DEF AllTyped
<1>11. ASSUME NEW i \in 1 .. n, NEW j \in 1 .. n, i < j, found[order[i]].class = found[order[j]].class
       PROVE  found[order[i]].worst >= found[order[j]].worst
  <2>1. PICK a \in 1 .. n, b \in 1 .. n : a = order[i] /\ b = order[j]
    BY <1>6
  <2>2. Lexicographic(k(a), k(b))
    BY <1>5, <1>6, <1>11, <2>1
  <2>3. /\ k(a)[1] = k(b)[1] /\ Len(k(a)) = 5
        /\ k(a)[2] = -found[a].worst /\ k(b)[2] = -found[b].worst /\ found[a].worst \in Int /\ found[b].worst \in Int
        /\ k(a)[1] \in Int
    <3>1. /\ k(a)[1] = ClassRank(found[a].class) /\ k(b)[1] = ClassRank(found[b].class) /\ k(a) \in Seq(Int) /\ Len(k(a)) = 5
          /\ k(a)[2] = -found[a].worst /\ k(b)[2] = -found[b].worst /\ found[a].worst \in Int /\ found[b].worst \in Int
      BY <1>2
    <3>2. k(a)[1] \in Int
      <4>1. PICK ka : ka = k(a)
        OBVIOUS
      <4>2. ka \in Seq(Int) /\ Len(ka) = 5
        BY <3>1, <4>1
      <4>3. ka[1] \in Int
        BY <4>2
      <4>4. QED
        BY <4>1, <4>3
    <3>3. found[a].class = found[b].class
      BY <1>11, <2>1
    <3>4. QED
      BY <3>1, <3>2, <3>3
  <2>4. PICK d \in 1 .. 5 : k(a)[d] < k(b)[d] /\ \A e \in 1 .. d - 1 : k(a)[e] = k(b)[e]
    BY <2>2, <2>3 DEF Lexicographic
  <2>5. CASE d = 1
    BY <2>3, <2>4, <2>5
  <2>6. CASE d = 2
    BY <2>1, <2>3, <2>4, <2>6
  <2>7. CASE d > 2
    <3>1. 2 \in 1 .. d - 1
      BY <2>7
    <3>2. QED
      BY <2>1, <2>3, <2>4, <3>1
  <2>8. QED
    BY <2>5, <2>6, <2>7
<1>12. WorstFirst(sort_canonically(found))
  BY <1>8, <1>11 DEF WorstFirst
<1>13. QED
  BY <1>8, <1>9, <1>10, <1>12

-------------------------------------------------------------------------------
\* Clusters as sets.

\* What hangs under one root.
Members(root, r) == {points[s + 1].of : s \in {t \in Slots : root[t] = r}}

\* One cluster for each tree.
TreesOf(found, root, m, r) ==
  /\ AllTyped(found, m)
  /\ r \in [1 .. m -> {root[s] : s \in Slots}]
  /\ \A s \in Slots : \E i \in 1 .. m : r[i] = root[s]
  /\ \A i, j \in 1 .. m : r[i] = r[j] => i = j
  /\ \A i \in 1 .. m : /\ Range(found[i].members) = Members(root, r[i])
                       /\ \A s \in Slots : root[s] = r[i] => points[s + 1].class = found[i].class

\* Everything has been united and gathered.
AllJoined(root) ==
  /\ InputOK /\ IInv /\ KeptFacts(points) /\ Len(points) \in Nat
  /\ Slots = 0 .. Len(points) - 1 /\ joined = United(points) /\ RootMap(root)

(* Under one root there is one class.                                       *)
LEMMA OneClass ==
  ASSUME NEW root, AllJoined(root), NEW s \in Slots, NEW t \in Slots, root[s] = root[t]
  PROVE  points[s + 1].class = points[t + 1].class
<1> DEFINE S == {u \in Slots : points[u + 1].class = points[s + 1].class}
<1>1. CutsNoPair(S)
  <2>1. ASSUME NEW e \in joined PROVE e[1] \in S <=> e[2] \in S
    <3>1. e[1] \in Slots /\ e[2] \in Slots /\ points[e[1] + 1].class = points[e[2] + 1].class
      BY DEF AllJoined, United
    <3>2. QED
      BY <3>1
  <2>2. QED
    BY <2>1 DEF CutsNoPair
<1>2. CutsNoTree(S)
  <2>1. S \in SUBSET Slots
    OBVIOUS
  <2>2. QED
    BY <1>1, <2>1 DEF AllJoined, IInv, TreesAreJoins
<1>3. s \in S
  OBVIOUS
<1>4. \A u \in Slots : u \in S <=> root[u] \in S
  BY <1>2 DEF AllJoined, RootMap
<1>5. t \in S
  BY <1>3, <1>4
<1>6. QED
  BY <1>5

\* What is folded: the trees, each of them once.
LEMMA FoldedTrees ==
  ASSUME NEW root, AllJoined(root), GroupsOf(root), slot = Len(points)
  PROVE  \E m \in Nat : \E r : TreesOf(Folded, root, m, r)
<1> DEFINE R == DOMAIN groups
           key == [r \in R |-> <<r>>]
           roots == InOrder(R, key)
           m == Cardinality(R)
<1>1. 0 .. slot - 1 = Slots /\ R = {root[s] : s \in Slots} /\ root \in [Slots -> Slots]
  BY DEF AllJoined, GroupsOf, RootMap
<1>2. R \subseteq Slots /\ R \subseteq Nat
  BY <1>1, SlotsAreNat DEF AllJoined
<1>3. IsFiniteSet(R)
  <2>1. IsFiniteSet(Slots)
    BY FS_Interval DEF AllJoined
  <2>2. QED
    BY <1>2, <2>1, FS_Subset
<1>4. Keyed(R, key, 1)
  BY <1>2 DEF Keyed
<1>5. /\ m \in Nat /\ roots \in [1 .. m -> R]
      /\ \A x \in R : \E i \in 1 .. m : roots[i] = x
      /\ \A i, j \in 1 .. m : i < j => Lexicographic(key[roots[i]], key[roots[j]])
  <2> HIDE DEF R, key
  <2>1. QED
    BY <1>3, <1>4, InOrderProperties
<1>6. Folded = [i \in 1 .. m |-> Cluster(groups[roots[i]])]
  BY <1>5 DEF Folded
<1>7. \A i, j \in 1 .. m : roots[i] = roots[j] => i = j
  <2>1. ASSUME NEW i \in 1 .. m, NEW j \in 1 .. m, i < j, roots[i] = roots[j] PROVE FALSE
    <3>1. key[roots[i]] \in Seq(Int)
      BY <1>4, <1>5 DEF Keyed
    <3>2. ~Lexicographic(key[roots[i]], key[roots[i]])
      BY <3>1, LexicographicIrreflexive
    <3>3. QED
      BY <1>5, <2>1, <3>2
  <2>2. \A i, j \in 1 .. m : i < j \/ i = j \/ j < i
    BY <1>5
  <2>3. QED
    BY <2>1, <2>2
<1> HIDE DEF roots, m, key
<1>8. ASSUME NEW i \in 1 .. m
      PROVE  /\ ClusterTyped(Folded[i])
             /\ Range(Folded[i].members) = Members(root, roots[i])
             /\ \A s \in Slots : root[s] = roots[i] => points[s + 1].class = Folded[i].class
  <2>1. PICK q : q = groups[roots[i]]
    OBVIOUS
  <2>2. roots[i] \in R /\ Folded[i] = Cluster(q)
    BY <1>5, <1>6, <2>1
  <2>3. q \in Seq(Slots) /\ Range(q) = {s \in Slots : root[s] = roots[i]}
    BY <1>1, <2>1, <2>2 DEF GroupsOf
  <2>4. PICK s0 \in Slots : root[s0] = roots[i]
    BY <1>1, <2>2
  <2>5. q # <<>>
    <3>1. s0 \in Range(q)
      BY <2>3, <2>4
    <3>2. Range(<<>>) = {}
      BY DEF Range
    <3>3. QED
      BY <3>1, <3>2
  <2>6. q \in Seq(0 .. Len(points) - 1)
    BY <2>3 DEF AllJoined
  <2>7. /\ ClusterTyped(Cluster(q)) /\ Cluster(q).class = points[q[1] + 1].class
        /\ Range(Cluster(q).members) = {points[s + 1].of : s \in Range(q)}
    BY <2>5, <2>6, ClusterOf DEF AllJoined
  <2>8. q[1] \in Slots /\ root[q[1]] = roots[i]
    <3>1. q[1] \in Range(q)
      BY <2>5, <2>6 DEF Range
    <3>2. QED
      BY <2>3, <3>1
  <2>9. \A s \in Slots : root[s] = roots[i] => points[s + 1].class = Folded[i].class
    BY <2>2, <2>7, <2>8, OneClass
  <2>10. Range(Folded[i].members) = Members(root, roots[i])
    BY <2>2, <2>3, <2>7 DEF Members
  <2>11. QED
    BY <2>2, <2>7, <2>9, <2>10
<1>9. AllTyped(Folded, m)
  <2>1. DOMAIN Folded = 1 .. m
    BY <1>6
  <2>2. QED
    BY <1>8, <2>1 DEF AllTyped
<1>10. roots \in [1 .. m -> {root[s] : s \in Slots}] /\ \A s \in Slots : \E i \in 1 .. m : roots[i] = root[s]
  BY <1>1, <1>5
<1>11. TreesOf(Folded, root, m, roots)
  BY <1>7, <1>8, <1>9, <1>10 DEF TreesOf
<1>12. QED
  BY <1>5, <1>11

\* Each of a list does.
AllSpeak(found) == \A i \in DOMAIN found : SpeaksFor(found[i])

(* So does every cluster of a fold.                                          *)
LEMMA FoldSpeaks ==
  ASSUME NEW root, AllJoined(root), GroupsOf(root), slot = Len(points), of = "samples"
  PROVE  AllSpeak(Folded)
<1>1. PICK R : R = DOMAIN groups
  OBVIOUS
<1>2. 0 .. slot - 1 = Slots /\ R = {root[s] : s \in Slots} /\ root \in [Slots -> Slots]
  BY <1>1 DEF AllJoined, GroupsOf, RootMap
<1>3. R \subseteq Slots /\ R \subseteq Nat /\ IsFiniteSet(R)
  <2>1. R \subseteq Slots /\ R \subseteq Nat
    BY <1>2, SlotsAreNat DEF AllJoined
  <2>2. IsFiniteSet(Slots)
    BY FS_Interval DEF AllJoined
  <2>3. QED
    BY <2>1, <2>2, FS_Subset
<1>4. PICK key : key = [r \in R |-> <<r>>]
  OBVIOUS
<1>5. Keyed(R, key, 1)
  BY <1>3, <1>4 DEF Keyed
<1>6. PICK roots : roots = InOrder(R, key)
  OBVIOUS
<1>7. roots \in [1 .. Cardinality(R) -> R]
  BY <1>3, <1>5, <1>6, InOrderProperties
<1>8. Folded = [i \in DOMAIN roots |-> Cluster(groups[roots[i]])]
  BY <1>1, <1>4, <1>6 DEF Folded
<1>9. ASSUME NEW r \in R PROVE SpeaksFor(Cluster(groups[r]))
  <2>1. PICK q : q = groups[r]
    OBVIOUS
  <2>2. q \in Seq(Slots) /\ Range(q) = {s \in Slots : root[s] = r}
    BY <1>1, <1>2, <2>1 DEF GroupsOf
  <2>3. PICK s0 \in Slots : root[s0] = r
    BY <1>2
  <2>4. q # <<>>
    <3>1. s0 \in Range(q)
      BY <2>2, <2>3
    <3>2. Range(<<>>) = {}
      BY DEF Range
    <3>3. QED
      BY <3>1, <3>2
  <2>5. q \in Seq(0 .. Len(points) - 1)
    BY <2>2 DEF AllJoined
  <2>6. SpeaksFor(Cluster(q))
    BY <2>4, <2>5, ClusterSpeaks DEF AllJoined
  <2>7. QED
    BY <2>1, <2>6
<1>10. QED
  BY <1>7, <1>8, <1>9 DEF AllSpeak

\* Sorted, they still are.
LEMMA SortedTrees ==
  ASSUME NEW found, NEW root, NEW m \in Nat, NEW r, TreesOf(found, root, m, r)
  PROVE  \E q : TreesOf(sort_canonically(found), root, m, q)
<1>1. AllTyped(found, m)
  BY DEF TreesOf
<1>2. PICK p : Permutes(p, m) /\ \A i \in 1 .. m : sort_canonically(found)[i] = found[p[i]]
  BY <1>1, SortKeeps
<1>3. AllTyped(sort_canonically(found), m)
  BY <1>1, SortKeeps
<1> DEFINE q == [i \in 1 .. m |-> r[p[i]]]
<1>4. \A i \in 1 .. m : p[i] \in 1 .. m /\ q[i] = r[p[i]]
  BY <1>2 DEF Permutes
<1>5. q \in [1 .. m -> {root[s] : s \in Slots}]
  BY <1>4 DEF TreesOf
<1> HIDE DEF q
<1>6. \A s \in Slots : \E i \in 1 .. m : q[i] = root[s]
  BY <1>2, <1>4 DEF TreesOf, Permutes
<1>7. \A i, j \in 1 .. m : q[i] = q[j] => i = j
  BY <1>2, <1>4 DEF TreesOf, Permutes
<1>8. ASSUME NEW i \in 1 .. m
      PROVE  /\ Range(sort_canonically(found)[i].members) = Members(root, q[i])
             /\ \A s \in Slots : root[s] = q[i] => points[s + 1].class = sort_canonically(found)[i].class
  <2>1. PICK k \in 1 .. m : k = p[i] /\ q[i] = r[k] /\ sort_canonically(found)[i] = found[k]
    BY <1>2, <1>4
  <2>2. /\ Range(found[k].members) = Members(root, r[k])
        /\ \A s \in Slots : root[s] = r[k] => points[s + 1].class = found[k].class
    BY DEF TreesOf
  <2>3. QED
    BY <2>1, <2>2
<1>9. TreesOf(sort_canonically(found), root, m, q)
  BY <1>3, <1>5, <1>6, <1>7, <1>8 DEF TreesOf
<1>10. QED
  BY <1>9

\* `found` parts what was chosen into the classes of "same class and within the
\* radius": what ClustersAreComponents says, for either pass.
Alike(i, j) == class_of(i) = class_of(j) /\ Within(Items[i].at, Items[j].at)

\* No two alike on the two sides of S.
CutsNoAlike(S) == \A i \in S, j \in Chosen \ S : ~Alike(i, j)

\* The clusters as sets of members.
Sets(found) == {Range(c.members) : c \in Range(found)}

\* What ClustersAreComponents says, of either pass.
Parted(found) ==
  /\ Chosen = UNION Sets(found)
  /\ Len(found) = Cardinality(Sets(found))
  /\ \A S \in SUBSET Chosen : CutsNoAlike(S) <=> \A C \in Sets(found) : C \subseteq S \/ C \cap S = {}

(* A set of what was chosen cuts no two alike apart exactly when its slots    *)
(* cut no pair apart that was to be united.                                 *)
LEMMA AlikeIsUnited ==
  ASSUME NEW root, AllJoined(root), NEW S \in SUBSET Chosen
  PROVE  CutsNoAlike(S) <=> CutsNoPair({s \in Slots : points[s + 1].of \in S})
<1> DEFINE T == {s \in Slots : points[s + 1].of \in S}
<1>1. /\ KeptFacts(points) /\ Slots = 0 .. Len(points) - 1 /\ Len(points) \in Nat /\ joined = United(points)
  BY DEF AllJoined
<1>2. \A s \in Slots : /\ s + 1 \in 1 .. Len(points) /\ points[s + 1].of \in Chosen /\ points[s + 1].at \in Point
                       /\ points[s + 1].at = Items[points[s + 1].of].at
                       /\ points[s + 1].class = class_of(points[s + 1].of)
  BY <1>1 DEF KeptFacts
<1>3. ASSUME NEW i \in Chosen PROVE \E s \in Slots : points[s + 1].of = i
  <2>1. PICK k \in 1 .. Len(points) : points[k].of = i
    BY <1>1 DEF KeptFacts
  <2>2. k - 1 \in Slots /\ (k - 1) + 1 = k
    BY <1>1
  <2>3. QED
    BY <2>1, <2>2
<1>4. ASSUME CutsNoAlike(S), NEW e \in joined PROVE e[1] \in T <=> e[2] \in T
  <2>1. /\ e[1] \in Slots /\ e[2] \in Slots /\ points[e[1] + 1].class = points[e[2] + 1].class
        /\ Within(points[e[1] + 1].at, points[e[2] + 1].at)
    BY <1>1 DEF United
  <2>2. PICK i, j : i = points[e[1] + 1].of /\ j = points[e[2] + 1].of
    OBVIOUS
  <2>3. i \in Chosen /\ j \in Chosen /\ class_of(i) = class_of(j) /\ Within(Items[i].at, Items[j].at)
    BY <1>2, <2>1, <2>2
  <2>4. Items[i].at \in Point /\ Items[j].at \in Point
    BY <1>2, <2>1, <2>2
  <2>5. Within(Items[j].at, Items[i].at)
    BY <2>3, <2>4, NearIsNeighbour
  <2>6. i \in S <=> j \in S
    BY <1>4, <2>3, <2>5 DEF CutsNoAlike, Alike
  <2>7. QED
    BY <2>1, <2>2, <2>6
<1>5. ASSUME CutsNoPair(T), NEW i \in S, NEW j \in Chosen \ S, Alike(i, j) PROVE FALSE
  <2>1. PICK s \in Slots : points[s + 1].of = i
    BY <1>3
  <2>2. PICK t \in Slots : points[t + 1].of = j
    BY <1>3
  <2>3. /\ points[s + 1].class = points[t + 1].class /\ Within(points[s + 1].at, points[t + 1].at)
        /\ points[s + 1].at \in Point /\ points[t + 1].at \in Point
    BY <1>2, <1>5, <2>1, <2>2 DEF Alike
  <2>4. /\ Neighbours(cell_of(points[s + 1].at), cell_of(points[t + 1].at))
        /\ Within(points[t + 1].at, points[s + 1].at)
    BY <2>3, NearIsNeighbour
  <2>5. Neighbours(cell_of(points[t + 1].at), cell_of(points[s + 1].at))
    BY <2>3, <2>4, NearIsNeighbour
  <2>6. s \in T /\ t \notin T
    BY <2>1, <2>2
  <2>7. s \in Nat /\ t \in Nat /\ s # t
    BY <1>1, <2>6
  <2>8. CASE s < t
    <3>1. <<s, t>> \in joined
      BY <1>1, <2>3, <2>4, <2>8 DEF United
    <3>2. QED
      BY <1>5, <2>6, <3>1 DEF CutsNoPair
  <2>9. CASE t < s
    <3>1. <<t, s>> \in joined
      BY <1>1, <2>3, <2>4, <2>5, <2>9 DEF United
    <3>2. QED
      BY <1>5, <2>6, <3>1 DEF CutsNoPair
  <2>10. QED
    BY <2>7, <2>8, <2>9
<1>6. QED
  BY <1>4, <1>5 DEF CutsNoPair, CutsNoAlike

(* A set of slots cuts no tree apart exactly when what hangs under a root is  *)
(* in it or out of it.                                                      *)
LEMMA CutsNoMembers ==
  ASSUME NEW root, AllJoined(root), NEW S \in SUBSET Chosen
  PROVE  CutsNoTree({s \in Slots : points[s + 1].of \in S}) <=>
           \A u \in Slots : Members(root, root[u]) \subseteq S \/ Members(root, root[u]) \cap S = {}
<1> DEFINE T == {s \in Slots : points[s + 1].of \in S}
<1>1. /\ RootMap(root) /\ \A s \in Slots : root[s] \in Slots /\ root[parent[s]] = root[s] /\ root[root[s]] = root[s]
  BY DEF AllJoined, RootMap
<1>2. \A s \in Slots : parent[s] \in Slots
  BY DEF AllJoined, IInv, ForestTypeOK, Slots
<1>3. \A u \in Slots : \A x : x \in Members(root, u) <=> \E s \in Slots : root[s] = u /\ x = points[s + 1].of
  BY DEF Members
<1>4. ASSUME CutsNoTree(T), NEW u \in Slots, NEW x \in Members(root, root[u]), x \in S,
             NEW y \in Members(root, root[u])
      PROVE  y \in S
  <2>1. PICK s \in Slots : root[s] = root[u] /\ x = points[s + 1].of
    BY <1>1, <1>3
  <2>2. PICK t \in Slots : root[t] = root[u] /\ y = points[t + 1].of
    BY <1>1, <1>3
  <2>3. \A v \in Slots : v \in T <=> root[v] \in T
    BY <1>1, <1>4 DEF RootMap
  <2>4. s \in T
    BY <1>4, <2>1
  <2>5. t \in T
    BY <2>1, <2>2, <2>3, <2>4
  <2>6. QED
    BY <2>2, <2>5
<1>5. ASSUME \A u \in Slots : Members(root, root[u]) \subseteq S \/ Members(root, root[u]) \cap S = {},
             NEW s \in Slots
      PROVE  s \in T <=> parent[s] \in T
  <2>1. parent[s] \in Slots /\ root[parent[s]] = root[s] /\ root[s] \in Slots
    BY <1>1, <1>2
  <2>2. points[s + 1].of \in Members(root, root[s]) /\ points[parent[s] + 1].of \in Members(root, root[s])
    BY <1>3, <2>1
  <2>3. points[s + 1].of \in S <=> points[parent[s] + 1].of \in S
    BY <1>5, <2>2
  <2>4. QED
    BY <2>1, <2>3
<1>6. QED
  BY <1>4, <1>5 DEF CutsNoTree

-------------------------------------------------------------------------------
\* The clusters are the components.

\* A cluster is of the class of every one of its members.
SaysClass(found) ==
  \A i \in DOMAIN found : \A x \in Range(found[i].members) : x \in Chosen /\ class_of(x) = found[i].class

\* The trees of a forest in which every pair to unite is united are the components.
LEMMA TreesParted ==
  ASSUME NEW root, AllJoined(root), NEW m \in Nat, NEW found, found = [i \in 1 .. m |-> found[i]],
         NEW r, TreesOf(found, root, m, r)
  PROVE  Parted(found) /\ SaysClass(found)
<1>1. /\ KeptFacts(points) /\ Slots = 0 .. Len(points) - 1 /\ Len(points) \in Nat /\ joined = United(points)
  BY DEF AllJoined
<1>2. \A s \in Slots : /\ s \in Int /\ s + 1 \in 1 .. Len(points) /\ points[s + 1].of \in Chosen
                       /\ points[s + 1].class = class_of(points[s + 1].of)
  BY <1>1 DEF KeptFacts
<1>3. DOMAIN found = 1 .. m /\ Len(found) = m
  <2>1. DOMAIN found = 1 .. m
    OBVIOUS
  <2>2. \A n \in Nat : 1 .. n = 1 .. m => n = m
    OBVIOUS
  <2>3. QED
    BY <2>1, <2>2
<1>4. \A i \in 1 .. m : \E s \in Slots : root[s] = r[i]
  BY DEF TreesOf
<1>5. \A u : \A x : x \in Members(root, u) <=> \E s \in Slots : root[s] = u /\ x = points[s + 1].of
  BY DEF Members
<1>6. Sets(found) = {Members(root, r[i]) : i \in 1 .. m}
  <2>1. Range(found) = {found[i] : i \in 1 .. m}
    BY <1>3 DEF Range
  <2>2. \A i \in 1 .. m : Range(found[i].members) = Members(root, r[i])
    BY DEF TreesOf
  <2>3. \A C \in Sets(found) : \E i \in 1 .. m : C = Members(root, r[i])
    BY <2>1, <2>2 DEF Sets
  <2>4. \A i \in 1 .. m : Members(root, r[i]) \in Sets(found)
    BY <2>1, <2>2 DEF Sets
  <2>5. QED
    BY <2>3, <2>4
<1>7. Sets(found) = {Members(root, root[u]) : u \in Slots}
  <2>1. \A i \in 1 .. m : \E s \in Slots : Members(root, r[i]) = Members(root, root[s])
    BY <1>4
  <2>2. \A s \in Slots : \E i \in 1 .. m : Members(root, r[i]) = Members(root, root[s])
    BY DEF TreesOf
  <2>3. QED
    BY <1>6, <2>1, <2>2
<1>8. Chosen = UNION Sets(found)
  <2>1. ASSUME NEW i \in Chosen PROVE i \in UNION Sets(found)
    <3>1. PICK k \in 1 .. Len(points) : points[k].of = i
      BY <1>1 DEF KeptFacts
    <3>2. k - 1 \in Slots /\ (k - 1) + 1 = k
      BY <1>1
    <3>3. i \in Members(root, root[k - 1])
      BY <1>5, <3>1, <3>2
    <3>4. QED
      BY <1>7, <3>2, <3>3
  <2>2. ASSUME NEW u \in Slots, NEW i \in Members(root, root[u]) PROVE i \in Chosen
    BY <1>2, <1>5
  <2>3. QED
    BY <1>7, <2>1, <2>2
<1>9. Len(found) = Cardinality(Sets(found))
  <2> DEFINE g == [i \in 1 .. m |-> Members(root, r[i])]
  <2>1. \A i \in 1 .. m : g[i] = Members(root, r[i])
    OBVIOUS
  <2>2. g \in [1 .. m -> Sets(found)] /\ \A C \in Sets(found) : \E i \in 1 .. m : g[i] = C
    BY <1>6
  <2> HIDE DEF g
  <2>3. ASSUME NEW i \in 1 .. m, NEW j \in 1 .. m, g[i] = g[j] PROVE i = j
    <3>1. PICK s \in Slots : root[s] = r[i]
      BY <1>4
    <3>2. points[s + 1].of \in Members(root, r[j])
      BY <1>5, <2>1, <2>3, <3>1
    <3>3. PICK t \in Slots : root[t] = r[j] /\ points[t + 1].of = points[s + 1].of
      BY <1>5, <3>2
    <3>4. s + 1 = t + 1
      BY <1>1, <1>2, <3>3 DEF KeptFacts
    <3>5. s = t
      BY <1>2, <3>4
    <3>6. QED
      BY <3>1, <3>3, <3>5 DEF TreesOf
  <2>4. ExistsBijection(1 .. m, Sets(found))
    <3>1. g \in Bijection(1 .. m, Sets(found))
      BY <2>2, <2>3 DEF Bijection, Injection, Surjection, IsInjective
    <3>2. QED
      BY <3>1 DEF ExistsBijection
  <2>5. IsFiniteSet(1 .. m) /\ Cardinality(1 .. m) = m
    BY FS_Interval
  <2>6. Cardinality(Sets(found)) = m
    BY <2>4, <2>5, FS_Bijection
  <2>7. QED
    BY <1>3, <2>6
<1>10. ASSUME NEW S \in SUBSET Chosen
       PROVE  CutsNoAlike(S) <=> \A C \in Sets(found) : C \subseteq S \/ C \cap S = {}
  <2> DEFINE T == {s \in Slots : points[s + 1].of \in S}
  <2>1. CutsNoAlike(S) <=> CutsNoPair(T)
    BY AlikeIsUnited
  <2>2. CutsNoTree(T) <=> CutsNoPair(T)
    <3>1. T \in SUBSET Slots
      OBVIOUS
    <3>2. QED
      BY <3>1 DEF AllJoined, IInv, TreesAreJoins
  <2>3. CutsNoTree(T) <=> \A u \in Slots : Members(root, root[u]) \subseteq S \/ Members(root, root[u]) \cap S = {}
    BY CutsNoMembers
  <2>4. QED
    BY <1>7, <2>1, <2>2, <2>3
<1>11. SaysClass(found)
  <2>1. ASSUME NEW i \in 1 .. m, NEW x \in Range(found[i].members)
        PROVE  x \in Chosen /\ class_of(x) = found[i].class
    <3>1. /\ Range(found[i].members) = Members(root, r[i])
          /\ \A s \in Slots : root[s] = r[i] => points[s + 1].class = found[i].class
      BY DEF TreesOf
    <3>2. PICK s \in Slots : root[s] = r[i] /\ x = points[s + 1].of
      BY <1>5, <2>1, <3>1
    <3>3. QED
      BY <1>2, <3>1, <3>2
  <2>2. QED
    BY <1>3, <2>1 DEF SaysClass
<1>12. QED
  BY <1>8, <1>9, <1>10, <1>11 DEF Parted

\* What a fold leaves: a list that is well-formed, in order, and the partition.
Answered(found) ==
  /\ \E m \in Nat : AllTyped(found, m) /\ found = [i \in 1 .. m |-> found[i]]
  /\ WorstFirst(found) /\ Parted(found) /\ SaysClass(found)
  /\ of = "samples" => AllSpeak(found)

\* The fold returns it.
LEMMA FoldAnswers ==
  ASSUME Standing, stage = "fold"
  PROVE  Answered(sort_canonically(Folded))
<1>1. /\ JoinInv /\ IInv /\ GatherInv /\ InputOK /\ KeptFacts(points) /\ Len(points) \in Nat
      /\ Slots = 0 .. Len(points) - 1
  BY StandingFacts
<1>2. PICK root : RootMap(root) /\ GroupsOf(root)
  BY <1>1 DEF GatherInv
<1>3. AllJoined(root) /\ slot = Len(points)
  BY <1>1, <1>2 DEF AllJoined, JoinInv, GatherInv
<1>4. PICK m \in Nat : \E r : TreesOf(Folded, root, m, r)
  BY <1>2, <1>3, FoldedTrees
<1>5. PICK r : TreesOf(Folded, root, m, r)
  BY <1>4
<1>6. AllTyped(Folded, m)
  BY <1>5 DEF TreesOf
<1>7. PICK q : TreesOf(sort_canonically(Folded), root, m, q)
  BY <1>5, SortedTrees
<1>8. PICK found : found = sort_canonically(Folded)
  OBVIOUS
<1>9. AllTyped(found, m) /\ WorstFirst(found) /\ found = [i \in 1 .. m |-> found[i]]
  BY <1>6, <1>8, SortKeeps
<1>10. Parted(found) /\ SaysClass(found)
  BY <1>3, <1>7, <1>8, <1>9, TreesParted
<1>11. ASSUME of = "samples" PROVE AllSpeak(found)
  <2>1. AllSpeak(Folded)
    BY <1>2, <1>3, <1>11, FoldSpeaks
  <2>2. PICK p : Permutes(p, m) /\ \A i \in 1 .. m : found[i] = Folded[p[i]]
    BY <1>6, <1>8, SortKeeps
  <2>3. DOMAIN found = 1 .. m /\ DOMAIN Folded = 1 .. m /\ \A i \in 1 .. m : p[i] \in 1 .. m
    BY <1>6, <1>9, <2>2 DEF AllTyped, Permutes
  <2>4. QED
    BY <2>1, <2>2, <2>3 DEF AllSpeak
<1>12. QED
  BY <1>8, <1>9, <1>10, <1>11 DEF Answered

\* Whether something was within reach of p.
LEMMA CoveredIsWithin ==
  ASSUME IsField(field), NEW p \in Point
  PROVE  covered(p) <=> \E j \in DOMAIN field.samples : Within(field.samples[j].near, p)
<1>1. Range(field.samples) = {field.samples[j] : j \in DOMAIN field.samples}
  BY DEF Range
<1>2. \A j \in DOMAIN field.samples : field.samples[j].near \in Point
  <2>1. \A j \in DOMAIN field.samples : field.samples[j] \in Sample
    BY DEF IsField
  <2>2. QED
    BY <2>1 DEF Sample
<1>3. \A q \in Point : Within(q, p) => Neighbours(cell_of(p), cell_of(q))
  <2>1. ASSUME NEW q \in Point, Within(q, p) PROVE Neighbours(cell_of(p), cell_of(q))
    <3>1. Within(p, q)
      BY <2>1, NearIsNeighbour
    <3>2. QED
      BY <3>1, NearIsNeighbour
  <2>2. QED
    BY <2>1
<1>4. QED
  BY <1>1, <1>2, <1>3 DEF covered

\* Of the samples, this is what the property says of the code's `cluster`.
LEMMA SamplesParted ==
  ASSUME IsField(field), of = "samples", NEW found, Parted(found)
  PROVE  SamplesAreParted(found)
<1> DEFINE s == field.samples
           out == {i \in DOMAIN s : Abs(s[i].signed) > Tolerance}
<1>1. Items = s /\ \A i \in DOMAIN s : class_of(i) = classify(s[i])
  BY DEF Items, class_of
<1>2. \A i \in DOMAIN s : s[i] \in Sample /\ s[i].signed \in Int
  <2>1. \A i \in DOMAIN s : s[i] \in Sample
    BY DEF IsField
  <2>2. QED
    BY <2>1 DEF Sample
<1>3. Tolerance \in Nat /\ None # "gouge" /\ None # "excess-stock"
  BY ClusteringAssumption
<1>4. ASSUME NEW i \in DOMAIN s
      PROVE  /\ class_of(i) # None <=> Abs(s[i].signed) > Tolerance
             /\ Abs(s[i].signed) > Tolerance =>
                  class_of(i) = IF s[i].signed < 0 THEN "gouge" ELSE "excess-stock"
  <2>1. PICK d \in Int : d = s[i].signed
    BY <1>2
  <2>2. CASE d <= Tolerance /\ -d <= Tolerance
    <3>1. class_of(i) = None
      BY <1>1, <1>3, <2>1, <2>2 DEF classify
    <3>2. QED
      BY <1>3, <2>1, <2>2, <3>1 DEF Abs
  <2>3. CASE d < -Tolerance
    <3>1. class_of(i) = "gouge"
      BY <1>1, <1>3, <2>1, <2>3 DEF classify
    <3>2. d < 0
      BY <1>3, <2>3
    <3>3. QED
      BY <1>3, <2>1, <2>3, <3>1, <3>2 DEF Abs
  <2>4. CASE d > Tolerance
    <3>1. class_of(i) = "excess-stock"
      BY <1>1, <1>3, <2>1, <2>4 DEF classify
    <3>2. ~(d < 0)
      BY <1>3, <2>4
    <3>3. QED
      BY <1>3, <2>1, <2>4, <3>1, <3>2 DEF Abs
  <2>5. QED
    BY <1>3, <2>2, <2>3, <2>4
<1>5. Chosen = out
  BY <1>1, <1>4 DEF Chosen
<1>6. \A i, j \in out : Alike(i, j) <=> ((s[i].signed < 0) = (s[j].signed < 0) /\ Within(s[i].at, s[j].at))
  BY <1>1, <1>4 DEF Alike
<1>7. \A S \in SUBSET out :
        CutsNoAlike(S) <=> \A i \in S, j \in out \ S : ~((s[i].signed < 0) = (s[j].signed < 0) /\ Within(s[i].at, s[j].at))
  BY <1>5, <1>6 DEF CutsNoAlike
<1>8. SamplesAreParted(found) <=>
        /\ out = UNION Sets(found)
        /\ Len(found) = Cardinality(Sets(found))
        /\ \A S \in SUBSET out :
             (\A i \in S, j \in out \ S : ~((s[i].signed < 0) = (s[j].signed < 0) /\ Within(s[i].at, s[j].at)))
               <=> (\A C \in Sets(found) : C \subseteq S \/ C \cap S = {})
  BY DEF SamplesAreParted, IsPartition, Sets
<1> HIDE DEF out
<1>9. QED
  BY <1>5, <1>7, <1>8 DEF Parted

\* Of the facets, this is what the property says of the code's `unsampled`.
LEMMA FacetsParted ==
  ASSUME IsField(field), of = "facets", NEW found, Parted(found)
  PROVE  FacetsAreParted(found)
<1> DEFINE s == field.samples
           f == field.facets
           bare == {i \in DOMAIN f : f[i].faces # None /\ \A j \in DOMAIN s : ~Within(s[j].near, f[i].at)}
<1>1. Items = f
  BY DEF Items
<1>2. \A i \in DOMAIN f : f[i].at \in Point /\ f[i].faces \in {"up", "down", None}
  <2>1. \A i \in DOMAIN f : f[i] \in Facet
    BY DEF IsField
  <2>2. QED
    BY <2>1 DEF Facet
<1>3. None # "undercut" /\ None # "unreachable" /\ None # "up" /\ None # "down"
  BY ClusteringAssumption
<1>4. ASSUME NEW i \in DOMAIN f
      PROVE  /\ class_of(i) # None <=> i \in bare
             /\ i \in bare => class_of(i) = IF f[i].faces = "down" THEN "undercut" ELSE "unreachable"
  <2>1. covered(f[i].at) <=> \E j \in DOMAIN s : Within(s[j].near, f[i].at)
    BY <1>2, CoveredIsWithin
  <2>2. i \in bare <=> f[i].faces # None /\ ~covered(f[i].at)
    BY <2>1
  <2> HIDE DEF bare
  <2>3. class_of(i) = CASE covered(f[i].at) \/ f[i].faces = None -> None
                        [] ~covered(f[i].at) /\ f[i].faces = "down" -> "undercut"
                        [] ~covered(f[i].at) /\ f[i].faces = "up" -> "unreachable"
    BY DEF class_of
  <2>4. CASE covered(f[i].at) \/ f[i].faces = None
    <3>1. class_of(i) = None
      BY <1>3, <2>3, <2>4
    <3>2. QED
      BY <2>2, <2>4, <3>1
  <2>5. CASE ~covered(f[i].at) /\ f[i].faces = "down"
    <3>1. class_of(i) = "undercut"
      BY <1>3, <2>3, <2>5
    <3>2. QED
      BY <1>3, <2>2, <2>5, <3>1
  <2>6. CASE ~covered(f[i].at) /\ f[i].faces = "up"
    <3>1. class_of(i) = "unreachable"
      BY <1>3, <2>3, <2>6
    <3>2. QED
      BY <1>3, <2>2, <2>6, <3>1
  <2>7. QED
    BY <1>2, <2>4, <2>5, <2>6
<1>5. Chosen = bare
  BY <1>1, <1>4 DEF Chosen
<1>6. \A i, j \in bare : Alike(i, j) <=> (f[i].faces = f[j].faces /\ Within(f[i].at, f[j].at))
  <2>1. ASSUME NEW i \in bare, NEW j \in bare PROVE class_of(i) = class_of(j) <=> f[i].faces = f[j].faces
    <3>1. f[i].faces \in {"up", "down"} /\ f[j].faces \in {"up", "down"}
      BY <1>2
    <3>2. /\ class_of(i) = IF f[i].faces = "down" THEN "undercut" ELSE "unreachable"
          /\ class_of(j) = IF f[j].faces = "down" THEN "undercut" ELSE "unreachable"
      BY <1>4
    <3>3. QED
      BY <3>1, <3>2
  <2>2. QED
    BY <1>1, <2>1 DEF Alike
<1>7. \A S \in SUBSET bare :
        CutsNoAlike(S) <=> \A i \in S, j \in bare \ S : ~(f[i].faces = f[j].faces /\ Within(f[i].at, f[j].at))
  BY <1>5, <1>6 DEF CutsNoAlike
<1>8. FacetsAreParted(found) <=>
        /\ bare = UNION Sets(found)
        /\ Len(found) = Cardinality(Sets(found))
        /\ \A S \in SUBSET bare :
             (\A i \in S, j \in bare \ S : ~(f[i].faces = f[j].faces /\ Within(f[i].at, f[j].at)))
               <=> (\A C \in Sets(found) : C \subseteq S \/ C \cap S = {})
  BY DEF FacetsAreParted, IsPartition, Sets
<1> HIDE DEF bare
<1>9. QED
  BY <1>5, <1>7, <1>8 DEF Parted

-------------------------------------------------------------------------------
\* Every step of a verification.

\* A list of clusters.
IsList(found) == \E m \in Nat : AllTyped(found, m) /\ found = [i \in 1 .. m |-> found[i]]

\* Clusters of samples, of the class of every one of their members.
ClustersFine(found) ==
  /\ IsList(found) /\ WorstFirst(found) /\ AllSpeak(found)
  /\ \A i \in DOMAIN found : \A x \in Range(found[i].members) :
       x \in DOMAIN field.samples /\ classify(field.samples[x]) = found[i].class

\* Clusters of facets are of their two classes.
MissingFine(found) ==
  IsList(found) /\ \A i \in DOMAIN found : found[i].class \in {"undercut", "unreachable"}

\* What was returned stays what it was.
AnswerInv ==
  /\ of = "facets" => SamplesAreParted(clusters) /\ ClustersFine(clusters)
  /\ stage = "done" => of = "facets" /\ FacetsAreParted(missing) /\ MissingFine(missing)

\* What the first pass returns.
LEMMA AnsweredFine ==
  ASSUME InputOK, NEW found, Answered(found)
  PROVE  of = "samples" => SamplesAreParted(found) /\ ClustersFine(found)
<1> SUFFICES ASSUME of = "samples" PROVE SamplesAreParted(found) /\ ClustersFine(found)
  OBVIOUS
<1>1. SamplesAreParted(found)
  BY SamplesParted DEF InputOK, Answered
<1>2. Items = field.samples /\ \A i : class_of(i) = classify(field.samples[i])
  BY DEF Items, class_of
<1>3. Chosen \subseteq DOMAIN field.samples
  BY <1>2 DEF Chosen
<1>4. QED
  BY <1>1, <1>2, <1>3 DEF Answered, ClustersFine, IsList, SaysClass

\* What the second pass returns.
LEMMA AnsweredMissing ==
  ASSUME InputOK, NEW found, Answered(found)
  PROVE  of = "facets" => FacetsAreParted(found) /\ MissingFine(found)
<1> SUFFICES ASSUME of = "facets" PROVE FacetsAreParted(found) /\ MissingFine(found)
  OBVIOUS
<1>1. FacetsAreParted(found)
  BY FacetsParted DEF InputOK, Answered
<1>2. ASSUME NEW i \in DOMAIN found PROVE found[i].class \in {"undercut", "unreachable"}
  <2>1. found[i].members \in Seq(Nat) /\ found[i].members # <<>>
    BY DEF Answered, AllTyped, ClusterTyped
  <2>2. found[i].members[1] \in Range(found[i].members)
    BY <2>1 DEF Range
  <2>3. PICK x \in Chosen : class_of(x) = found[i].class
    BY <2>2 DEF Answered, SaysClass
  <2>4. x \in DOMAIN field.facets /\ class_of(x) # None
    BY DEF Chosen, Items
  <2>5. field.facets[x] \in Facet
    BY <2>4 DEF InputOK, IsField
  <2>6. field.facets[x].faces \in {"up", "down", None}
    BY <2>5 DEF Facet
  <2>7. class_of(x) = CASE covered(field.facets[x].at) \/ field.facets[x].faces = None -> None
                        [] ~covered(field.facets[x].at) /\ field.facets[x].faces = "down" -> "undercut"
                        [] ~covered(field.facets[x].at) /\ field.facets[x].faces = "up" -> "unreachable"
    BY DEF class_of
  <2>8. QED
    BY <2>3, <2>4, <2>6, <2>7
<1>3. QED
  BY <1>1, <1>2 DEF Answered, MissingFine, IsList

\* It is the same of the same field.
LEMMA SamplesSame ==
  ASSUME NEW found, field' = field, SamplesAreParted(found), ClustersFine(found), clusters' = found
  PROVE  SamplesAreParted(clusters)' /\ ClustersFine(clusters)'
<1>1. SamplesAreParted(clusters)'
  BY DEF SamplesAreParted, IsPartition
<1>2. AllSpeak(clusters)'
  <2>1. \A c : SpeaksFor(c) = SpeaksFor(c)'
    BY DEF SpeaksFor
  <2>2. QED
    BY <2>1 DEF ClustersFine, AllSpeak
<1>3. ClustersFine(clusters)'
  BY <1>2 DEF ClustersFine, IsList, AllTyped, WorstFirst
<1>4. QED
  BY <1>1, <1>3

\* It is the same of the same field.
LEMMA FacetsSame ==
  ASSUME NEW found, field' = field, FacetsAreParted(found), MissingFine(found), missing' = found
  PROVE  FacetsAreParted(missing)' /\ MissingFine(missing)'
<1>1. FacetsAreParted(missing)'
  BY DEF FacetsAreParted, IsPartition
<1>2. MissingFine(missing)'
  BY DEF MissingFine, IsList, AllTyped
<1>3. QED
  BY <1>1, <1>2

\* Every step of a clustering keeps what was returned.
LEMMA AnswerInvNext ==
  ASSUME Standing, AnswerInv, ClusterNext
  PROVE  AnswerInv'
<1>0. InputOK
  BY DEF Standing
<1>1. CASE Fold
  <2>1. /\ stage = "fold" /\ field' = field
        /\ IF of = "samples" THEN clusters' = sort_canonically(Folded) /\ missing' = missing
                             ELSE missing' = sort_canonically(Folded) /\ clusters' = clusters
        /\ IF of = "samples" THEN of' = "facets" /\ stage' = "classify" ELSE of' = of /\ stage' = "done"
    BY <1>1 DEF Fold
  <2>2. PICK found : found = sort_canonically(Folded)
    OBVIOUS
  <2>3. Answered(found)
    BY <2>1, <2>2, FoldAnswers
  <2>4. CASE of = "samples"
    <3>1. SamplesAreParted(found) /\ ClustersFine(found)
      BY <1>0, <2>3, <2>4, AnsweredFine
    <3>2. SamplesAreParted(clusters)' /\ ClustersFine(clusters)'
      BY <2>1, <2>2, <2>4, <3>1, SamplesSame
    <3>3. QED
      BY <2>1, <2>4, <3>2 DEF AnswerInv
  <2>5. CASE of = "facets"
    <3>1. FacetsAreParted(found) /\ MissingFine(found)
      BY <1>0, <2>3, <2>5, AnsweredMissing
    <3>2. FacetsAreParted(missing)' /\ MissingFine(missing)'
      BY <2>1, <2>2, <2>5, <3>1, FacetsSame
    <3>3. SamplesAreParted(clusters)' /\ ClustersFine(clusters)'
      BY <2>1, <2>5, SamplesSame DEF AnswerInv
    <3>4. QED
      BY <2>1, <2>5, <3>2, <3>3 DEF AnswerInv
  <2>6. QED
    BY <1>0, <2>4, <2>5 DEF InputOK
<1>2. CASE ~Fold
  <2>1. field' = field /\ of' = of /\ clusters' = clusters /\ missing' = missing
    BY <1>2 DEF ClusterNext, Classify, Join, JoinEnd, Find, Gather, Gathered, GatherEnd, workVars
  <2>2. stage' # "done"
    BY <1>2 DEF ClusterNext, Classify, Join, JoinEnd, Find, Gather, Gathered, GatherEnd, workVars
  <2>3. of' = "facets" => SamplesAreParted(clusters)' /\ ClustersFine(clusters)'
    BY <2>1, SamplesSame DEF AnswerInv
  <2>4. QED
    BY <2>2, <2>3 DEF AnswerInv
<1>3. QED
  BY <1>1, <1>2

\* Every step of a clustering keeps what stands.
LEMMA StandingNext ==
  ASSUME Standing, ClusterNext
  PROVE  Standing'
<1>1. InputOK'
  <2>1. field' = field /\ (of' = of \/ of' = "facets")
    BY DEF ClusterNext, Classify, Join, JoinEnd, Find, Gather, Gathered, GatherEnd, Fold, workVars
  <2>2. QED
    BY <2>1 DEF Standing, InputOK, IsField
<1>2. IInv' /\ Rooted' /\ JoinInv' /\ GatherInv'
  BY ClusterForest, JoinInvNext, GatherInvNext
<1>3. QED
  BY <1>1, <1>2 DEF Standing

\* Between clusterings nothing is in the middle of one; the field to be read is
\* one that may be.
FilesInv ==
  /\ {"field", "program"} \subseteq DOMAIN disk /\ \A r \in DOMAIN disk : MayHold(r, disk[r])
  /\ phase # "cluster" => stage \in {"idle", "done"}

\* The inductive invariant of ClustersAreComponents and of SpeaksForAll.
VInv == Standing /\ AnswerInv /\ FilesInv

\* What does not touch the clustering leaves it as it is.
LEMMA StandingSame ==
  ASSUME Standing, AnswerInv, UNCHANGED vars
  PROVE  Standing' /\ AnswerInv'
<1>1. UNCHANGED forestVars /\ UNCHANGED <<field, stage, of, points, edges, slot, groups, clusters, missing>>
  BY DEF vars, workVars
<1>2. IInv' /\ Rooted'
  BY <1>1, NextInv, RootedNext DEF Standing
<1>3. parent' = parent /\ pair' = pair /\ first' = first /\ node' = node /\ joined' = joined
  BY <1>1 DEF forestVars
<1>4. Kept' = Kept /\ Slots' = Slots
  BY <1>1, <1>3, SameInput DEF Slots
<1>5. InputOK'
  BY <1>1 DEF Standing, InputOK, IsField
<1>6. JoinInv'
  BY <1>1, <1>3, <1>4 DEF Standing, JoinInv, NoWalk, Uniting
<1>7. GatherInv'
  <2>1. CASE stage \in {"gather", "fold"}
    <3>1. PICK root : /\ RootMap(root) /\ GroupsOf(root)
                      /\ node # None => slot < Len(points) /\ root[node] = root[slot]
      BY <2>1 DEF Standing, GatherInv
    <3>2. RootMap(root)' /\ GroupsOf(root)'
      BY <1>1, <1>3, <1>4, <3>1, RootsKept DEF GroupsOf
    <3>3. QED
      BY <1>1, <1>3, <2>1, <3>1, <3>2 DEF Standing, GatherInv
  <2>2. CASE stage \notin {"gather", "fold"}
    BY <1>1, <2>2 DEF Standing, GatherInv
  <2>3. QED
    BY <2>1, <2>2
<1>8. AnswerInv'
  <2>1. of' = "facets" => SamplesAreParted(clusters)' /\ ClustersFine(clusters)'
    BY <1>1, SamplesSame DEF AnswerInv
  <2>2. stage' = "done" => FacetsAreParted(missing)' /\ MissingFine(missing)'
    BY <1>1, FacetsSame DEF AnswerInv
  <2>3. QED
    BY <1>1, <2>1, <2>2 DEF AnswerInv
<1>9. QED
  BY <1>2, <1>5, <1>6, <1>7, <1>8 DEF Standing

\* A clustering begins on a field that may be read, at rest.
LEMMA ReadInv ==
  ASSUME VInv, Read
  PROVE  VInv'
<1>1. /\ phase = "read" /\ field' = disk.field /\ disk.field # Bad /\ stage' = "classify" /\ of' = "samples"
      /\ UNCHANGED forestVars /\ phase' = "cluster" /\ disk' = disk
  BY DEF Read, At, Refused
<1>2. stage \in {"idle", "done"} /\ NoWalk
  BY <1>1 DEF VInv, FilesInv, Standing, JoinInv
<1>3. IInv' /\ Rooted'
  BY <1>1, NextInv, RootedNext DEF VInv, Standing
<1>4. InputOK'
  <2>1. MayHold("field", disk["field"])
    BY DEF VInv, FilesInv
  <2>2. IsField(field')
    BY <1>1, <2>1, ClusteringAssumption DEF MayHold
  <2>3. QED
    BY <1>1, <2>2 DEF InputOK, IsField
<1>5. JoinInv' /\ GatherInv'
  BY <1>1, <1>2 DEF JoinInv, GatherInv, NoWalk, forestVars
<1>6. AnswerInv' /\ FilesInv'
  BY <1>1 DEF AnswerInv, FilesInv, VInv
<1>7. QED
  BY <1>3, <1>4, <1>5, <1>6 DEF VInv, Standing

\* A file is rewritten to what it may hold.
LEMMA EditInv ==
  ASSUME FilesInv, Edit
  PROVE  {"field", "program"} \subseteq DOMAIN disk' /\ \A r \in DOMAIN disk' : MayHold(r, disk'[r])
<1>1. CASE disk' = disk
  BY <1>1 DEF FilesInv
<1>2. CASE disk' # disk
  <2>1. PICK r \in DOMAIN Contents, c \in UNION {Contents[q] : q \in DOMAIN Contents} :
          c \in Contents[r] /\ disk' = [disk EXCEPT ![r] = c]
    BY <1>2 DEF Edit
  <2>2. MayHold(r, c)
    BY <2>1, VerifyAssumption
  <2>3. QED
    BY <2>1, <2>2 DEF FilesInv
<1>3. QED
  BY <1>1, <1>2

\* It holds at the start.
LEMMA VerifyInvInit == VerifyInit => VInv
<1> SUFFICES ASSUME VerifyInit PROVE VInv
  OBVIOUS
<1>1. ClusterInit /\ phase = "read" /\ \E w \in Worlds : disk = w.disk
  BY DEF VerifyInit
<1>2. /\ field = [samples |-> <<>>, facets |-> <<>>] /\ stage = "idle" /\ of = "samples"
      /\ parent = <<>> /\ rank = <<>> /\ joined = {} /\ NoWalk
  BY <1>1 DEF ClusterInit
<1>3. InputOK
  <2>1. field.samples = <<>> /\ field.facets = <<>>
    BY <1>2
  <2>2. QED
    BY <1>2, <2>1, UnionFindAssumption DEF InputOK, IsField
<1>4. parent = [s \in 0 .. 0 - 1 |-> s] /\ rank = [s \in 0 .. 0 - 1 |-> 0] /\ Slots = {} /\ 0 \in 0 .. MaxSlots
  BY <1>2, UnionFindAssumption DEF Slots
<1>5. IInv
  BY <1>2, <1>4, SingleSlots
<1>6. Rooted
  <2> DEFINE id == [s \in {} |-> s]
  <2>1. RootMap(id)
    BY <1>4 DEF RootMap
  <2>2. QED
    BY <2>1 DEF Rooted
<1>7. JoinInv /\ GatherInv /\ AnswerInv
  BY <1>2 DEF JoinInv, GatherInv, AnswerInv
<1>8. FilesInv
  BY <1>1, <1>2, VerifyAssumption DEF FilesInv
<1>9. QED
  BY <1>3, <1>5, <1>6, <1>7, <1>8 DEF VInv, Standing

\* Every step of a verification keeps it.
LEMMA VerifyInvNext == VInv /\ [VerifyNext]_allVars => VInv'
<1> SUFFICES ASSUME VInv, [VerifyNext]_allVars PROVE VInv'
  OBVIOUS
<1>1. CASE Read
  BY <1>1, ReadInv
<1>2. CASE Clustered
  <2>1. ClusterNext /\ phase = "cluster" /\ UNCHANGED verifyVars
    BY <1>2 DEF Clustered, At
  <2>2. Standing' /\ AnswerInv'
    BY <2>1, StandingNext, AnswerInvNext DEF VInv
  <2>3. FilesInv'
    BY <2>1 DEF VInv, FilesInv, verifyVars
  <2>4. QED
    BY <2>2, <2>3 DEF VInv
<1>3. CASE Edit
  <2>1. UNCHANGED vars /\ phase' = phase
    BY <1>3 DEF Edit
  <2>2. Standing' /\ AnswerInv' /\ stage' = stage
    BY <2>1, StandingSame DEF VInv, vars, workVars
  <2>3. {"field", "program"} \subseteq DOMAIN disk' /\ \A r \in DOMAIN disk' : MayHold(r, disk'[r])
    BY <1>3, EditInv DEF VInv
  <2>4. QED
    BY <2>1, <2>2, <2>3 DEF VInv, FilesInv
<1>4. CASE \/ Identify \/ Attribute \/ Hash \/ Fails \/ Collide \/ Report \/ report_diff
           \/ VerifyDone \/ UNCHANGED allVars
  <2>1. UNCHANGED vars /\ disk' = disk
    BY <1>4 DEF Identify, Attribute, Hash, Fails, Fail, Collide, Report, report_diff, VerifyDone, allVars, verifyVars
  <2>2. Standing' /\ AnswerInv' /\ stage' = stage
    BY <2>1, StandingSame DEF VInv, vars, workVars
  <2>3. phase' # "cluster" => phase # "cluster" \/ stage = "done"
    BY <1>4 DEF Identify, Attribute, Hash, Fails, Fail, Finish, Collide, Report, report_diff, VerifyDone, allVars,
      verifyVars, At
  <2>4. QED
    BY <2>1, <2>2, <2>3 DEF VInv, FilesInv
<1>5. QED
  BY <1>1, <1>2, <1>3, <1>4 DEF VerifyNext, Proceed

\* It is an invariant.
LEMMA VerifyInv == VerifySpec => []VInv
BY VerifyInvInit, VerifyInvNext, PTL DEF VerifySpec

\* The clusters are the connected components of what is alike and within the
\* radius: of the samples out of tolerance those `cluster` returns, of the facets
\* that no sample was measured to those `unsampled` returns, whatever the grid,
\* the order of the unions and the shape of the forest.
THEOREM ClustersAreComponentsHolds == VerifySpec => []ClustersAreComponents
<1>1. VInv => ClustersAreComponents
  BY DEF VInv, AnswerInv, ClustersAreComponents
<1>2. QED
  BY VerifyInv, <1>1, PTL

\* What each cluster of samples says is said of all its members: its worst depth
\* is the deepest, its box the smallest around them, the places `probe_points`
\* hands to attribution begin with the deepest, are theirs and are all of them
\* when there are few; and `sort_canonically` lists the clusters of a class
\* worst first.
THEOREM SpeaksForAllHolds == VerifySpec => []SpeaksForAll
<1>1. VInv => SpeaksForAll
  BY DEF VInv, AnswerInv, ClustersFine, AllSpeak, SpeaksForAll
<1>2. QED
  BY VerifyInv, <1>1, PTL

-------------------------------------------------------------------------------
\* What the verdict rests on.

\* Some sample is deeper than the tolerance.
Gouged(f) == \E s \in Range(f.samples) : s.signed < -Tolerance

\* A replay was made and met nothing.
Clear(x) == x # None /\ \A h \in Range(x.hits) : h.contact = "near-miss"

\* What the gouge gate looks for.
HasGouge(found) == \E i \in DOMAIN found : found[i].class = "gouge"

\* What the gouge gate reads is whether the field is gouged, and what the
\* collision gate says is whether a replay met nothing.
JudgeInv ==
  turn < 3 =>
    /\ phase \in {"attribute", "manifest", "collide", "report"} =>
         /\ \A i \in DOMAIN findings : "class" \in DOMAIN findings[i]
         /\ HasGouge(findings) <=> Gouged(field)
    /\ phase = "report" => (gate = "pass" <=> Clear(replayed))

\* What PassIsEarned says of a result but for its report.
ResultFine(r) ==
  /\ r.exit \in 0 .. 2
  /\ r.exit = 0 => ~Gouged(r.field) /\ Clear(r.replayed)
  /\ r.exit = 1 => Gouged(r.field) \/ ~Clear(r.replayed)

\* There is a result of every turn that is over, and a report of none that failed.
ResultsInv ==
  /\ turn \in 1 .. 4 /\ DOMAIN files = 1 .. 2
  /\ \E S : results \in Seq(S)
  /\ Len(results) \in 0 .. 2 /\ (turn < 4 => Len(results) = turn - 1)
  /\ \A i \in DOMAIN results : ResultFine(results[i])
  /\ \A i \in DOMAIN files : files[i] # None => i \in DOMAIN results /\ results[i].exit # 2

\* Clustering finds a gouge if and only if there is one.
LEMMA GougesFound ==
  ASSUME Standing, AnswerInv, stage = "done"
  PROVE  HasGouge(clusters \o missing) <=> Gouged(field)
<1>0. IsField(field) /\ SamplesAreParted(clusters) /\ ClustersFine(clusters) /\ MissingFine(missing)
  BY DEF Standing, InputOK, AnswerInv
<1>1. PICK m \in Nat : AllTyped(clusters, m) /\ clusters = [i \in 1 .. m |-> clusters[i]]
  BY <1>0 DEF ClustersFine, IsList
<1>2. PICK n \in Nat : AllTyped(missing, n) /\ missing = [i \in 1 .. n |-> missing[i]]
  BY <1>0 DEF MissingFine, IsList
<1>3. PICK both : both = clusters \o missing
  OBVIOUS
<1>4. /\ DOMAIN both = 1 .. m + n
      /\ \A i \in 1 .. m + n : both[i] = IF i <= m THEN clusters[i] ELSE missing[i - m]
  <2>1. PICK S : S = Range(clusters) \cup Range(missing)
    OBVIOUS
  <2>2. clusters \in Seq(S) /\ Len(clusters) = m
    BY <1>1, <2>1 DEF Range, AllTyped
  <2>3. missing \in Seq(S) /\ Len(missing) = n
    BY <1>2, <2>1 DEF Range, AllTyped
  <2>4. QED
    BY <1>3, <2>2, <2>3
<1>5. \A i \in DOMAIN field.samples : field.samples[i].signed \in Int
  <2>1. \A i \in DOMAIN field.samples : field.samples[i] \in Sample
    BY <1>0 DEF IsField
  <2>2. QED
    BY <2>1 DEF Sample
<1>6. \A x \in DOMAIN field.samples : classify(field.samples[x]) = "gouge" <=> field.samples[x].signed < -Tolerance
  <2>1. SUFFICES ASSUME NEW x \in DOMAIN field.samples
                 PROVE  classify(field.samples[x]) = "gouge" <=> field.samples[x].signed < -Tolerance
    OBVIOUS
  <2>2. PICK d \in Int : d = field.samples[x].signed
    BY <1>5
  <2>3. classify(field.samples[x]) = CASE d <= Tolerance /\ -d <= Tolerance -> None
                                     [] d < -Tolerance -> "gouge"
                                     [] d > Tolerance -> "excess-stock"
    BY <2>2 DEF classify
  <2>4. QED
    BY <2>2, <2>3, ClusteringAssumption
<1>7. ASSUME HasGouge(both) PROVE Gouged(field)
  <2>1. PICK i \in 1 .. m + n : both[i].class = "gouge"
    BY <1>4, <1>7 DEF HasGouge
  <2>2. i <= m
    <3>1. i > m => i - m \in DOMAIN missing
      BY <1>2 DEF AllTyped
    <3>2. QED
      BY <1>0, <1>4, <2>1, <3>1 DEF MissingFine
  <2>3. i \in DOMAIN clusters /\ clusters[i].class = "gouge" /\ ClusterTyped(clusters[i])
    BY <1>1, <1>4, <2>1, <2>2 DEF AllTyped
  <2>4. clusters[i].members[1] \in Range(clusters[i].members)
    <3>1. clusters[i].members \in Seq(Nat) /\ clusters[i].members # <<>>
      BY <2>3 DEF ClusterTyped
    <3>2. QED
      BY <3>1 DEF Range
  <2>5. PICK x \in DOMAIN field.samples : classify(field.samples[x]) = "gouge"
    BY <1>0, <2>3, <2>4 DEF ClustersFine
  <2>6. QED
    BY <1>6, <2>5 DEF Gouged, Range
<1>8. ASSUME Gouged(field) PROVE HasGouge(both)
  <2>1. PICK x \in DOMAIN field.samples : field.samples[x].signed < -Tolerance
    BY <1>8 DEF Gouged, Range
  <2>2. x \in {i \in DOMAIN field.samples : Abs(field.samples[i].signed) > Tolerance}
    BY <1>5, <2>1, ClusteringAssumption DEF Abs
  <2>3. x \in UNION {Range(c.members) : c \in Range(clusters)}
    BY <1>0, <2>2 DEF SamplesAreParted, IsPartition
  <2>4. PICK i \in DOMAIN clusters : x \in Range(clusters[i].members)
    BY <2>3 DEF Range
  <2>5. clusters[i].class = "gouge"
    BY <1>0, <1>6, <2>1, <2>4 DEF ClustersFine
  <2>6. i \in 1 .. m
    BY <1>1 DEF AllTyped
  <2>7. QED
    BY <1>4, <2>5, <2>6 DEF HasGouge
<1>9. QED
  BY <1>3, <1>7, <1>8

\* The clusters of both passes, one list after the other.
LEMMA BothTyped ==
  ASSUME AnswerInv, stage = "done"
  PROVE  \E k \in Nat : AllTyped(clusters \o missing, k)
<1>0. ClustersFine(clusters) /\ MissingFine(missing)
  BY DEF AnswerInv
<1>1. PICK m \in Nat : AllTyped(clusters, m) /\ clusters = [i \in 1 .. m |-> clusters[i]]
  BY <1>0 DEF ClustersFine, IsList
<1>2. PICK n \in Nat : AllTyped(missing, n) /\ missing = [i \in 1 .. n |-> missing[i]]
  BY <1>0 DEF MissingFine, IsList
<1>3. PICK both : both = clusters \o missing
  OBVIOUS
<1>4. AllTyped(both, m + n) /\ m + n \in Nat
  <2>1. PICK S : S = Range(clusters) \cup Range(missing)
    OBVIOUS
  <2>2. clusters \in Seq(S) /\ Len(clusters) = m
    BY <1>1, <2>1 DEF Range, AllTyped
  <2>3. missing \in Seq(S) /\ Len(missing) = n
    BY <1>2, <2>1 DEF Range, AllTyped
  <2>4. /\ DOMAIN both = 1 .. m + n
        /\ \A i \in 1 .. m + n : both[i] = IF i <= m THEN clusters[i] ELSE missing[i - m]
    BY <1>3, <2>2, <2>3
  <2>5. ASSUME NEW i \in 1 .. m + n PROVE ClusterTyped(both[i])
    <3>1. CASE i <= m
      <4>1. both[i] = clusters[i] /\ i \in 1 .. m
        BY <2>4, <3>1
      <4>2. QED
        BY <1>1, <4>1 DEF AllTyped
    <3>2. CASE ~(i <= m)
      <4>1. both[i] = missing[i - m] /\ i - m \in 1 .. n
        BY <2>4, <3>2
      <4>2. QED
        BY <1>2, <4>1 DEF AllTyped
    <3>3. QED
      BY <3>1, <3>2
  <2>6. QED
    BY <2>4, <2>5 DEF AllTyped
<1>5. QED
  BY <1>3, <1>4

\* Sorting and naming lose none.
LEMMA IdentifyKeeps ==
  ASSUME Standing, AnswerInv, stage = "done", NEW named, named = identify(sort_canonically(clusters \o missing), Radius)
  PROVE  /\ \A i \in DOMAIN named : "class" \in DOMAIN named[i]
         /\ HasGouge(named) <=> Gouged(field)
<1>3. PICK both : both = clusters \o missing
  OBVIOUS
<1>4. PICK k \in Nat : AllTyped(both, k)
  BY <1>3, BothTyped
<1>5. PICK sorted : sorted = sort_canonically(both)
  OBVIOUS
<1>6. DOMAIN sorted = 1 .. k /\ \E p : Permutes(p, k) /\ \A i \in 1 .. k : sorted[i] = both[p[i]]
  BY <1>4, <1>5, SortKeeps DEF AllTyped
<1>7. PICK p : Permutes(p, k) /\ \A i \in 1 .. k : sorted[i] = both[p[i]]
  BY <1>6
<1>8. HasGouge(sorted) <=> HasGouge(both)
  <2>2. /\ p \in [1 .. k -> 1 .. k] /\ \A j \in 1 .. k : \E i \in 1 .. k : p[i] = j
        /\ \A i \in 1 .. k : sorted[i] = both[p[i]]
        /\ DOMAIN sorted = 1 .. k /\ DOMAIN both = 1 .. k
    BY <1>4, <1>6, <1>7 DEF Permutes, AllTyped
  <2>3. ASSUME NEW i \in 1 .. k, sorted[i].class = "gouge" PROVE \E j \in 1 .. k : both[j].class = "gouge"
    <3>1. p[i] \in 1 .. k /\ both[p[i]] = sorted[i]
      BY <2>2
    <3>2. QED
      BY <2>3, <3>1
  <2>4. ASSUME NEW j \in 1 .. k, both[j].class = "gouge" PROVE \E i \in 1 .. k : sorted[i].class = "gouge"
    <3>1. PICK i \in 1 .. k : p[i] = j
      BY <2>2
    <3>2. sorted[i] = both[j]
      BY <2>2, <3>1
    <3>3. QED
      BY <2>4, <3>2
  <2>5. QED
    BY <2>2, <2>3, <2>4 DEF HasGouge
<1>9. /\ DOMAIN named = DOMAIN sorted
      /\ \A i \in DOMAIN sorted : named[i].class = sorted[i].class /\ "class" \in DOMAIN named[i]
  BY <1>3, <1>5 DEF identify
<1>10. QED
  BY <1>3, <1>8, <1>9, GougesFound DEF HasGouge

\* The collision gate passes if and only if a replay met nothing.
LEMMA CollideTells ==
  ASSUME FilesInv, Collide
  PROVE  gate' = "pass" <=> Clear(replayed')
<1>1. CASE NotReplayed
  BY <1>1 DEF Collide, Clear
<1>2. CASE ~NotReplayed
  <2>1. Resolves
    BY <1>2 DEF NotReplayed
  <2>2. PICK raw : raw = disk.program.hits[Tool(disk.program)]
    OBVIOUS
  <2>3. raw \in Seq(Hit)
    <3>1. MayHold("program", disk["program"])
      BY DEF FilesInv
    <3>2. disk.program # Bad /\ Tool(disk.program) \in DOMAIN disk.program.reach
      BY <2>1 DEF Resolves
    <3>3. QED
      BY <2>2, <3>1, <3>2 DEF MayHold
  <2>4. PICK kinds : kinds = disk.program.kinds
    OBVIOUS
  <2>5. gate' = collision_gate(assemble(raw, kinds, Radius)) /\ replayed' = [hits |-> raw]
    BY <1>2, <2>2, <2>4 DEF Collide
  <2>6. gate' = "pass" <=> \A i \in DOMAIN raw : ~is_collision(raw[i])
    BY <2>3, <2>5, AssembleTells
  <2>7. replayed' # None
    <3>1. [hits |-> raw] \in [hits : Seq(Hit)]
      BY <2>3
    <3>2. QED
      BY <2>5, <3>1, VerifyAssumption
  <2>8. \A i \in DOMAIN raw : ~is_collision(raw[i]) <=> raw[i].contact = "near-miss"
    <3>1. \A i \in DOMAIN raw : raw[i] \in Hit
      BY <2>3
    <3>2. QED
      BY <3>1 DEF Hit, is_collision
  <2>9. replayed'.hits = raw
    BY <2>5
  <2>10. QED
    BY <2>6, <2>7, <2>8, <2>9 DEF Clear, Range
<1>3. QED
  BY <1>1, <1>2

\* Every step of a run keeps what the gates rest on.
LEMMA JudgeInvNext ==
  ASSUME VInv, JudgeInv, Proceed
  PROVE  JudgeInv'
<1>1. CASE Read \/ Clustered \/ Fails \/ Report \/ report_diff
  <2>1. (turn < 3)' => phase' \in {"read", "cluster"}
    BY <1>1 DEF Read, Clustered, At, verifyVars, Fails, Fail, Finish, Report, report_diff
  <2>2. QED
    BY <2>1 DEF JudgeInv
<1>2. CASE Identify
  <2>1. /\ stage = "done" /\ findings' = identify(sort_canonically(clusters \o missing), Radius)
        /\ phase' = "attribute" /\ field' = field
    BY <1>2 DEF Identify, vars, workVars
  <2>2. PICK named : named = identify(sort_canonically(clusters \o missing), Radius)
    OBVIOUS
  <2>3. /\ \A i \in DOMAIN named : "class" \in DOMAIN named[i]
        /\ HasGouge(named) <=> Gouged(field)
    BY <2>1, <2>2, IdentifyKeeps DEF VInv
  <2>4. QED
    BY <2>1, <2>2, <2>3 DEF JudgeInv, HasGouge, Gouged
<1>3. CASE Attribute
  <2>1. /\ turn < 3 /\ phase = "attribute" /\ phase' = "manifest" /\ field' = field /\ turn' = turn
        /\ findings' = [i \in DOMAIN findings |->
             LET f == findings[i]
             IN  IF Request.path /\ f.class \in {"gouge", "excess-stock"}
                 THEN [f EXCEPT !.segments = attribute_finding(disk.program, f)]
                 ELSE f]
    BY <1>3 DEF Attribute, At, vars, workVars
  <2>2. /\ \A i \in DOMAIN findings : "class" \in DOMAIN findings[i]
        /\ HasGouge(findings) <=> Gouged(field)
    BY <2>1 DEF JudgeInv
  <2>3. DOMAIN findings' = DOMAIN findings
    BY <2>1
  <2>4. ASSUME NEW i \in DOMAIN findings
        PROVE  "class" \in DOMAIN findings'[i] /\ findings'[i].class = findings[i].class
    <3>1. PICK f : f = findings[i]
      OBVIOUS
    <3>2. PICK at : at = attribute_finding(disk.program, f)
      OBVIOUS
    <3>3. findings'[i] = f \/ findings'[i] = [f EXCEPT !.segments = at]
      BY <2>1, <3>1, <3>2
    <3>4. "class" \in DOMAIN f
      BY <2>2, <3>1
    <3>5. QED
      BY <3>1, <3>3, <3>4
  <2>5. QED
    BY <2>1, <2>2, <2>3, <2>4 DEF JudgeInv, HasGouge, Gouged
<1>4. CASE Hash
  <2>1. /\ turn < 3 /\ phase = "manifest" /\ phase' = "collide" /\ field' = field /\ turn' = turn
        /\ findings' = findings
    BY <1>4 DEF Hash, At, vars, workVars
  <2>2. QED
    BY <2>1 DEF JudgeInv, HasGouge, Gouged
<1>5. CASE Collide
  <2>1. /\ turn < 3 /\ phase = "collide" /\ phase' = "report" /\ field' = field /\ turn' = turn
        /\ findings' = findings
    BY <1>5 DEF Collide, At, vars, workVars
  <2>2. gate' = "pass" <=> Clear(replayed')
    BY <1>5, CollideTells DEF VInv
  <2>3. Clear(replayed)' <=> Clear(replayed')
    BY DEF Clear
  <2>4. QED
    BY <2>1, <2>2, <2>3 DEF JudgeInv, HasGouge, Gouged
<1>6. QED
  BY <1>1, <1>2, <1>3, <1>4, <1>5 DEF Proceed

\* What touches none of it keeps it.
LEMMA JudgeInvSame ==
  ASSUME JudgeInv, UNCHANGED <<turn, phase, field, findings, gate, replayed>>
  PROVE  JudgeInv'
BY DEF JudgeInv, HasGouge, Gouged, Clear

\* A turn ends with one more result.
LEMMA FinishInv ==
  ASSUME ResultsInv, turn \in {1, 2}, NEW exit, NEW report, Finish(exit, report),
         ResultFine([exit |-> exit, report |-> report, field |-> field, replayed |-> replayed]),
         DOMAIN files' = 1 .. 2,
         \A i \in 1 .. 2 : files'[i] # None => files[i] # None \/ (i = turn /\ exit # 2)
  PROVE  ResultsInv'
<1>1. PICK r : r = [exit |-> exit, report |-> report, field |-> field, replayed |-> replayed]
  OBVIOUS
<1>2. ResultFine(r) /\ r.exit = exit /\ results' = Append(results, r) /\ turn' = turn + 1
  BY <1>1 DEF Finish
<1>3. PICK S : results \in Seq(S)
  BY DEF ResultsInv
<1>4. PICK T : T = S \cup {r}
  OBVIOUS
<1>5. results \in Seq(T) /\ r \in T
  BY <1>3, <1>4
<1>6. Len(results) = turn - 1
  BY DEF ResultsInv
<1>7. /\ results' \in Seq(T) /\ Len(results') = turn
      /\ \A i \in 1 .. turn : results'[i] = IF i < turn THEN results[i] ELSE r
      /\ DOMAIN results = 1 .. turn - 1 /\ DOMAIN results' = 1 .. turn
  BY <1>2, <1>5, <1>6
<1>8. \A i \in 1 .. turn : ResultFine(results'[i])
  <2>1. ASSUME NEW i \in 1 .. turn PROVE ResultFine(results'[i])
    <3>1. CASE i < turn
      <4>1. i \in DOMAIN results /\ results'[i] = results[i]
        BY <1>7, <3>1
      <4>2. ResultFine(results[i])
        BY <4>1 DEF ResultsInv
      <4>3. QED
        BY <4>1, <4>2
    <3>2. CASE ~(i < turn)
      BY <1>2, <1>7, <3>2
    <3>3. QED
      BY <3>1, <3>2
  <2>2. QED
    BY <2>1
<1>9. ASSUME NEW i \in 1 .. 2, files'[i] # None
      PROVE  i \in 1 .. turn /\ results'[i].exit # 2
  <2>1. CASE files[i] # None
    <3>1. i \in 1 .. turn - 1 /\ results[i].exit # 2
      BY <1>7, <2>1 DEF ResultsInv
    <3>2. results'[i] = results[i] /\ i \in 1 .. turn
      BY <1>7, <3>1
    <3>3. QED
      BY <3>1, <3>2
  <2>2. CASE i = turn /\ exit # 2
    BY <1>2, <1>7, <2>2
  <2>3. QED
    BY <1>9, <2>1, <2>2
<1>10. \A i \in 1 .. turn : ResultFine(results[i])'
  <2>1. \A i \in 1 .. turn : ResultFine(results[i])' <=> ResultFine(results'[i])
    BY <1>2 DEF ResultFine, Gouged, Clear
  <2>2. QED
    BY <1>8, <2>1
<1>11. QED
  BY <1>2, <1>7, <1>9, <1>10 DEF ResultsInv

\* A report keeps it: exit 0 if and only if both gates pass.
LEMMA ReportInv ==
  ASSUME VInv, JudgeInv, ResultsInv, Report
  PROVE  ResultsInv'
<1>1. turn < 3 /\ phase = "report" /\ turn \in {1, 2} /\ DOMAIN files = 1 .. 2
  BY DEF Report, At, ResultsInv
<1>2. (HasGouge(findings) <=> Gouged(field)) /\ (gate = "pass" <=> Clear(replayed))
  BY <1>1 DEF JudgeInv
<1>3. PICK report : report = [manifest |-> manifest, findings |-> findings, collisions |-> collisions,
                              gates |-> [gouge |-> gouge_gate(findings), collision |-> gate]]
  OBVIOUS
<1>4. pass(report.gates) <=> ~Gouged(field) /\ Clear(replayed)
  <2>1. report.gates = [gouge |-> gouge_gate(findings), collision |-> gate]
    BY <1>3
  <2>2. pass(report.gates) <=> gouge_gate(findings) = "pass" /\ gate = "pass"
    BY <2>1 DEF pass
  <2>3. gouge_gate(findings) = "pass" <=> ~HasGouge(findings)
    BY DEF gouge_gate, is_defect, HasGouge
  <2>4. QED
    BY <1>2, <2>2, <2>3
<1>5. CASE Request.out = "unwritable"
  <2>1. Finish(2, None) /\ files' = files
    BY <1>3, <1>5 DEF Report
  <2>2. ResultFine([exit |-> 2, report |-> None, field |-> field, replayed |-> replayed])
    BY DEF ResultFine
  <2>3. QED
    BY <1>1, <2>1, <2>2, FinishInv
<1>6. CASE Request.out # "unwritable"
  <2>1. PICK exit : exit = IF pass(report.gates) THEN 0 ELSE 1
    OBVIOUS
  <2>2. /\ Finish(exit, report)
        /\ files' = IF Request.out = None THEN files ELSE [files EXCEPT ![turn] = to_json(report)]
    BY <1>3, <1>6, <2>1 DEF Report
  <2>3. ResultFine([exit |-> exit, report |-> report, field |-> field, replayed |-> replayed])
    BY <1>4, <2>1 DEF ResultFine
  <2>4. DOMAIN files' = 1 .. 2 /\ \A i \in 1 .. 2 : files'[i] # None => files[i] # None \/ (i = turn /\ exit # 2)
    BY <1>1, <2>1, <2>2
  <2>5. QED
    BY <1>1, <2>2, <2>3, <2>4, FinishInv
<1>7. QED
  BY <1>5, <1>6

\* A step that ends no turn keeps it.
LEMMA ResultsInvSame ==
  ASSUME ResultsInv, results' = results, turn' \in 1 .. 4, turn' < 4 => turn' = turn, DOMAIN files' = 1 .. 2,
         \A i \in 1 .. 2 : files'[i] # None => files[i] # None
  PROVE  ResultsInv'
<1>1. \E S : results' \in Seq(S)
  BY DEF ResultsInv
<1>2. \A i \in DOMAIN results : ResultFine(results[i])'
  BY DEF ResultsInv, ResultFine, Gouged, Clear
<1>3. QED
  BY <1>1, <1>2 DEF ResultsInv

\* Every step keeps what the results say.
LEMMA ResultsInvNext ==
  ASSUME VInv, JudgeInv, ResultsInv, [VerifyNext]_allVars
  PROVE  ResultsInv'
<1>0. turn \in 1 .. 4 /\ DOMAIN files = 1 .. 2
  BY DEF ResultsInv
<1>1. CASE Report
  BY <1>1, ReportInv
<1>2. CASE Fails
  <2>1. turn < 3 /\ Finish(2, None) /\ files' = files
    BY <1>2 DEF Fails, Fail, At
  <2>2. ResultFine([exit |-> 2, report |-> None, field |-> field, replayed |-> replayed])
    BY DEF ResultFine
  <2>3. turn \in {1, 2}
    BY <1>0, <2>1
  <2>4. QED
    BY <1>0, <2>1, <2>2, <2>3, FinishInv
<1>3. CASE Edit
  <2>1. results' = results /\ turn' = turn
    BY <1>3 DEF Edit
  <2>2. \/ files' = files
        \/ \E i \in 1 .. 2 : /\ files[i] # None
                             /\ \/ files' = [files EXCEPT ![i].version = SCHEMA_VERSION + 1]
                                \/ \E g \in {"gouge", "collision"} :
                                     files' = [files EXCEPT ![i].report.gates[g] = "waived"]
    BY <1>3 DEF Edit
  <2>3. DOMAIN files' = 1 .. 2 /\ \A j \in 1 .. 2 : files'[j] # None => files[j] # None
    <3>1. CASE files' = files
      BY <1>0, <3>1
    <3>2. CASE \E i \in 1 .. 2 : files[i] # None /\ \E c : files' = [files EXCEPT ![i] = c]
      BY <1>0, <3>2
    <3>3. QED
      BY <2>2, <3>1, <3>2
  <2>4. QED
    BY <1>0, <2>1, <2>3, ResultsInvSame
<1>4. CASE report_diff
  BY <1>0, <1>4, ResultsInvSame DEF report_diff
<1>5. CASE Read \/ Clustered \/ Identify \/ Attribute \/ Hash \/ Collide \/ VerifyDone \/ UNCHANGED allVars
  <2>1. results' = results /\ turn' = turn /\ files' = files
    BY <1>5 DEF Read, Clustered, Identify, Attribute, Hash, Collide, VerifyDone, allVars, verifyVars
  <2>2. QED
    BY <1>0, <2>1, ResultsInvSame
<1>6. QED
  BY <1>1, <1>2, <1>3, <1>4, <1>5 DEF VerifyNext, Proceed

\* The inductive invariant of PassIsEarned.
PInv == VInv /\ JudgeInv /\ ResultsInv

\* It holds at the start.
LEMMA PInvInit == VerifyInit => PInv
<1> SUFFICES ASSUME VerifyInit PROVE PInv
  OBVIOUS
<1>1. turn = 1 /\ phase = "read" /\ results = <<>> /\ files = <<None, None>>
  BY DEF VerifyInit
<1>2. JudgeInv
  BY <1>1 DEF JudgeInv
<1>3. results \in Seq({})
  BY <1>1
<1>4. ResultsInv
  <2>1. DOMAIN results = {} /\ Len(results) = 0
    BY <1>1
  <2>2. DOMAIN files = 1 .. 2 /\ \A i \in 1 .. 2 : files[i] = None
    BY <1>1
  <2>3. QED
    BY <1>1, <1>3, <2>1, <2>2 DEF ResultsInv
<1>5. QED
  BY <1>2, <1>4, VerifyInvInit DEF PInv

\* Every step keeps it.
LEMMA PInvNext == PInv /\ [VerifyNext]_allVars => PInv'
<1> SUFFICES ASSUME PInv, [VerifyNext]_allVars PROVE PInv'
  OBVIOUS
<1>1. VInv' /\ ResultsInv'
  BY VerifyInvNext, ResultsInvNext DEF PInv
<1>2. JudgeInv'
  <2>1. CASE Proceed
    BY <2>1, JudgeInvNext DEF PInv
  <2>2. CASE Edit \/ VerifyDone \/ UNCHANGED allVars
    <3>1. UNCHANGED <<turn, phase, field, findings, gate, replayed>>
      BY <2>2 DEF Edit, VerifyDone, allVars, verifyVars, vars, workVars
    <3>2. QED
      BY <3>1, JudgeInvSame DEF PInv
  <2>3. QED
    BY <2>1, <2>2 DEF VerifyNext
<1>3. QED
  BY <1>1, <1>2 DEF PInv

\* Exit 0 is earned, exit 1 is deserved, and a run that was not completed leaves
\* no report, whatever the field, the requests and the edits: no gouge is lost
\* between the samples and the verdict, and none is made up.
THEOREM PassIsEarnedHolds == VerifySpec => []PassIsEarned
<1>1. PInv => PassIsEarned
  <2> SUFFICES ASSUME PInv PROVE PassIsEarned
    OBVIOUS
  <2>1. ASSUME NEW i \in DOMAIN results PROVE results[i].exit = 2 => files[i] = None
    <3>1. i \in DOMAIN files => (files[i] # None => results[i].exit # 2)
      BY DEF PInv, ResultsInv
    <3>2. i \in DOMAIN files
      <4>1. DOMAIN results = 1 .. Len(results) /\ Len(results) \in 0 .. 2 /\ DOMAIN files = 1 .. 2
        BY DEF PInv, ResultsInv
      <4>2. QED
        BY <4>1
    <3>3. QED
      BY <3>1, <3>2
  <2>2. QED
    BY <2>1 DEF PInv, ResultsInv, ResultFine, Gouged, Clear, PassIsEarned
<1>2. QED
  BY PInvInit, PInvNext, <1>1, PTL DEF VerifySpec

-------------------------------------------------------------------------------
\* What the names rest on.

\* Where a centroid lies in the grid.
CellAt(at) == <<at[1][1] \div (at[2] * Radius), at[1][2] \div (at[2] * Radius)>>

\* The findings before i of its class and in its cell.
Earlier(fs, i) == {j \in 1 .. i - 1 : fs[j].id[1] = fs[i].id[1] /\ fs[j].id[2] = fs[i].id[2]}

\* A list of findings, each named after its class, its cell and how many of both
\* come before it.
Named(fs) ==
  /\ \E n \in Nat : DOMAIN fs = 1 .. n /\ fs = [i \in 1 .. n |-> fs[i]]
  /\ \A i \in DOMAIN fs :
       /\ {"id", "class", "at", "worst", "segments"} \subseteq DOMAIN fs[i]
       /\ fs[i].id = <<fs[i].class, CellAt(fs[i].at), Cardinality(Earlier(fs, i))>>

(* No two findings of such a list have one name.                             *)
LEMMA NamedApart ==
  ASSUME NEW fs, Named(fs)
  PROVE  /\ \A i, j \in DOMAIN fs : fs[i].id = fs[j].id => i = j
         /\ Cardinality(Ids(fs)) = Len(fs)
<1>1. PICK n \in Nat : DOMAIN fs = 1 .. n /\ fs = [i \in 1 .. n |-> fs[i]]
  BY DEF Named
<1>2. PICK id : id = [i \in 1 .. n |-> fs[i].id]
  OBVIOUS
<1>3. \A i \in 1 .. n : id[i] = fs[i].id /\ id[i][3] = Cardinality(Earlier(fs, i))
  BY <1>1, <1>2 DEF Named
<1>4. ASSUME NEW i \in 1 .. n, NEW j \in 1 .. n, i < j, id[i] = id[j] PROVE FALSE
  <2>1. PICK B : B = Earlier(fs, j)
    OBVIOUS
  <2>0. fs[i].id = fs[j].id /\ i \in 1 .. j - 1 /\ 1 .. i - 1 \subseteq 1 .. j - 1 /\ i \notin 1 .. i - 1
    BY <1>3, <1>4
  <2>2. B \subseteq 1 .. j - 1 /\ i \in B
    BY <2>1, <2>0 DEF Earlier
  <2>3. IsFiniteSet(B)
    <3>1. IsFiniteSet(1 .. j - 1)
      BY FS_Interval
    <3>2. QED
      BY <2>2, <3>1, FS_Subset
  <2>4. Earlier(fs, i) \subseteq B /\ i \notin Earlier(fs, i)
    BY <2>1, <2>0 DEF Earlier
  <2>5. Cardinality(Earlier(fs, i)) < Cardinality(B)
    BY <2>2, <2>3, <2>4, FS_Subset, FS_CardinalityType
  <2>6. Cardinality(Earlier(fs, i)) = Cardinality(B)
    BY <1>3, <1>4, <2>1
  <2>7. Cardinality(B) \in Nat
    BY <2>3, FS_CardinalityType
  <2>8. QED
    BY <2>5, <2>6, <2>7
<1>5. \A i, j \in 1 .. n : id[i] = id[j] => i = j
  <2>1. \A i, j \in 1 .. n : i < j \/ i = j \/ j < i
    OBVIOUS
  <2>2. QED
    BY <1>4, <2>1
<1>6. PICK S : S = Ids(fs)
  OBVIOUS
<1>7. S = {id[i] : i \in 1 .. n}
  BY <1>1, <1>3, <1>6 DEF Ids
<1>8. Cardinality(S) = n
  <2>1. id \in [1 .. n -> S]
    BY <1>2, <1>7
  <2>2. id \in Bijection(1 .. n, S)
    <3>1. \A x \in S : \E i \in 1 .. n : id[i] = x
      BY <1>7
    <3>2. QED
      BY <1>5, <2>1, <3>1 DEF Bijection, Injection, Surjection, IsInjective
  <2>3. IsFiniteSet(1 .. n) /\ Cardinality(1 .. n) = n
    BY FS_Interval
  <2>4. ExistsBijection(1 .. n, S)
    BY <2>2 DEF ExistsBijection
  <2>5. Cardinality(S) = Cardinality(1 .. n)
    BY <2>3, <2>4, FS_Bijection
  <2>6. QED
    BY <2>3, <2>5
<1>9. Len(fs) = n
  <2>1. PICK S0 : S0 = {fs[i] : i \in 1 .. n}
    OBVIOUS
  <2>2. fs \in [1 .. n -> S0]
    BY <1>1, <2>1
  <2>3. fs \in Seq(S0)
    BY <2>2
  <2>4. QED
    BY <1>1, <2>3
<1>10. \A i, j \in DOMAIN fs : fs[i].id = fs[j].id => i = j
  BY <1>1, <1>3, <1>5
<1>11. Cardinality(Ids(fs)) = Len(fs)
  BY <1>6, <1>8, <1>9
<1>12. QED
  BY <1>10, <1>11

(* What is the only one of its class in its cell is the first.               *)
LEMMA AloneIsFirst ==
  ASSUME NEW fs, Named(fs), NEW i \in DOMAIN fs, AloneInCell(fs[i], fs)
  PROVE  fs[i].id = <<fs[i].class, CellAt(fs[i].at), 0>>
<1>1. Earlier(fs, i) = {}
  <2>1. SUFFICES ASSUME NEW j \in Earlier(fs, i) PROVE FALSE
    OBVIOUS
  <2>2. PICK n \in Nat : DOMAIN fs = 1 .. n
    BY DEF Named
  <2>3. j \in DOMAIN fs /\ j # i /\ fs[j].id[1] = fs[i].id[1] /\ fs[j].id[2] = fs[i].id[2]
    BY <2>1, <2>2 DEF Earlier
  <2>4. fs[j] = fs[i]
    BY <2>3 DEF AloneInCell
  <2>5. QED
    BY <2>3, <2>4, NamedApart
<1>2. Cardinality(Earlier(fs, i)) = 0
  BY <1>1, FS_EmptySet
<1>3. QED
  BY <1>2 DEF Named

(* A finding that has not moved and is alone before and after keeps its name. *)
LEMMA AloneKeepsName ==
  ASSUME NEW old, Named(old), NEW new, Named(new), NEW i \in DOMAIN old, NEW j \in DOMAIN new,
         SameFinding(old[i], new[j]), AloneInCell(old[i], old), AloneInCell(new[j], new)
  PROVE  old[i].id = new[j].id
<1>1. old[i].id = <<old[i].class, CellAt(old[i].at), 0>> /\ new[j].id = <<new[j].class, CellAt(new[j].at), 0>>
  BY AloneIsFirst
<1>2. QED
  BY <1>1 DEF SameFinding

(* What identify makes of a list is one.                                     *)
LEMMA IdentifyNames ==
  ASSUME NEW found, NEW n \in Nat, DOMAIN found = 1 .. n
  PROVE  Named(identify(found, Radius))
<1>1. PICK fs : fs = identify(found, Radius)
  OBVIOUS
<1>2. DOMAIN fs = 1 .. n /\ fs = [i \in 1 .. n |-> fs[i]]
  BY <1>1 DEF identify
<1>3. ASSUME NEW i \in 1 .. n
      PROVE  /\ {"id", "class", "at", "worst", "segments"} \subseteq DOMAIN fs[i]
             /\ fs[i].id = <<found[i].class, CellOf(found[i], Radius), Slot(found, Radius, i)>>
             /\ fs[i].class = found[i].class /\ fs[i].at = <<found[i].at, Len(found[i].members)>>
  BY <1>1 DEF identify, finding_id
<1>4. \A i \in 1 .. n : CellAt(fs[i].at) = CellOf(found[i], Radius)
  BY <1>3 DEF CellAt, CellOf
<1>5. ASSUME NEW i \in 1 .. n PROVE Slot(found, Radius, i) = Cardinality(Earlier(fs, i))
  <2>1. \A j \in 1 .. n : fs[j].id[1] = found[j].class /\ fs[j].id[2] = CellOf(found[j], Radius)
    BY <1>3
  <2>2. \A j \in 1 .. i - 1 : j \in 1 .. n
    OBVIOUS
  <2>3. Earlier(fs, i) = {j \in 1 .. i - 1 : /\ found[j].class = found[i].class
                                             /\ CellOf(found[j], Radius) = CellOf(found[i], Radius)}
    BY <2>1, <2>2 DEF Earlier
  <2>4. QED
    BY <2>3 DEF Slot
<1>6. Named(fs)
  BY <1>2, <1>3, <1>4, <1>5 DEF Named
<1>7. QED
  BY <1>1, <1>6

(* It stays one whatever is attributed.                                      *)
LEMMA AttributedNames ==
  ASSUME NEW fs, Named(fs), NEW out, DOMAIN out = DOMAIN fs, out = [i \in DOMAIN fs |-> out[i]],
         \A i \in DOMAIN fs : out[i] = fs[i] \/ \E s : out[i] = [fs[i] EXCEPT !.segments = s]
  PROVE  Named(out)
<1>1. PICK n \in Nat : DOMAIN fs = 1 .. n
  BY DEF Named
<1>2. ASSUME NEW i \in 1 .. n
      PROVE  /\ {"id", "class", "at", "worst", "segments"} \subseteq DOMAIN out[i]
             /\ out[i].id = fs[i].id /\ out[i].class = fs[i].class /\ out[i].at = fs[i].at
  <2>1. PICK f : f = fs[i]
    OBVIOUS
  <2>2. {"id", "class", "at", "worst", "segments"} \subseteq DOMAIN f
    BY <1>1, <2>1 DEF Named
  <2>3. out[i] = f \/ \E s : out[i] = [f EXCEPT !.segments = s]
    BY <1>1, <2>1
  <2>4. QED
    BY <2>1, <2>2, <2>3
<1>3. \A i \in 1 .. n : Earlier(out, i) = Earlier(fs, i)
  <2>1. ASSUME NEW i \in 1 .. n PROVE Earlier(out, i) = Earlier(fs, i)
    <3>1. \A j \in 1 .. i - 1 : j \in 1 .. n
      OBVIOUS
    <3>2. QED
      BY <1>2, <3>1 DEF Earlier
  <2>2. QED
    BY <2>1
<1>4. \A i \in 1 .. n : fs[i].id = <<fs[i].class, CellAt(fs[i].at), Cardinality(Earlier(fs, i))>>
  BY <1>1 DEF Named
<1>5. QED
  BY <1>1, <1>2, <1>3, <1>4 DEF Named

\* The states of a gate this build writes.
Words == {"pass", "fail", "unchecked"}

Gates == {"gouge", "collision"}

\* What a run holds before it reports.
FoundInv ==
  turn < 3 =>
    /\ phase \in {"attribute", "manifest", "collide", "report"} => Named(findings)
    /\ phase = "report" => gate \in Words

\* A completed run has a report, and its exit code is the report's verdict.
ReportFine(r) ==
  /\ Named(r.report.findings)
  /\ DOMAIN r.report.gates = Gates /\ \A g \in Gates : r.report.gates[g] \in Words
  /\ r.exit = IF pass(r.report.gates) THEN 0 ELSE 1

\* A file holds the report as it was written, but for its version and for gates
\* that another build waived.
FileFine(file, report) ==
  /\ file = [version |-> file.version, report |-> file.report]
  /\ file.report = [manifest |-> file.report.manifest, findings |-> Each(report.findings, finding_json),
                    collisions |-> file.report.collisions, gates |-> file.report.gates]
  /\ file.report.gates = [g \in Gates |-> file.report.gates[g]]
  /\ \A g \in Gates : file.report.gates[g] \in {report.gates[g], "waived"}

\* What the completed runs reported, and what became of it on disk.
ReportsInv ==
  /\ \A i \in DOMAIN results : results[i].exit # 2 => ReportFine(results[i])
  /\ \A i \in 1 .. 2 : files[i] # None =>
       /\ FileFine(files[i], results[i].report)
       /\ "report" \notin touched => files[i].report.gates = results[i].report.gates

\* What was told is what is to be told of the files.
ToldInv ==
  told # None =>
    /\ turn = 4 /\ told.exit \in 0 .. 2
    /\ told.exit # 2 =>
         /\ \A i \in 1 .. 2 : files[i] # None
         /\ told.exit = IF is_empty(diff(load_report(files[1]), load_report(files[2]))) THEN 0 ELSE 1

(* A run goes on with names and gates as they should be.                     *)
LEMMA FoundInvNext ==
  ASSUME VInv, FoundInv, Proceed
  PROVE  FoundInv'
<1>1. CASE Read \/ Clustered \/ Fails \/ Report \/ report_diff
  <2>1. (turn < 3)' => phase' \in {"read", "cluster"}
    BY <1>1 DEF Read, Clustered, At, verifyVars, Fails, Fail, Finish, Report, report_diff
  <2>2. QED
    BY <2>1 DEF FoundInv
<1>2. CASE Identify
  <2>1. /\ stage = "done" /\ findings' = identify(sort_canonically(clusters \o missing), Radius)
        /\ phase' = "attribute"
    BY <1>2 DEF Identify
  <2>2. PICK sorted : sorted = sort_canonically(clusters \o missing)
    OBVIOUS
  <2>3. \E n \in Nat : DOMAIN sorted = 1 .. n
    <3>1. PICK k \in Nat : AllTyped(clusters \o missing, k)
      BY <2>1, BothTyped DEF VInv
    <3>2. PICK both : both = clusters \o missing
      OBVIOUS
    <3>3. AllTyped(sorted, k)
      BY <2>2, <3>1, <3>2, SortKeeps
    <3>4. QED
      BY <3>3 DEF AllTyped
  <2>4. Named(identify(sorted, Radius))
    BY <2>3, IdentifyNames
  <2>5. PICK fs : fs = findings'
    OBVIOUS
  <2>6. Named(fs)
    BY <2>1, <2>2, <2>4, <2>5
  <2>7. Named(findings)' <=> Named(fs)
    BY <2>5 DEF Named, CellAt, Earlier
  <2>8. QED
    BY <2>1, <2>6, <2>7 DEF FoundInv
<1>3. CASE Attribute
  <2>1. /\ turn < 3 /\ phase = "attribute" /\ phase' = "manifest"
        /\ findings' = [i \in DOMAIN findings |->
             LET f == findings[i]
             IN  IF Request.path /\ f.class \in {"gouge", "excess-stock"}
                 THEN [f EXCEPT !.segments = attribute_finding(disk.program, f)]
                 ELSE f]
    BY <1>3 DEF Attribute, At
  <2>2. Named(findings)
    BY <2>1 DEF FoundInv
  <2>3. PICK out : out = findings'
    OBVIOUS
  <2>4. DOMAIN out = DOMAIN findings /\ out = [i \in DOMAIN findings |-> out[i]]
    BY <2>1, <2>3
  <2>5. ASSUME NEW i \in DOMAIN findings
        PROVE  out[i] = findings[i] \/ \E s : out[i] = [findings[i] EXCEPT !.segments = s]
    <3>1. out[i] = LET f == findings[i]
                   IN  IF Request.path /\ f.class \in {"gouge", "excess-stock"}
                       THEN [f EXCEPT !.segments = attribute_finding(disk.program, f)]
                       ELSE f
      BY <2>1, <2>3
    <3>2. PICK s : s = attribute_finding(disk.program, findings[i])
      OBVIOUS
    <3>3. out[i] = findings[i] \/ out[i] = [findings[i] EXCEPT !.segments = s]
      BY <3>1, <3>2
    <3>4. QED
      BY <3>3
  <2>6. Named(out)
    BY <2>2, <2>4, <2>5, AttributedNames
  <2>7. Named(findings)' <=> Named(out)
    BY <2>3 DEF Named, CellAt, Earlier
  <2>8. QED
    BY <2>1, <2>6, <2>7 DEF FoundInv
<1>4. CASE Hash
  <2>1. /\ turn < 3 /\ phase = "manifest" /\ phase' = "collide" /\ findings' = findings
    BY <1>4 DEF Hash, At
  <2>2. Named(findings)
    BY <2>1 DEF FoundInv
  <2>3. Named(findings)'
    BY <2>1, <2>2 DEF Named, CellAt, Earlier
  <2>4. QED
    BY <2>1, <2>3 DEF FoundInv
<1>5. CASE Collide
  <2>1. turn < 3 /\ phase = "collide" /\ phase' = "report" /\ findings' = findings
    BY <1>5 DEF Collide, At
  <2>2. Named(findings)
    BY <2>1 DEF FoundInv
  <2>3. Named(findings)'
    BY <2>1, <2>2 DEF Named, CellAt, Earlier
  <2>4. gate' = "unchecked" \/ \E found : gate' = collision_gate(found)
    BY <1>5 DEF Collide
  <2>5. gate' \in Words
    BY <2>4 DEF Words, collision_gate
  <2>6. QED
    BY <2>1, <2>3, <2>5 DEF FoundInv, Words
<1>6. QED
  BY <1>1, <1>2, <1>3, <1>4, <1>5 DEF Proceed

(* What touches none of it keeps it.                                         *)
LEMMA FoundInvSame ==
  ASSUME FoundInv, UNCHANGED <<turn, phase, findings, gate>>
  PROVE  FoundInv'
<1>1. Named(findings)' <=> Named(findings)
  BY DEF Named, CellAt, Earlier
<1>2. QED
  BY <1>1 DEF FoundInv, Words

(* A report is written as it is.                                             *)
LEMMA WrittenFine ==
  ASSUME NEW m, NEW fs, NEW cs, NEW gs, NEW report, NEW file,
         report = [manifest |-> m, findings |-> fs, collisions |-> cs, gates |-> gs],
         gs = [g \in Gates |-> gs[g]], file = to_json(report)
  PROVE  FileFine(file, report) /\ file.report.gates = report.gates
<1>1. PICK out : out = [report EXCEPT !.findings = Each(@, finding_json), !.collisions = Each(@, collision_json)]
  OBVIOUS
<1>2. file = [version |-> SCHEMA_VERSION, report |-> out]
  BY <1>1 DEF to_json
<1>3. PICK ef : ef = Each(report.findings, finding_json)
  OBVIOUS
<1>4. PICK ec : ec = Each(report.collisions, collision_json)
  OBVIOUS
<1>5. out = [manifest |-> m, findings |-> ef, collisions |-> ec, gates |-> gs]
  BY <1>1, <1>3, <1>4
<1>6. file.report = out /\ file.version = SCHEMA_VERSION
  BY <1>2
<1>7. file = [version |-> file.version, report |-> file.report]
  BY <1>2, <1>6
<1>8. file.report = [manifest |-> file.report.manifest, findings |-> ef,
                     collisions |-> file.report.collisions, gates |-> file.report.gates]
  BY <1>5, <1>6
<1>9. file.report.gates = gs /\ report.gates = gs
  BY <1>5, <1>6
<1>10. QED
  BY <1>3, <1>7, <1>8, <1>9 DEF FileFine

(* It stays so whatever another build makes of it.                           *)
LEMMA EditedFine ==
  ASSUME NEW file, NEW report, FileFine(file, report), NEW v, NEW g \in Gates
  PROVE  /\ FileFine([file EXCEPT !.version = v], report)
         /\ FileFine([file EXCEPT !.report.gates[g] = "waived"], report)
<1>1. PICK r : r = file.report
  OBVIOUS
<1>2. PICK gs : gs = r.gates
  OBVIOUS
<1>3. PICK ef : ef = Each(report.findings, finding_json)
  OBVIOUS
<1>4. /\ file = [version |-> file.version, report |-> r]
      /\ r = [manifest |-> r.manifest, findings |-> ef, collisions |-> r.collisions, gates |-> gs]
      /\ gs = [h \in Gates |-> gs[h]] /\ \A h \in Gates : gs[h] \in {report.gates[h], "waived"}
  BY <1>1, <1>2, <1>3 DEF FileFine
<1>5. FileFine([file EXCEPT !.version = v], report)
  <2>1. PICK f : f = [file EXCEPT !.version = v]
    OBVIOUS
  <2>2. f = [version |-> v, report |-> r]
    BY <1>4, <2>1
  <2>3. f.report = r /\ f = [version |-> f.version, report |-> f.report]
    BY <2>2
  <2>4. FileFine(f, report)
    BY <1>2, <1>3, <1>4, <2>3 DEF FileFine
  <2>5. QED
    BY <2>1, <2>4
<1>6. FileFine([file EXCEPT !.report.gates[g] = "waived"], report)
  <2>1. PICK f : f = [file EXCEPT !.report.gates[g] = "waived"]
    OBVIOUS
  <2>2. PICK hs : hs = [gs EXCEPT ![g] = "waived"]
    OBVIOUS
  <2>3. PICK s : s = [r EXCEPT !.gates = hs]
    OBVIOUS
  <2>4. f = [version |-> file.version, report |-> s]
    <3>1. f = [file EXCEPT !.report = s]
      BY <1>1, <1>2, <2>1, <2>2, <2>3
    <3>2. QED
      BY <1>4, <3>1
  <2>5. s = [manifest |-> r.manifest, findings |-> ef, collisions |-> r.collisions, gates |-> hs]
    BY <1>4, <2>3
  <2>6. hs = [h \in Gates |-> hs[h]] /\ \A h \in Gates : hs[h] \in {report.gates[h], "waived"}
    BY <1>4, <2>2
  <2>7. f.report = s /\ f = [version |-> f.version, report |-> f.report] /\ s.gates = hs
    BY <2>4, <2>5
  <2>8. s = [manifest |-> s.manifest, findings |-> ef, collisions |-> s.collisions, gates |-> s.gates]
    BY <2>5
  <2>9. FileFine(f, report)
    BY <1>3, <2>6, <2>7, <2>8 DEF FileFine
  <2>10. QED
    BY <2>1, <2>9
<1>7. QED
  BY <1>5, <1>6

(* One more result.                                                          *)
LEMMA OneMore ==
  ASSUME ResultsInv, turn \in {1, 2}, NEW r, results' = Append(results, r)
  PROVE  /\ DOMAIN results = 1 .. turn - 1 /\ DOMAIN results' = 1 .. turn
         /\ \A i \in 1 .. turn - 1 : results'[i] = results[i]
         /\ results'[turn] = r
         /\ \A i \in 1 .. 2 : files[i] # None => i \in 1 .. turn - 1
<1>1. PICK S : results \in Seq(S)
  BY DEF ResultsInv
<1>2. PICK T : T = S \cup {r}
  OBVIOUS
<1>3. results \in Seq(T) /\ r \in T /\ Len(results) = turn - 1
  BY <1>1, <1>2 DEF ResultsInv
<1>4. DOMAIN results = 1 .. turn - 1
  BY <1>3
<1>5. DOMAIN results' = 1 .. turn /\ results'[turn] = r /\ \A i \in 1 .. turn - 1 : results'[i] = results[i]
  BY <1>3
<1>6. \A i \in 1 .. 2 : files[i] # None => i \in 1 .. turn - 1
  BY <1>4 DEF ResultsInv
<1>7. QED
  BY <1>4, <1>5, <1>6

(* A turn that ends keeps it, when what it reports is fine.                  *)
LEMMA TurnReports ==
  ASSUME ResultsInv, ReportsInv, turn \in {1, 2}, touched' = touched, NEW exit, NEW report, Finish(exit, report),
         exit # 2 => ReportFine([exit |-> exit, report |-> report, field |-> field, replayed |-> replayed]),
         \/ files' = files
         \/ /\ files' = [files EXCEPT ![turn] = to_json(report)]
            /\ FileFine(to_json(report), report) /\ to_json(report).report.gates = report.gates
  PROVE  ReportsInv'
<1>1. PICK r : r = [exit |-> exit, report |-> report, field |-> field, replayed |-> replayed]
  OBVIOUS
<1>2. r.exit = exit /\ r.report = report /\ results' = Append(results, r)
  BY <1>1 DEF Finish
<1>3. /\ DOMAIN results = 1 .. turn - 1 /\ DOMAIN results' = 1 .. turn
      /\ \A i \in 1 .. turn - 1 : results'[i] = results[i]
      /\ results'[turn] = r
      /\ \A i \in 1 .. 2 : files[i] # None => i \in 1 .. turn - 1
  BY <1>2, OneMore
<1>4. DOMAIN files = 1 .. 2
  BY DEF ResultsInv
<1>5. ASSUME NEW i \in 1 .. turn, results'[i].exit # 2 PROVE ReportFine(results'[i])
  <2>1. CASE i < turn
    <3>1. i \in 1 .. turn - 1
      BY <2>1
    <3>2. ReportFine(results[i])
      BY <1>3, <1>5, <3>1 DEF ReportsInv
    <3>3. QED
      BY <1>3, <3>1, <3>2
  <2>2. CASE i = turn
    BY <1>1, <1>2, <1>3, <1>5, <2>2
  <2>3. QED
    BY <2>1, <2>2
<1>6. ASSUME NEW i \in 1 .. 2, files'[i] # None
      PROVE  /\ FileFine(files'[i], results'[i].report)
             /\ "report" \notin touched => files'[i].report.gates = results'[i].report.gates
  <2>1. CASE files'[i] = files[i]
    <3>1. i \in 1 .. turn - 1 /\ files[i] # None
      BY <1>3, <1>6, <2>1
    <3>2. FileFine(files[i], results[i].report) /\ ("report" \notin touched => files[i].report.gates = results[i].report.gates)
      BY <3>1 DEF ReportsInv
    <3>3. QED
      BY <1>3, <2>1, <3>1, <3>2
  <2>2. CASE files'[i] # files[i]
    <3>1. files' = [files EXCEPT ![turn] = to_json(report)] /\ i = turn
      BY <1>4, <2>2
    <3>2. files'[i] = to_json(report)
      BY <1>4, <3>1
    <3>3. results'[i].report = report
      BY <1>2, <1>3, <3>1
    <3>4. FileFine(to_json(report), report) /\ to_json(report).report.gates = report.gates
      BY <2>2
    <3>5. QED
      BY <3>2, <3>3, <3>4
  <2>3. QED
    BY <2>1, <2>2
<1>7. \A i \in 1 .. turn : results'[i].exit # 2 => ReportFine(results[i])'
  <2>1. ASSUME NEW i \in 1 .. turn PROVE ReportFine(results[i])' <=> ReportFine(results'[i])
    <3>1. PICK q : q = results'[i]
      OBVIOUS
    <3>2. ReportFine(results[i])' <=> ReportFine(q)
      BY <3>1 DEF ReportFine, Named, CellAt, Earlier, Gates, Words
    <3>3. QED
      BY <3>1, <3>2
  <2>2. QED
    BY <1>5, <2>1
<1>8. \A i \in 1 .. 2 : files'[i] # None => FileFine(files[i], results[i].report)'
  <2>1. ASSUME NEW i \in 1 .. 2 PROVE FileFine(files[i], results[i].report)' <=> FileFine(files'[i], results'[i].report)
    BY DEF FileFine, Gates
  <2>2. QED
    BY <1>6, <2>1
<1>9. QED
  BY <1>3, <1>6, <1>7, <1>8 DEF ReportsInv

(* The same of the same results and files.                                   *)
LEMMA ReportsInvSame ==
  ASSUME ReportsInv, results' = results, files' = files, "report" \in touched' <=> "report" \in touched
  PROVE  ReportsInv'
<1>1. \A i \in DOMAIN results : ReportFine(results[i])' <=> ReportFine(results[i])
  BY DEF ReportFine, Named, CellAt, Earlier, Gates, Words
<1>2. \A i \in 1 .. 2 : FileFine(files[i], results[i].report)' <=> FileFine(files[i], results[i].report)
  BY DEF FileFine, Gates
<1>3. QED
  BY <1>1, <1>2 DEF ReportsInv

(* Every step keeps what the reports say.                                    *)
LEMMA ReportsInvNext ==
  ASSUME ResultsInv, FoundInv, ReportsInv, [VerifyNext]_allVars
  PROVE  ReportsInv'
<1>0. turn \in 1 .. 4 /\ DOMAIN files = 1 .. 2
  BY DEF ResultsInv
<1>1. CASE Report
  <2>1. turn \in {1, 2} /\ phase = "report" /\ touched' = touched
    BY <1>0, <1>1 DEF Report, At
  <2>2. Named(findings) /\ gate \in Words
    BY <2>1 DEF FoundInv
  <2>3. PICK gs : gs = [gouge |-> gouge_gate(findings), collision |-> gate]
    OBVIOUS
  <2>4. PICK report : report = [manifest |-> manifest, findings |-> findings, collisions |-> collisions, gates |-> gs]
    OBVIOUS
  <2>5. report.gates = gs /\ report.findings = findings
    BY <2>4
  <2>6. DOMAIN gs = Gates /\ gs = [g \in Gates |-> gs[g]] /\ \A g \in Gates : gs[g] \in Words
    <3>1. gouge_gate(findings) \in Words
      BY DEF gouge_gate, Words
    <3>2. DOMAIN gs = Gates /\ gs.gouge \in Words /\ gs.collision \in Words
      BY <2>2, <2>3, <3>1 DEF Gates
    <3>3. gs = [g \in Gates |-> gs[g]]
      BY <2>3 DEF Gates
    <3>4. QED
      BY <3>2, <3>3 DEF Gates
  <2>7. CASE Request.out = "unwritable"
    <3>1. Finish(2, None) /\ files' = files
      BY <1>1, <2>7 DEF Report
    <3>2. QED
      BY <2>1, <3>1, TurnReports
  <2>8. CASE Request.out # "unwritable"
    <3>1. PICK exit : exit = IF pass(report.gates) THEN 0 ELSE 1
      OBVIOUS
    <3>2. /\ Finish(exit, report)
          /\ files' = IF Request.out = None THEN files ELSE [files EXCEPT ![turn] = to_json(report)]
      BY <1>1, <2>3, <2>4, <2>8, <3>1 DEF Report
    <3>3. ReportFine([exit |-> exit, report |-> report, field |-> field, replayed |-> replayed])
      BY <2>2, <2>5, <2>6, <3>1 DEF ReportFine
    <3>4. FileFine(to_json(report), report) /\ to_json(report).report.gates = report.gates
      BY <2>4, <2>6, WrittenFine
    <3>5. QED
      BY <2>1, <3>2, <3>3, <3>4, TurnReports
  <2>9. QED
    BY <2>7, <2>8
<1>2. CASE Fails
  <2>1. turn \in {1, 2} /\ Finish(2, None) /\ files' = files /\ touched' = touched
    BY <1>0, <1>2 DEF Fails, Fail, At
  <2>2. QED
    BY <2>1, TurnReports
<1>3. CASE Edit
  <2>1. results' = results
    BY <1>3 DEF Edit
  <2>2. CASE files' = files /\ touched' = touched \cup {"input"}
    BY <2>1, <2>2, ReportsInvSame
  <2>3. CASE ~(files' = files /\ touched' = touched \cup {"input"})
    <3>1. PICK i \in 1 .. 2 :
            /\ files[i] # None /\ touched' = touched \cup {"report"}
            /\ \/ files' = [files EXCEPT ![i].version = SCHEMA_VERSION + 1]
               \/ \E g \in {"gouge", "collision"} : files' = [files EXCEPT ![i].report.gates[g] = "waived"]
      BY <1>3, <2>3 DEF Edit
    <3>2. PICK file : file = files[i]
      OBVIOUS
    <3>3. FileFine(file, results[i].report)
      BY <3>1, <3>2 DEF ReportsInv
    <3>4. PICK now : now = files'[i]
      OBVIOUS
    <3>5. /\ \A j \in 1 .. 2 : j # i => files'[j] = files[j]
          /\ \/ now = [file EXCEPT !.version = SCHEMA_VERSION + 1]
             \/ \E g \in Gates : now = [file EXCEPT !.report.gates[g] = "waived"]
      BY <1>0, <3>1, <3>2, <3>4 DEF Gates
    <3>6. FileFine(now, results[i].report)
      <4>1. PICK g \in Gates : \/ now = [file EXCEPT !.version = SCHEMA_VERSION + 1]
                              \/ now = [file EXCEPT !.report.gates[g] = "waived"]
        BY <3>5 DEF Gates
      <4>2. PICK v : v = SCHEMA_VERSION + 1
        OBVIOUS
      <4>3. FileFine([file EXCEPT !.version = v], results[i].report)
        BY <3>3, <4>1, EditedFine
      <4>4. FileFine([file EXCEPT !.report.gates[g] = "waived"], results[i].report)
        BY <3>3, <4>1, EditedFine
      <4>5. QED
        BY <4>1, <4>2, <4>3, <4>4
    <3>7. ASSUME NEW j \in 1 .. 2, files'[j] # None PROVE FileFine(files'[j], results[j].report)
      <4>1. CASE j = i
        BY <3>4, <3>6, <4>1
      <4>2. CASE j # i
        BY <3>5, <3>7, <4>2 DEF ReportsInv
      <4>3. QED
        BY <4>1, <4>2
    <3>8. \A j \in 1 .. 2 : FileFine(files[j], results[j].report)' <=> FileFine(files'[j], results[j].report)
      BY <2>1 DEF FileFine, Gates
    <3>9. \A j \in DOMAIN results : ReportFine(results[j])' <=> ReportFine(results[j])
      BY <2>1 DEF ReportFine, Named, CellAt, Earlier, Gates, Words
    <3>10. QED
      BY <2>1, <3>1, <3>7, <3>8, <3>9 DEF ReportsInv
  <2>4. QED
    BY <2>2, <2>3
<1>4. CASE Read \/ Clustered \/ Identify \/ Attribute \/ Hash \/ Collide \/ report_diff \/ VerifyDone \/ UNCHANGED allVars
  <2>1. results' = results /\ touched' = touched /\ files' = files
    BY <1>4 DEF Read, Clustered, Identify, Attribute, Hash, Collide, report_diff, VerifyDone, allVars, verifyVars
  <2>2. QED
    BY <2>1, ReportsInvSame
<1>5. QED
  BY <1>1, <1>2, <1>3, <1>4 DEF VerifyNext, Proceed

(* Every step keeps what is told true to the files.                          *)
LEMMA ToldInvNext ==
  ASSUME ResultsInv, ToldInv, [VerifyNext]_allVars
  PROVE  ToldInv'
<1>1. CASE report_diff
  <2>1. turn = 3 /\ turn' = 4 /\ files' = files
    BY <1>1 DEF report_diff
  <2>2. PICK d : d = diff(load_report(files[1]), load_report(files[2]))
    OBVIOUS
  <2>3. told' = IF \E i \in 1 .. 2 : files[i] = None \/ ~Readable(files[i])
                THEN [exit |-> 2, found |-> None]
                ELSE [exit |-> IF is_empty(d) THEN 0 ELSE 1, found |-> d]
    BY <1>1, <2>2 DEF report_diff
  <2>4. CASE \E i \in 1 .. 2 : files[i] = None \/ ~Readable(files[i])
    <3>1. told'.exit = 2
      BY <2>3, <2>4
    <3>2. QED
      BY <2>1, <3>1 DEF ToldInv
  <2>5. CASE ~\E i \in 1 .. 2 : files[i] = None \/ ~Readable(files[i])
    <3>1. told'.exit = (IF is_empty(d) THEN 0 ELSE 1) /\ \A i \in 1 .. 2 : files[i] # None
      BY <2>3, <2>5
    <3>2. told'.exit = IF is_empty(diff(load_report(files[1]), load_report(files[2]))) THEN 0 ELSE 1
      BY <2>2, <3>1
    <3>3. is_empty(diff(load_report(files[1]), load_report(files[2])))'
             <=> is_empty(diff(load_report(files[1]), load_report(files[2])))
      BY <2>1, Zenon
    <3>4. QED
      BY <2>1, <3>1, <3>2, <3>3 DEF ToldInv
  <2>6. QED
    BY <2>4, <2>5
<1>2. CASE ~report_diff
  <2>1. told' = told
    BY <1>2 DEF VerifyNext, Proceed, Read, Clustered, Identify, Attribute, Hash, Fails, Fail, Collide, Report, Edit,
                VerifyDone, allVars, verifyVars
  <2>2. turn = 4 => files' = files /\ turn' = turn
    BY <1>2 DEF VerifyNext, Proceed, Read, Clustered, Identify, Attribute, Hash, Fails, Collide, Report, Edit, At,
                VerifyDone, allVars, verifyVars
  <2>3. QED
    BY <2>1, <2>2 DEF ToldInv
<1>3. QED
  BY <1>1, <1>2

\* The inductive invariant of DiffTells.
QInv == PInv /\ FoundInv /\ ReportsInv /\ ToldInv

(* It holds at the start.                                                    *)
LEMMA QInvInit == VerifyInit => QInv
<1> SUFFICES ASSUME VerifyInit PROVE QInv
  OBVIOUS
<1>1. turn = 1 /\ phase = "read" /\ results = <<>> /\ files = <<None, None>> /\ told = None
  BY DEF VerifyInit
<1>2. FoundInv /\ ToldInv
  BY <1>1 DEF FoundInv, ToldInv
<1>3. DOMAIN results = {} /\ \A i \in 1 .. 2 : files[i] = None
  BY <1>1
<1>4. ReportsInv
  BY <1>3 DEF ReportsInv
<1>5. QED
  BY <1>2, <1>4, PInvInit DEF QInv

(* Every step keeps it.                                                      *)
LEMMA QInvNext == QInv /\ [VerifyNext]_allVars => QInv'
<1> SUFFICES ASSUME QInv, [VerifyNext]_allVars PROVE QInv'
  OBVIOUS
<1>1. PInv' /\ ReportsInv' /\ ToldInv'
  BY PInvNext, ReportsInvNext, ToldInvNext DEF QInv, PInv
<1>2. FoundInv'
  <2>1. CASE Proceed
    BY <2>1, FoundInvNext DEF QInv, PInv
  <2>2. CASE Edit \/ VerifyDone \/ UNCHANGED allVars
    <3>1. UNCHANGED <<turn, phase, findings, gate>>
      BY <2>2 DEF Edit, VerifyDone, allVars, verifyVars
    <3>2. QED
      BY <3>1, FoundInvSame DEF QInv
  <2>3. QED
    BY <2>1, <2>2 DEF VerifyNext
<1>3. QED
  BY <1>1, <1>2 DEF QInv

\* It is an invariant.
LEMMA QInvHolds == VerifySpec => []QInv
BY QInvInit, QInvNext, PTL DEF VerifySpec

(* What is read back of a report.                                            *)
LEMMA ReadBack ==
  ASSUME NEW file, NEW report, FileFine(file, report), DOMAIN report.gates = Gates,
         \A g \in Gates : report.gates[g] \in Words, NEW read, read = load_report(file)
  PROVE  /\ read.findings = Each(report.findings, finding_json)
         /\ read.gates = [g \in Gates |-> Gate_parse(file.report.gates[g])]
         /\ pass(read.gates) => pass(report.gates)
         /\ file.report.gates = report.gates => (pass(read.gates) <=> pass(report.gates))
<1>1. PICK r : r = file.report
  OBVIOUS
<1>2. PICK ef : ef = Each(report.findings, finding_json)
  OBVIOUS
<1>3. PICK gs : gs = r.gates
  OBVIOUS
<1>18. PICK m : m = r.manifest
  OBVIOUS
<1>19. PICK cb : cb = r.collisions
  OBVIOUS
<1>4. /\ r = [manifest |-> m, findings |-> ef, collisions |-> cb, gates |-> gs]
      /\ gs = [h \in Gates |-> gs[h]] /\ \A h \in Gates : gs[h] \in {report.gates[h], "waived"}
  BY <1>1, <1>2, <1>3, <1>18, <1>19 DEF FileFine
<1>5. PICK cs : cs = Each(r.collisions, Loaded)
  OBVIOUS
<1>6. PICK hs : hs = [g \in DOMAIN gs |-> Gate_parse(gs[g])]
  OBVIOUS
<1>7. read = [r EXCEPT !.collisions = cs, !.gates = hs]
  BY <1>1, <1>3, <1>5, <1>6 DEF load_report
<1>8. read = [manifest |-> m, findings |-> ef, collisions |-> cs, gates |-> hs]
  BY <1>4, <1>7
<1>9. read.findings = ef /\ read.gates = hs
  BY <1>8
<1>10. DOMAIN hs = Gates /\ \A g \in Gates : hs[g] = Gate_parse(gs[g])
  BY <1>4, <1>6
<1>11. Gates # {}
  BY DEF Gates
<1>12. \A g \in Gates : hs[g] = "pass" => report.gates[g] = "pass"
  BY <1>4, <1>10 DEF Gate_parse
<1>13. pass(hs) => pass(report.gates)
  BY <1>10, <1>11, <1>12 DEF pass
<1>14. gs = report.gates => \A g \in Gates : hs[g] = report.gates[g]
  BY <1>10 DEF Gate_parse, Words
<1>15. gs = report.gates => (pass(hs) <=> pass(report.gates))
  BY <1>10, <1>14 DEF pass
<1>16. hs = [g \in Gates |-> Gate_parse(gs[g])]
  BY <1>10, <1>6
<1>17. QED
  BY <1>1, <1>2, <1>3, <1>9, <1>13, <1>15, <1>16

(* A list as it is written.                                                  *)
LEMMA WrittenList ==
  ASSUME NEW fs, Named(fs), NEW ws, ws = Each(fs, finding_json)
  PROVE  /\ DOMAIN ws = DOMAIN fs /\ Ids(ws) = Ids(fs)
         /\ \A i \in DOMAIN fs : /\ ws[i].id = fs[i].id /\ ws[i].worst = fs[i].worst
                                 /\ ws[i].segments = fs[i].segments
                                 /\ Entry(ws, fs[i].id) = ws[i]
<1>1. DOMAIN ws = DOMAIN fs /\ \A i \in DOMAIN fs : ws[i] = finding_json(fs[i])
  BY DEF Each
<1>2. ASSUME NEW i \in DOMAIN fs
      PROVE  ws[i].id = fs[i].id /\ ws[i].worst = fs[i].worst /\ ws[i].segments = fs[i].segments
  <2>1. PICK f : f = fs[i]
    OBVIOUS
  <2>2. {"id", "class", "at", "worst", "segments"} \subseteq DOMAIN f
    BY <2>1 DEF Named
  <2>3. ws[i] = [f EXCEPT !.probes = <<>>]
    BY <1>1, <2>1 DEF finding_json
  <2>4. QED
    BY <2>1, <2>2, <2>3
<1>3. Ids(ws) = Ids(fs)
  BY <1>1, <1>2 DEF Ids
<1>4. ASSUME NEW i \in DOMAIN fs PROVE Entry(ws, fs[i].id) = ws[i]
  <2>1. PICK n \in Nat : DOMAIN fs = 1 .. n
    BY DEF Named
  <2>2. PICK S : S = {j \in DOMAIN ws : ws[j].id = fs[i].id}
    OBVIOUS
  <2>3. S = {i}
    BY <1>1, <1>2, <2>2, NamedApart
  <2>4. Max(S) = i
    BY <2>1, <2>3 DEF Max
  <2>5. QED
    BY <2>2, <2>4 DEF Entry
<1>5. QED
  BY <1>1, <1>2, <1>3, <1>4

\* What a comparison looks at of a list of findings.
Depths(fs) == {<<f.class, f.worst, f.segments>> : f \in Range(fs)}

(* Where nothing differs, each finding is in both, as deep and as caused.     *)
LEMMA NothingDiffers ==
  ASSUME NEW old, Named(old), NEW new, Named(new), NEW a, a = Each(old, finding_json), NEW b, b = Each(new, finding_json),
         Ids(a) = Ids(b), \A id \in Ids(a) : ~Deepened(Entry(a, id), Entry(b, id))
  PROVE  Depths(old) = Depths(new)
<1>1. /\ DOMAIN a = DOMAIN old /\ Ids(a) = Ids(old)
      /\ \A i \in DOMAIN old : /\ a[i].id = old[i].id /\ a[i].worst = old[i].worst /\ a[i].segments = old[i].segments
                               /\ Entry(a, old[i].id) = a[i]
  BY WrittenList
<1>2. /\ DOMAIN b = DOMAIN new /\ Ids(b) = Ids(new)
      /\ \A i \in DOMAIN new : /\ b[i].id = new[i].id /\ b[i].worst = new[i].worst /\ b[i].segments = new[i].segments
                               /\ Entry(b, new[i].id) = b[i]
  BY WrittenList
<1>3. ASSUME NEW i \in DOMAIN old, NEW j \in DOMAIN new, old[i].id = new[j].id
      PROVE  old[i].class = new[j].class /\ old[i].worst = new[j].worst /\ old[i].segments = new[j].segments
  <2>0. /\ old[i].id = <<old[i].class, CellAt(old[i].at), Cardinality(Earlier(old, i))>>
        /\ new[j].id = <<new[j].class, CellAt(new[j].at), Cardinality(Earlier(new, j))>>
    BY DEF Named
  <2>1. old[i].id[1] = old[i].class /\ new[j].id[1] = new[j].class
    BY <2>0
  <2>2. old[i].id \in Ids(a)
    BY <1>1 DEF Ids
  <2>3. ~Deepened(a[i], b[j])
    BY <1>1, <1>2, <1>3, <2>2
  <2>4. a[i].worst = b[j].worst /\ a[i].segments = b[j].segments
    BY <2>3 DEF Deepened
  <2>5. QED
    BY <1>1, <1>2, <1>3, <2>1, <2>4
<1>4. /\ \A i \in DOMAIN old : \E j \in DOMAIN new : old[i].id = new[j].id
      /\ \A j \in DOMAIN new : \E i \in DOMAIN old : old[i].id = new[j].id
  BY <1>1, <1>2 DEF Ids
<1>5. /\ Depths(old) = {<<old[i].class, old[i].worst, old[i].segments>> : i \in DOMAIN old}
      /\ Depths(new) = {<<new[i].class, new[i].worst, new[i].segments>> : i \in DOMAIN new}
  BY DEF Depths, Range
<1>6. Depths(old) \subseteq Depths(new)
  BY <1>3, <1>4, <1>5
<1>7. Depths(new) \subseteq Depths(old)
  BY <1>3, <1>4, <1>5
<1>8. QED
  BY <1>6, <1>7

(* What is compared was read of the reports of two completed runs.           *)
LEMMA ComparedReports ==
  ASSUME QInv, told # None, told.exit # 2, NEW i \in 1 .. 2
  PROVE  /\ i \in Reports /\ ReportFine(results[i]) /\ FileFine(files[i], results[i].report)
         /\ "report" \notin touched => files[i].report.gates = results[i].report.gates
<1>1. files[i] # None
  BY DEF QInv, ToldInv
<1>2. i \in DOMAIN results /\ results[i].exit # 2
  BY <1>1 DEF QInv, PInv, ResultsInv
<1>3. QED
  BY <1>1, <1>2 DEF QInv, ReportsInv, Reports

(* What of a report is read back of its file.                                *)
LEMMA ReadOf ==
  ASSUME QInv, told # None, told.exit # 2, NEW i \in 1 .. 2, NEW read, read = load_report(files[i])
  PROVE  /\ read.findings = Each(Told(i), finding_json) /\ Named(Told(i))
         /\ DOMAIN read.gates = Gates
         /\ (IF pass(read.gates) THEN 0 ELSE 1) >= results[i].exit
         /\ "report" \notin touched => results[i].exit = IF pass(read.gates) THEN 0 ELSE 1
<1>1. PICK report : report = results[i].report
  OBVIOUS
<1>2. PICK file : file = files[i]
  OBVIOUS
<1>3. /\ FileFine(file, report) /\ Named(report.findings)
      /\ DOMAIN report.gates = Gates /\ \A g \in Gates : report.gates[g] \in Words
      /\ results[i].exit = IF pass(report.gates) THEN 0 ELSE 1
      /\ "report" \notin touched => file.report.gates = report.gates
  BY <1>1, <1>2, ComparedReports DEF ReportFine
<1>4. /\ read.findings = Each(report.findings, finding_json)
      /\ read.gates = [g \in Gates |-> Gate_parse(file.report.gates[g])]
      /\ pass(read.gates) => pass(report.gates)
      /\ file.report.gates = report.gates => (pass(read.gates) <=> pass(report.gates))
  BY <1>2, <1>3, ReadBack
<1>5. QED
  BY <1>1, <1>3, <1>4 DEF Told

(* Where the comparison finds nothing, the depths and the verdicts agree.    *)
LEMMA NothingFound ==
  ASSUME NEW a, NEW b, is_empty(diff(a, b)), DOMAIN a.gates = Gates, DOMAIN b.gates = Gates
  PROVE  /\ pass(a.gates) <=> pass(b.gates)
         /\ Ids(a.findings) = Ids(b.findings)
         /\ \A id \in Ids(a.findings) : ~Deepened(Entry(a.findings, id), Entry(b.findings, id))
<1>1. PICK M : M = {i \in Both(a.findings, b.findings) : Deepened(Entry(a.findings, i), Entry(b.findings, i))}
  OBVIOUS
<1>2. Differs(a.gates, b.gates) = {} /\ Changes(a.findings, b.findings, M) = {}
  BY <1>1 DEF is_empty, diff
<1>3. pass(a.gates) <=> pass(b.gates)
  <2>1. \A g \in Gates : a.gates[g] = b.gates[g]
    BY <1>2 DEF Differs
  <2>2. QED
    BY <2>1 DEF pass
<1>4. Ids(a.findings) \ Ids(b.findings) = {} /\ Ids(b.findings) \ Ids(a.findings) = {} /\ M = {}
  BY <1>2 DEF Changes
<1>5. Ids(a.findings) = Ids(b.findings)
  BY <1>4
<1>6. ASSUME NEW id \in Ids(a.findings) PROVE ~Deepened(Entry(a.findings, id), Entry(b.findings, id))
  <2>1. id \in Both(a.findings, b.findings)
    BY <1>5 DEF Both
  <2>2. QED
    BY <1>1, <1>4, <2>1
<1>7. QED
  BY <1>3, <1>5, <1>6

\* What the comparison says is so, however often inputs and reports are rewritten
\* and whatever was found: where it finds nothing, both runs found the same depths,
\* blamed the same motions and read as one verdict; no finding has another's id;
\* and what it compared are the reports of two completed runs, of which none
\* reads as a pass that was not one.
THEOREM DiffTellsHolds == VerifySpec => []DiffTells
<1>1. QInv => DiffTells
  <2> SUFFICES ASSUME QInv PROVE DiffTells
    OBVIOUS
  <2>1. ASSUME NEW i \in Reports PROVE Cardinality(Ids(Told(i))) = Len(Told(i))
    <3>1. Named(Told(i))
      BY DEF Reports, Told, QInv, ReportsInv, ReportFine
    <3>2. QED
      BY <3>1, NamedApart
  <2>2. ASSUME told # None, told.exit < 2 PROVE told.exit # 2
    BY <2>2
  <2>3. PICK a : a = load_report(files[1])
    OBVIOUS
  <2>4. PICK b : b = load_report(files[2])
    OBVIOUS
  <2>5. ASSUME told # None, told.exit = 0
        PROVE  /\ pass(a.gates) <=> pass(b.gates)
               /\ Depths(Told(1)) = Depths(Told(2))
               /\ "report" \notin touched => results[1].exit = results[2].exit
    <3>1. told.exit # 2
      BY <2>5
    <3>2. is_empty(diff(a, b))
      BY <2>3, <2>4, <2>5, <3>1 DEF QInv, ToldInv
    <3>3. /\ a.findings = Each(Told(1), finding_json) /\ Named(Told(1)) /\ DOMAIN a.gates = Gates
          /\ "report" \notin touched => results[1].exit = IF pass(a.gates) THEN 0 ELSE 1
      BY <2>3, <2>5, <3>1, ReadOf
    <3>4. /\ b.findings = Each(Told(2), finding_json) /\ Named(Told(2)) /\ DOMAIN b.gates = Gates
          /\ "report" \notin touched => results[2].exit = IF pass(b.gates) THEN 0 ELSE 1
      BY <2>4, <2>5, <3>1, ReadOf
    <3>5. /\ pass(a.gates) <=> pass(b.gates)
          /\ Ids(a.findings) = Ids(b.findings)
          /\ \A id \in Ids(a.findings) : ~Deepened(Entry(a.findings, id), Entry(b.findings, id))
      BY <3>2, <3>3, <3>4, NothingFound
    <3>6. Depths(Told(1)) = Depths(Told(2))
      BY <3>3, <3>4, <3>5, NothingDiffers
    <3>7. QED
      BY <3>3, <3>4, <3>5, <3>6
  <2>6. ASSUME told # None, told.exit < 2, NEW i \in 1 .. 2
        PROVE  i \in Reports /\ (IF pass(load_report(files[i]).gates) THEN 0 ELSE 1) >= results[i].exit
    BY <2>2, <2>6, ComparedReports, ReadOf
  <2>7. QED
    BY <2>1, <2>3, <2>4, <2>5, <2>6 DEF DiffTells, Depths
<1>2. QED
  BY QInvHolds, <1>1, PTL

\* A finding that has not moved and is alone of its class in its cell keeps its
\* id from one run to the next, whatever else either finds.
THEOREM NameStaysHolds == VerifySpec => []NameStays
<1>1. QInv => NameStays
  <2> SUFFICES ASSUME QInv, {1, 2} \subseteq Reports,
                      NEW f \in Range(Told(1)), NEW g \in Range(Told(2)),
                      SameFinding(f, g), AloneInCell(f, Told(1)), AloneInCell(g, Told(2))
               PROVE  f.id = g.id
    BY DEF NameStays
  <2>1. Named(Told(1)) /\ Named(Told(2))
    BY DEF Reports, Told, QInv, ReportsInv, ReportFine
  <2>2. PICK i \in DOMAIN Told(1) : f = Told(1)[i]
    BY DEF Range
  <2>3. PICK j \in DOMAIN Told(2) : g = Told(2)[j]
    BY DEF Range
  <2>4. QED
    BY <2>1, <2>2, <2>3, AloneKeepsName
<1>2. QED
  BY QInvHolds, <1>1, PTL

-------------------------------------------------------------------------------
\* The forest is a function of what it joined.

\* What every slot has for a root, and how tall the tree of a root can be.
ForestsOn(n) == [label : [0 .. n - 1 -> 0 .. n - 1], rank : [0 .. n - 1 -> Nat]]

\* n slots, each its own root.
Singles(n) == [label |-> [s \in 0 .. n - 1 |-> s], rank |-> [s \in 0 .. n - 1 |-> 0]]

\* Whether the root a goes under the root b.
GoesUnder(f, a, b) == f.rank[a] < f.rank[b] \/ (f.rank[a] = f.rank[b] /\ a < b)

\* One tree under another.
Hung(f, lo, hi) ==
  [label |-> [s \in DOMAIN f.label |-> IF f.label[s] = lo THEN hi ELSE f.label[s]],
   rank |-> IF f.rank[lo] = f.rank[hi] THEN [f.rank EXCEPT ![hi] = @ + 1] ELSE f.rank]

\* What a union of the pair e makes of the forest f.
UnionOf(f, e) ==
  LET a == f.label[e[1]]
      b == f.label[e[2]]
  IN  IF a = b THEN f ELSE IF GoesUnder(f, a, b) THEN Hung(f, a, b) ELSE Hung(f, b, a)

\* The unions of a list of pairs, one after the other.
Unions(n, E) == [k \in 1 .. Len(E) |-> [f \in ForestsOn(n) |-> UnionOf(f, E[k])]]

\* The forests on the way, h[k] after k unions.
Grown(n, E) == CHOOSE h : Iterates(h, Len(E), Singles(n), Unions(n, E))

(* A union makes a forest of a forest.                                       *)
LEMMA UnionTyped ==
  ASSUME NEW n \in Nat, NEW f \in ForestsOn(n), NEW e \in (0 .. n - 1) \X (0 .. n - 1)
  PROVE  UnionOf(f, e) \in ForestsOn(n)
<1>1. PICK a, b : a = f.label[e[1]] /\ b = f.label[e[2]]
  OBVIOUS
<1>2. a \in 0 .. n - 1 /\ b \in 0 .. n - 1
  BY <1>1 DEF ForestsOn
<1>3. ASSUME NEW lo \in 0 .. n - 1, NEW hi \in 0 .. n - 1 PROVE Hung(f, lo, hi) \in ForestsOn(n)
  <2>1. PICK l, r : l = f.label /\ r = f.rank
    OBVIOUS
  <2>2. l \in [0 .. n - 1 -> 0 .. n - 1] /\ r \in [0 .. n - 1 -> Nat]
    BY <2>1 DEF ForestsOn
  <2>3. [s \in DOMAIN l |-> IF l[s] = lo THEN hi ELSE l[s]] \in [0 .. n - 1 -> 0 .. n - 1]
    BY <2>2
  <2>4. [r EXCEPT ![hi] = r[hi] + 1] \in [0 .. n - 1 -> Nat]
    <3>1. r[hi] \in Nat
      BY <2>2
    <3>2. r[hi] + 1 \in Nat
      BY <3>1
    <3> QED
      BY <2>2, <3>2
  <2>5. QED
    BY <2>1, <2>2, <2>3, <2>4 DEF Hung, ForestsOn
<1>4. QED
  BY <1>1, <1>2, <1>3 DEF UnionOf

\* h is the forests on the way.
GrowsBy(h, n, E) ==
  /\ h[0] = Singles(n)
  /\ \A k \in 1 .. Len(E) : h[k] = UnionOf(h[k - 1], E[k])
  /\ \A k \in 0 .. Len(E) : h[k] \in ForestsOn(n)

(* The unions of a list have a solution.                                     *)
LEMMA GrownSteps ==
  ASSUME NEW n \in Nat, NEW E \in Seq((0 .. n - 1) \X (0 .. n - 1))
  PROVE  GrowsBy(Grown(n, E), n, E)
<1> DEFINE m == Len(E)
           F == ForestsOn(n)
           T == Unions(n, E)
           x == Singles(n)
<1>1. m \in Nat /\ \A k \in 1 .. m : E[k] \in (0 .. n - 1) \X (0 .. n - 1)
  OBVIOUS
<1>2. x \in F
  BY DEF Singles, ForestsOn
<1>3. \A k \in 1 .. m : \A f \in F : T[k][f] = UnionOf(f, E[k]) /\ T[k][f] \in F
  BY <1>1, UnionTyped DEF Unions
<1> HIDE DEF m, F, T, x
<1>4. \E h : Iterates(h, m, x, T)
  BY <1>1, <1>2, <1>3, IterationExists
<1>5. PICK h : h = Grown(n, E)
  OBVIOUS
<1>6. Iterates(h, m, x, T)
  BY <1>4, <1>5 DEF Grown, m, x, T
<1>7. h = [k \in 0 .. m |-> IF k = 0 THEN x ELSE T[k][h[k - 1]]]
  BY <1>6 DEF Iterates
<1>8. h[0] = x /\ \A k \in 1 .. m : h[k] = T[k][h[k - 1]]
  <2>1. 0 \in 0 .. m /\ \A k \in 1 .. m : k \in 0 .. m /\ k # 0
    BY <1>1
  <2>2. QED
    BY <1>7, <2>1
<1> DEFINE G == {k \in 0 .. m : h[k] \in F}
<1>9. 0 \in G
  BY <1>1, <1>2, <1>8
<1>10. \A k \in 0 .. m - 1 : k \in G => k + 1 \in G
  <2>1. SUFFICES ASSUME NEW k \in 0 .. m - 1, k \in G PROVE k + 1 \in G
    OBVIOUS
  <2>2. k + 1 \in 1 .. m /\ k + 1 \in 0 .. m /\ (k + 1) - 1 = k
    BY <1>1
  <2>3. h[k + 1] = T[k + 1][h[k]] /\ h[k] \in F
    BY <1>8, <2>1, <2>2
  <2>4. QED
    BY <1>3, <2>2, <2>3
<1>11. \A k \in 0 .. m : k \in G
  <2> HIDE DEF G
  <2>1. QED
    BY <1>1, <1>9, <1>10, Induction
<1>12. \A k \in 1 .. m : h[k] = UnionOf(h[k - 1], E[k])
  <2>1. \A k \in 1 .. m : k - 1 \in 0 .. m
    BY <1>1
  <2>2. QED
    BY <1>3, <1>8, <1>11, <2>1
<1>13. QED
  BY <1>5, <1>8, <1>11, <1>12 DEF GrowsBy, m, x, F

(* A forest has one map to its roots.                                        *)
LEMMA OneRootMap ==
  ASSUME IInv, NEW r, NEW q, RootMap(r), RootMap(q)
  PROVE  r = q
<1>1. ASSUME NEW s \in Slots PROVE r[s] = q[s]
  <2> DEFINE S == {t \in Slots : r[t] = r[s]}
  <2>1. CutsNoTree(S)
    <3>1. \A t \in Slots : parent[t] \in Slots /\ r[parent[t]] = r[t]
      BY DEF RootMap, IInv, ForestTypeOK, Slots
    <3>2. QED
      BY <3>1 DEF CutsNoTree
  <2>2. s \in S /\ S \in SUBSET Slots
    OBVIOUS
  <2>3. q[s] \in S
    BY <2>1, <2>2 DEF RootMap
  <2>4. IsRoot(q[s]) /\ q[s] \in Slots
    BY <2>3 DEF RootMap
  <2>5. r[q[s]] = q[s]
    BY <2>4 DEF RootMap
  <2>6. QED
    BY <2>3, <2>5
<1>2. r \in [Slots -> Slots] /\ q \in [Slots -> Slots]
  BY DEF RootMap
<1>3. QED
  BY <1>1, <1>2

\* The forest is f: its roots are f's, and so are their ranks.
StandsAs(f) == RootMap(f.label) /\ rank = f.rank

(* A link of two roots makes the lower the other's.                           *)
LEMMA LinkedRoots ==
  ASSUME IInv, NEW root, RootMap(root), NEW lo \in Slots, NEW hi \in Slots, IsRoot(lo), IsRoot(hi), lo # hi,
         parent' = [parent EXCEPT ![lo] = hi], NEW up, up = [s \in Slots |-> IF root[s] = lo THEN hi ELSE root[s]]
  PROVE  RootMap(up)'
<1>1. /\ Slots' = Slots /\ parent'[lo] = hi
      /\ \A s \in Slots : s # lo => parent'[s] = parent[s]
      /\ \A S : CutsNoTree(S)' <=> CutsNoTree(S) /\ (lo \in S <=> hi \in S)
  BY LinkTrees
<1>2. up \in [Slots -> Slots] /\ \A s \in Slots : up[s] = IF root[s] = lo THEN hi ELSE root[s]
  BY DEF RootMap
<1>3. \A s \in Slots : s # lo => (IsRoot(s)' <=> IsRoot(s))
  BY <1>1 DEF IsRoot
<1>4. ASSUME NEW s \in Slots
      PROVE  IsRoot(up[s])' /\ up[parent'[s]] = up[s] /\ (IsRoot(s)' => up[s] = s)
  <2>1. root[s] \in Slots /\ IsRoot(root[s]) /\ root[parent[s]] = root[s] /\ (IsRoot(s) => root[s] = s)
    BY DEF RootMap
  <2>2. up[s] \in Slots /\ up[s] # lo /\ IsRoot(up[s])
    BY <1>2, <2>1
  <2>3. IsRoot(up[s])'
    BY <1>3, <2>2
  <2>4. root[lo] = lo /\ root[hi] = hi
    BY DEF RootMap
  <2>5. up[parent'[s]] = up[s]
    <3>1. parent[s] \in Slots
      BY DEF IInv, ForestTypeOK, Slots
    <3>2. CASE s = lo
      BY <1>1, <1>2, <2>4, <3>2
    <3>3. CASE s # lo
      BY <1>1, <1>2, <2>1, <3>1, <3>3
    <3> QED
      BY <3>2, <3>3
  <2>6. IsRoot(s)' => up[s] = s
    <3>1. ASSUME IsRoot(s)' PROVE s # lo
      BY <1>1, <3>1 DEF IsRoot
    <3> QED
      BY <1>2, <1>3, <2>1, <3>1
  <2> QED
    BY <2>3, <2>5, <2>6
<1>5. ASSUME NEW S \in SUBSET Slots, CutsNoTree(S), lo \in S <=> hi \in S, NEW s \in Slots
      PROVE  s \in S <=> up[s] \in S
  BY <1>2, <1>5 DEF RootMap
<1> QED
  BY <1>1, <1>2, <1>4, <1>5 DEF RootMap

(* What a union that is over made of the forest.                              *)
LEMMA UnionEnds ==
  ASSUME IInv, NEW n \in Nat, Slots = 0 .. n - 1, NEW f \in ForestsOn(n), StandsAs(f), SameTree \/ Link,
         NEW g, g = UnionOf(f, pair)
  PROVE  StandsAs(g)'
<1>1. PICK label, ranks : label = f.label /\ ranks = f.rank
  OBVIOUS
<1>2. /\ label \in [0 .. n - 1 -> 0 .. n - 1] /\ ranks \in [0 .. n - 1 -> Nat]
      /\ RootMap(label) /\ rank = ranks
  BY <1>1 DEF ForestsOn, StandsAs
<1>3. BothFound
  BY DEF SameTree, Link
<1>4. /\ first \in Slots /\ node \in Slots /\ pair \in Slots \X Slots /\ IsRoot(first) /\ IsRoot(node)
      /\ \A S \in SUBSET Slots : CutsNoTree(S) =>
           (first \in S <=> pair[1] \in S) /\ (node \in S <=> pair[2] \in S)
  BY <1>3, RootsOfPair
<1>5. label[pair[1]] = first /\ label[pair[2]] = node
  <2>1. ASSUME NEW r \in Slots
        PROVE  CutsNoTree({t \in Slots : label[t] = r})
    <3>1. \A t \in Slots : parent[t] \in Slots /\ label[parent[t]] = label[t]
      BY <1>2 DEF RootMap, IInv, ForestTypeOK, Slots
    <3> QED
      BY <3>1 DEF CutsNoTree
  <2>2. label[first] = first /\ label[node] = node
    BY <1>2, <1>4 DEF RootMap
  <2> DEFINE A == {t \in Slots : label[t] = first}
             B == {t \in Slots : label[t] = node}
  <2>3. CutsNoTree(A) /\ CutsNoTree(B) /\ first \in A /\ node \in B /\ A \in SUBSET Slots /\ B \in SUBSET Slots
    BY <1>4, <2>1, <2>2
  <2>4. pair[1] \in A /\ pair[2] \in B
    <3> HIDE DEF A, B
    <3> QED
      BY <1>4, <2>3
  <2> QED
    BY <2>4
<1>7. CASE SameTree
  <2>1. first = node /\ UNCHANGED <<parent, rank>>
    BY <1>7 DEF SameTree
  <2>2. g = f
    BY <1>1, <1>5, <2>1 DEF UnionOf
  <2>3. RootMap(label)' /\ rank' = ranks
    BY <1>2, <2>1, RootsKept
  <2> QED
    BY <1>1, <2>2, <2>3 DEF StandsAs
<1>8. CASE Link
  <2>1. first # node
    BY <1>8 DEF Link
  <2>2. PICK lo \in {first, node}, hi \in {first, node} :
          /\ lo # hi
          /\ rank[lo] < rank[hi] \/ (rank[lo] = rank[hi] /\ lo < hi)
          /\ parent' = [parent EXCEPT ![lo] = hi]
          /\ rank' = IF rank[lo] = rank[hi] THEN [rank EXCEPT ![hi] = @ + 1] ELSE rank
    BY <1>8 DEF Link
  <2>3. lo \in Slots /\ hi \in Slots /\ IsRoot(lo) /\ IsRoot(hi)
    BY <1>4, <2>2
  <2>4. GoesUnder(f, lo, hi) /\ ~GoesUnder(f, hi, lo)
    <3>1. rank[lo] \in Nat /\ rank[hi] \in Nat /\ lo \in Nat /\ hi \in Nat
      BY <1>2, <2>3
    <3> QED
      BY <1>1, <1>2, <2>2, <3>1 DEF GoesUnder
  <2>5. g = Hung(f, lo, hi)
    <3>1. UnionOf(f, pair) = IF first = node THEN f ELSE IF GoesUnder(f, first, node) THEN Hung(f, first, node)
                                                         ELSE Hung(f, node, first)
      BY <1>1, <1>5 DEF UnionOf
    <3>2. (lo = first /\ hi = node) \/ (lo = node /\ hi = first)
      BY <2>2
    <3> QED
      BY <2>1, <2>4, <3>1, <3>2
  <2>6. PICK up : up = [s \in Slots |-> IF label[s] = lo THEN hi ELSE label[s]]
    OBVIOUS
  <2>7. RootMap(up)'
    BY <1>2, <2>2, <2>3, <2>6, LinkedRoots
  <2>8. g.label = up /\ g.rank = IF rank[lo] = rank[hi] THEN [rank EXCEPT ![hi] = @ + 1] ELSE rank
    BY <1>1, <1>2, <2>5, <2>6 DEF Hung
  <2> QED
    BY <2>2, <2>7, <2>8 DEF StandsAs
<1> QED
  BY <1>7, <1>8

(* Going up a path and standing still change neither.                         *)
LEMMA StandsKept ==
  ASSUME IInv, NEW f, StandsAs(f), Halve \/ UNCHANGED <<parent, rank>>
  PROVE  StandsAs(f)'
<1>1. RootMap(f.label) /\ rank = f.rank
  BY DEF StandsAs
<1>2. rank' = rank
  BY DEF Halve
<1>3. PICK label : label = f.label
  OBVIOUS
<1>4. RootMap(label)'
  BY <1>1, <1>3, HalveKeepsRoots, RootsKept
<1> QED
  BY <1>1, <1>2, <1>3, <1>4 DEF StandsAs

(* So does a forest of single slots.                                          *)
LEMMA SinglesStand ==
  ASSUME NEW n \in Nat, New(n)
  PROVE  StandsAs(Singles(n))'
<1>1. PICK id : id = [s \in 0 .. n - 1 |-> s]
  OBVIOUS
<1>2. parent' = id /\ rank' = [s \in 0 .. n - 1 |-> 0]
  BY <1>1 DEF New
<1>3. RootMap(id)'
  BY <1>1, <1>2 DEF RootMap, IsRoot, CutsNoTree, Slots
<1>4. PICK f : f = Singles(n)
  OBVIOUS
<1>5. f.label = id /\ f.rank = [s \in 0 .. n - 1 |-> 0]
  BY <1>1, <1>4 DEF Singles
<1>6. StandsAs(f)'
  BY <1>2, <1>3, <1>5 DEF StandsAs
<1> QED
  BY <1>4, <1>6

\* k of the pairs of E are united, or all but the last of k, which is being.
United_up(h, E, k) ==
  /\ Len(edges) = Len(E) - k /\ \A i \in 1 .. Len(edges) : edges[i] = E[i + k]
  /\ pair = None => StandsAs(h[k])
  /\ pair # None => k > 0 /\ pair = E[k] /\ StandsAs(h[k - 1])

\* The forest is the one that the pairs united so far grow.
GrowInv ==
  /\ stage = "join" =>
       \E k \in 0 .. Len(Edges(points)) : United_up(Grown(Len(points), Edges(points)), Edges(points), k)
  /\ stage \in {"gather", "fold"} =>
       StandsAs(Grown(Len(points), Edges(points))[Len(Edges(points))])

\* What it rests on.
LEMMA GrowFacts ==
  ASSUME Standing, NEW E, E = Edges(Kept), NEW h, h = Grown(Len(Kept), E)
  PROVE  /\ Len(Kept) \in Nat /\ E \in Seq((0 .. Len(Kept) - 1) \X (0 .. Len(Kept) - 1)) /\ Len(E) \in Nat
         /\ GrowsBy(h, Len(Kept), E)
         /\ Kept = <<>> => Len(E) = 0
<1>1. KeptFacts(Kept) /\ Len(Kept) \in Nat
  BY StandingFacts
<1>2. E \in Seq((0 .. Len(Kept) - 1) \X (0 .. Len(Kept) - 1)) /\ Len(E) \in Nat
  <2>1. PICK pts : pts = Kept
    OBVIOUS
  <2>2. E \in Seq((0 .. Len(pts) - 1) \X (0 .. Len(pts) - 1))
    BY <1>1, <2>1, EdgesAreUnited
  <2> QED
    BY <2>1, <2>2
<1>3. GrowsBy(h, Len(Kept), E)
  BY <1>1, <1>2, GrownSteps
<1>4. ASSUME Kept = <<>> PROVE Len(E) = 0
  <2>1. Len(Kept) = 0
    BY <1>4
  <2>2. 0 .. Len(Kept) - 1 = {}
    BY <2>1
  <2>3. E \in Seq({} \X {})
    BY <1>2, <2>2
  <2>4. {} \X {} = {}
    OBVIOUS
  <2>5. E \in Seq({})
    BY <2>3, <2>4
  <2>6. Len(E) # 0 => E[1] \in {}
    BY <1>2, <2>5
  <2> QED
    BY <2>6
<1> QED
  BY <1>1, <1>2, <1>3, <1>4

\* Every step keeps it.
LEMMA GrowInvNext ==
  ASSUME Standing, GrowInv, ClusterNext
  PROVE  GrowInv'
<1>0. /\ JoinInv /\ IInv /\ KeptFacts(Kept) /\ Len(Kept) \in Nat
      /\ stage \in {"join", "gather", "fold"} => points = Kept /\ Slots = 0 .. Len(points) - 1
  BY StandingFacts
<1>1. PICK E : E = Edges(Kept)
  OBVIOUS
<1>2. PICK h : h = Grown(Len(Kept), E)
  OBVIOUS
<1>3. /\ E \in Seq((0 .. Len(Kept) - 1) \X (0 .. Len(Kept) - 1)) /\ Len(E) \in Nat /\ GrowsBy(h, Len(Kept), E)
      /\ Kept = <<>> => Len(E) = 0
  BY <1>1, <1>2, GrowFacts
<1>4. /\ h[0] = Singles(Len(Kept)) /\ \A k \in 1 .. Len(E) : h[k] = UnionOf(h[k - 1], E[k])
      /\ \A k \in 0 .. Len(E) : h[k] \in ForestsOn(Len(Kept))
  BY <1>3 DEF GrowsBy
<1>5. /\ stage = "join" => \E k \in 0 .. Len(E) : United_up(h, E, k)
      /\ stage \in {"gather", "fold"} => StandsAs(h[Len(E)])
  BY <1>0, <1>1, <1>2 DEF GrowInv
<1>6. SUFFICES ASSUME stage' \in {"join", "gather", "fold"}
               PROVE  /\ points' = Kept
                      /\ stage' = "join" => \E k \in 0 .. Len(E) : United_up(h, E, k)'
                      /\ stage' \in {"gather", "fold"} => StandsAs(h[Len(E)])'
  <2>1. CASE stage' \notin {"join", "gather", "fold"}
    BY <2>1 DEF GrowInv
  <2>2. CASE stage' \in {"join", "gather", "fold"}
    <3>1. /\ points' = Kept
          /\ stage' = "join" => \E k \in 0 .. Len(E) : United_up(h, E, k)'
          /\ stage' \in {"gather", "fold"} => StandsAs(h[Len(E)])'
      BY <1>6, <2>2
    <3>2. Edges(points)' = E /\ Grown(Len(points), Edges(points))' = h
      BY <1>1, <1>2, <3>1
    <3> QED
      BY <3>1, <3>2 DEF GrowInv
  <2> QED
    BY <2>1, <2>2
<1>7. CASE Classify
  <2>1. /\ points' = Kept /\ edges' = E /\ stage' = IF Kept = <<>> THEN "fold" ELSE "join"
        /\ New(Len(Kept)) /\ pair' = None
    BY <1>1, <1>7 DEF Classify, New, NoWalk
  <2>2. StandsAs(h[0])'
    <3>1. PICK f : f = Singles(Len(Kept))
      OBVIOUS
    <3>2. PICK n \in Nat : n = Len(Kept)
      BY <1>0
    <3>3. StandsAs(Singles(n))'
      BY <2>1, <3>2, SinglesStand
    <3>4. f = Singles(n)
      BY <3>1, <3>2
    <3>5. StandsAs(f)'
      BY <3>3, <3>4
    <3> QED
      BY <1>4, <3>1, <3>5
  <2>3. Len(edges') = Len(E) - 0 /\ \A i \in 1 .. Len(edges') : edges'[i] = E[i + 0]
    BY <1>3, <2>1
  <2>4. United_up(h, E, 0)'
    BY <2>1, <2>2, <2>3 DEF United_up
  <2>5. stage' = "fold" => Len(E) = 0
    BY <1>3, <2>1
  <2>6. 0 \in 0 .. Len(E)
    BY <1>3
  <2> QED
    BY <2>1, <2>2, <2>4, <2>5, <2>6
<1>8. CASE Join
  <2>1. /\ stage = "join" /\ edges # <<>> /\ UNCHANGED <<stage, points>>
        /\ edges' = Tail(edges) /\ pair = None /\ pair' = <<Head(edges)[1], Head(edges)[2]>>
        /\ UNCHANGED <<parent, rank>>
    BY <1>8 DEF Join, BeginUnion, NoWalk
  <2>2. pair' # None /\ pair' = Head(edges) /\ edges \in Seq(Slots \X Slots)
    BY <1>0, <1>8, <2>1, JoinTakes, PairIsSome, SlotsAreNat DEF JoinInv
  <2>3. PICK k \in 0 .. Len(E) : United_up(h, E, k)
    BY <1>5, <2>1
  <2>4. /\ Len(edges) = Len(E) - k /\ \A i \in 1 .. Len(edges) : edges[i] = E[i + k]
        /\ StandsAs(h[k])
    BY <2>1, <2>3 DEF United_up
  <2>5. /\ Len(edges) \in Nat \ {0} /\ Head(edges) = edges[1] /\ Len(edges') = Len(edges) - 1
        /\ \A i \in 1 .. Len(edges') : edges'[i] = edges[i + 1]
    BY <2>1, <2>2
  <2>6. k + 1 \in 1 .. Len(E) /\ k + 1 \in 0 .. Len(E) /\ (k + 1) - 1 = k /\ k + 1 > 0
    BY <1>3, <2>4, <2>5
  <2>7. Len(edges') = Len(E) - (k + 1) /\ \A i \in 1 .. Len(edges') : edges'[i] = E[i + (k + 1)]
    <3>1. \A i \in 1 .. Len(edges') : i + 1 \in 1 .. Len(edges) /\ (i + 1) + k = i + (k + 1)
      BY <2>5
    <3>2. \A i \in 1 .. Len(edges') : edges'[i] = E[i + (k + 1)]
      <4>1. SUFFICES ASSUME NEW i \in 1 .. Len(edges') PROVE edges'[i] = E[i + (k + 1)]
        OBVIOUS
      <4>2. edges'[i] = edges[i + 1] /\ edges[i + 1] = E[(i + 1) + k] /\ (i + 1) + k = i + (k + 1)
        BY <2>4, <2>5, <3>1
      <4> QED
        BY <4>2
    <3>3. Len(edges') = Len(E) - (k + 1)
      BY <1>3, <2>4, <2>5
    <3> QED
      BY <3>2, <3>3
  <2>8. pair' = E[k + 1]
    <3>1. 1 \in 1 .. Len(edges) /\ 1 + k = k + 1
      BY <2>5
    <3> QED
      BY <2>2, <2>4, <2>5, <3>1
  <2>9. PICK f : f = h[k]
    OBVIOUS
  <2>10. StandsAs(f)'
    BY <1>0, <2>1, <2>4, <2>9, StandsKept
  <2>11. United_up(h, E, k + 1)'
    BY <2>2, <2>6, <2>7, <2>8, <2>9, <2>10 DEF United_up
  <2> QED
    BY <1>0, <2>1, <2>6, <2>11
<1>9. CASE JoinEnd
  <2>1. /\ stage = "join" /\ edges = <<>> /\ pair = None /\ stage' = "gather" /\ points' = points
        /\ UNCHANGED <<parent, rank>>
    BY <1>9 DEF JoinEnd, forestVars, NoWalk
  <2>2. PICK k \in 0 .. Len(E) : United_up(h, E, k)
    BY <1>5, <2>1
  <2>3. StandsAs(h[k]) /\ Len(edges) = Len(E) - k /\ Len(edges) = 0
    BY <2>1, <2>2 DEF United_up
  <2>4. k = Len(E)
    BY <1>3, <2>3
  <2>5. PICK f : f = h[k]
    OBVIOUS
  <2>6. StandsAs(f)'
    BY <1>0, <2>1, <2>3, <2>5, StandsKept
  <2> QED
    BY <1>0, <2>1, <2>4, <2>5, <2>6
<1>10. CASE Find
  <2>1. /\ stage \in {"join", "gather"} /\ Walk /\ UNCHANGED <<stage, points, edges>>
    BY <1>10 DEF Find, workVars
  <2>2. CASE stage = "gather"
    <3>1. pair = None /\ first = None
      BY <1>0, <2>2 DEF JoinInv, IInv, ForestTypeOK
    <3>2. Halve
      BY <2>1, <3>1 DEF Walk, FoundFirst, SameTree, Link, BothFound
    <3>3. PICK f : f = h[Len(E)]
      OBVIOUS
    <3>4. StandsAs(f)'
      BY <1>0, <1>5, <2>2, <3>2, <3>3, StandsKept
    <3> QED
      BY <1>0, <2>1, <2>2, <3>3, <3>4
  <2>3. CASE stage = "join"
    <3>1. PICK k \in 0 .. Len(E) : United_up(h, E, k)
      BY <1>5, <2>3
    <3>2. CASE Halve \/ FoundFirst
      <4>1. pair' = pair /\ (Halve \/ UNCHANGED <<parent, rank>>)
        BY <3>2 DEF Halve, FoundFirst
      <4>2. \A f : StandsAs(f) => StandsAs(f)'
        BY <1>0, <4>1, StandsKept
      <4>3. PICK f, g : f = h[k] /\ g = h[k - 1]
        OBVIOUS
      <4>4. (StandsAs(f) => StandsAs(f)') /\ (StandsAs(g) => StandsAs(g)')
        BY <4>2
      <4>5. United_up(h, E, k)'
        BY <2>1, <3>1, <4>1, <4>3, <4>4 DEF United_up
      <4> QED
        BY <1>0, <2>1, <2>3, <4>5
    <3>3. CASE SameTree \/ Link
      <4>1. first # None /\ pair' = None
        BY <3>3 DEF SameTree, Link, BothFound, EndUnion
      <4>2. pair # None
        BY <1>0, <4>1 DEF IInv, ForestTypeOK
      <4>3. k > 0 /\ pair = E[k] /\ StandsAs(h[k - 1])
        BY <3>1, <4>2 DEF United_up
      <4>4. k \in 1 .. Len(E) /\ k - 1 \in 0 .. Len(E)
        BY <1>3, <4>3
      <4>5. PICK f, g : f = h[k - 1] /\ g = h[k]
        OBVIOUS
      <4>6. f \in ForestsOn(Len(Kept)) /\ StandsAs(f) /\ g = UnionOf(f, pair)
        BY <1>4, <4>3, <4>4, <4>5
      <4>7. StandsAs(g)'
        BY <1>0, <2>3, <3>3, <4>6, UnionEnds
      <4>8. United_up(h, E, k)'
        BY <2>1, <3>1, <4>1, <4>5, <4>7 DEF United_up
      <4> QED
        BY <1>0, <2>1, <2>3, <4>8
    <3> QED
      BY <2>1, <3>2, <3>3 DEF Walk
  <2> QED
    BY <2>1, <2>2, <2>3
<1>11. CASE Gather \/ Gathered \/ GatherEnd
  <2>1. stage = "gather" /\ stage' \in {"gather", "fold"} /\ points' = points /\ UNCHANGED <<parent, rank>>
    BY <1>11 DEF Gather, Gathered, GatherEnd, BeginFind, EndFind, forestVars, workVars
  <2>2. PICK f : f = h[Len(E)]
    OBVIOUS
  <2>3. StandsAs(f)'
    BY <1>0, <1>5, <2>1, <2>2, StandsKept
  <2> QED
    BY <1>0, <2>1, <2>2, <2>3
<1>12. CASE Fold
  BY <1>6, <1>12 DEF Fold
<1> QED
  BY <1>7, <1>8, <1>9, <1>10, <1>11, <1>12 DEF ClusterNext

\* A list in ascending order.
Ascends(q) == \A i, j \in DOMAIN q : i < j => q[i] < q[j]

\* A set of naturals in ascending order.
Ascending(S) == InOrder(S, [s \in S |-> <<s>>])

(* A list over a set is one over a larger.                                    *)
LEMMA SeqWidens ==
  ASSUME NEW S, NEW T, S \subseteq T, NEW q \in Seq(S)
  PROVE  q \in Seq(T)
<1>1. PICK n \in Nat : n = Len(q)
  OBVIOUS
<1>2. q = [k \in 1 .. n |-> q[k]] /\ \A k \in 1 .. n : q[k] \in S
  BY <1>1
<1>3. \A k \in 1 .. n : q[k] \in T
  BY <1>2
<1>4. [k \in 1 .. n |-> q[k]] \in Seq(T)
  BY <1>3
<1> QED
  BY <1>2, <1>4

(* What ascends is its range in order.                                        *)
LEMMA AscendsInOrder ==
  ASSUME NEW q \in Seq(Nat), Ascends(q), NEW S, S = Range(q)
  PROVE  q = Ascending(S)
<1>1. PICK n \in Nat : n = Len(q)
  OBVIOUS
<1>2. q \in [1 .. n -> Nat] /\ DOMAIN q = 1 .. n /\ S = {q[k] : k \in 1 .. n}
  BY <1>1 DEF Range
<1>3. \A i, j \in 1 .. n : q[i] < q[j] <=> i < j
  <2>1. ASSUME NEW i \in 1 .. n, NEW j \in 1 .. n PROVE q[i] < q[j] <=> i < j
    <3>1. q[i] \in Nat /\ q[j] \in Nat
      BY <1>2
    <3>2. i < j \/ i = j \/ j < i
      OBVIOUS
    <3>3. (i < j => q[i] < q[j]) /\ (j < i => q[j] < q[i])
      BY <1>2 DEF Ascends
    <3> QED
      BY <3>1, <3>2, <3>3
  <2> QED
    BY <2>1
<1>4. \A i, j \in 1 .. n : q[i] = q[j] => i = j
  <2>1. ASSUME NEW i \in 1 .. n, NEW j \in 1 .. n, q[i] = q[j] PROVE i = j
    <3>1. q[i] \in Nat /\ ~(q[i] < q[j]) /\ ~(q[j] < q[i])
      BY <1>2, <2>1
    <3>2. ~(i < j) /\ ~(j < i)
      BY <1>3, <3>1
    <3> QED
      BY <3>2
  <2> QED
    BY <2>1
<1>5. ASSUME NEW k \in 0 .. n, NEW T, T = {q[m] : m \in 1 .. k} PROVE Cardinality(T) = k
  <2>1. PICK b : b = [m \in 1 .. k |-> q[m]]
    OBVIOUS
  <2>2. b \in Bijection(1 .. k, T)
    <3>1. \A m \in 1 .. k : m \in 1 .. n
      OBVIOUS
    <3>2. b \in [1 .. k -> T] /\ \A x \in T : \E m \in 1 .. k : b[m] = x
      BY <1>5, <2>1
    <3>3. \A i, j \in 1 .. k : b[i] = b[j] => i = j
      BY <1>4, <2>1, <3>1
    <3> QED
      BY <3>2, <3>3 DEF Bijection, Injection, Surjection, IsInjective
  <2>3. IsFiniteSet(1 .. k) /\ Cardinality(1 .. k) = k
    BY FS_Interval
  <2>4. ExistsBijection(1 .. k, T)
    BY <2>2 DEF ExistsBijection
  <2> QED
    BY <2>3, <2>4, FS_Bijection
<1>6. Cardinality(S) = n
  <2>1. n \in 0 .. n
    OBVIOUS
  <2> QED
    BY <1>2, <1>5, <2>1
<1>7. PICK key : key = [s \in S |-> <<s>>]
  OBVIOUS
<1>8. ASSUME NEW k \in 1 .. n PROVE q[k] \in S /\ Cardinality(Before(S, key, q[k])) = k - 1
  <2>1. q[k] \in S
    BY <1>2
  <2>2. ASSUME NEW y \in S PROVE Lexicographic(key[y], key[q[k]]) <=> y < q[k]
    <3>1. key[y] = <<y>> /\ key[q[k]] = <<q[k]>>
      BY <1>7, <2>1
    <3>2. Len(<<y>>) = 1 /\ <<y>>[1] = y /\ <<q[k]>>[1] = q[k]
      OBVIOUS
    <3> QED
      BY <3>1, <3>2 DEF Lexicographic
  <2>3. Before(S, key, q[k]) = {q[m] : m \in 1 .. k - 1}
    <3>1. Before(S, key, q[k]) = {y \in S : y < q[k]}
      BY <2>2 DEF Before
    <3>2. \A m \in 1 .. k - 1 : m \in 1 .. n /\ m < k
      OBVIOUS
    <3>3. \A m \in 1 .. n : m < k => m \in 1 .. k - 1
      OBVIOUS
    <3>4. \A y \in S : y < q[k] => y \in {q[m] : m \in 1 .. k - 1}
      BY <1>2, <1>3, <3>3
    <3>5. \A m \in 1 .. k - 1 : q[m] \in S /\ q[m] < q[k]
      BY <1>2, <1>3, <3>2
    <3> QED
      BY <3>1, <3>4, <3>5
  <2>4. k - 1 \in 0 .. n
    OBVIOUS
  <2> QED
    BY <1>5, <2>1, <2>3, <2>4
<1>9. ASSUME NEW k \in 1 .. n PROVE (CHOOSE x \in S : Cardinality(Before(S, key, x)) = k - 1) = q[k]
  <2>1. \A x \in S : Cardinality(Before(S, key, x)) = k - 1 => x = q[k]
    <3>1. SUFFICES ASSUME NEW x \in S, Cardinality(Before(S, key, x)) = k - 1 PROVE x = q[k]
      OBVIOUS
    <3>2. PICK j \in 1 .. n : x = q[j]
      BY <1>2
    <3>3. j - 1 = k - 1
      BY <1>8, <3>1, <3>2
    <3> QED
      BY <3>2, <3>3
  <2> QED
    BY <1>8, <2>1
<1>10. InOrder(S, key) = [k \in 1 .. n |-> q[k]]
  BY <1>6, <1>9 DEF InOrder
<1>11. q = [k \in 1 .. n |-> q[k]]
  BY <1>2
<1> QED
  BY <1>7, <1>10, <1>11 DEF Ascending

\* What is gathered is in the order it was gathered in.
AscendInv ==
  stage \in {"gather", "fold"} =>
    /\ groups = [r \in DOMAIN groups |-> groups[r]]
    /\ \A r \in DOMAIN groups : Ascends(groups[r])

(* The next slot is above all that were gathered.                             *)
LEMMA AppendAscends ==
  ASSUME NEW q \in Seq(Nat), Ascends(q), NEW s \in Nat, Range(q) \subseteq 0 .. s - 1
  PROVE  Ascends(Append(q, s))
<1>1. PICK n \in Nat : n = Len(q)
  OBVIOUS
<1>2. PICK p : p = Append(q, s)
  OBVIOUS
<1>3. DOMAIN q = 1 .. n /\ DOMAIN p = 1 .. n + 1 /\ (\A i \in 1 .. n : p[i] = q[i]) /\ p[n + 1] = s
  BY <1>1, <1>2
<1>4. ASSUME NEW i \in 1 .. n + 1, NEW j \in 1 .. n + 1, i < j PROVE p[i] < p[j]
  <2>1. i \in 1 .. n
    BY <1>4
  <2>2. p[i] = q[i] /\ q[i] \in Range(q)
    BY <1>3, <2>1 DEF Range
  <2>3. CASE j = n + 1
    <3>1. q[i] \in 0 .. s - 1
      BY <2>2
    <3> QED
      BY <1>3, <2>2, <2>3, <3>1
  <2>4. CASE j # n + 1
    <3>1. j \in 1 .. n
      BY <2>4
    <3>2. q[i] < q[j]
      BY <1>3, <1>4, <2>1, <3>1 DEF Ascends
    <3> QED
      BY <1>3, <2>2, <3>1, <3>2
  <2> QED
    BY <2>3, <2>4
<1> QED
  BY <1>2, <1>3, <1>4 DEF Ascends

\* Every step keeps it.
LEMMA AscendInvNext ==
  ASSUME Standing, AscendInv, ClusterNext
  PROVE  AscendInv'
<1>0. GatherInv /\ IInv
  BY DEF Standing
<1>1. CASE stage' \notin {"gather", "fold"}
  BY <1>1 DEF AscendInv
<1>2. CASE stage' \in {"gather", "fold"} /\ groups' = groups /\ stage \in {"gather", "fold"}
  BY <1>2 DEF AscendInv
<1>3. CASE groups' = <<>>
  <2>1. DOMAIN groups' = {} /\ groups' = [r \in {} |-> groups'[r]]
    BY <1>3
  <2> QED
    BY <2>1 DEF AscendInv
<1>4. CASE Gathered
  <2>1. stage = "gather" /\ stage' = stage /\ node \in Slots /\ node # None
    BY <1>0, <1>4 DEF Gathered, EndFind, IInv, ForestTypeOK
  <2>2. PICK root : RootMap(root) /\ GroupsOf(root) /\ slot < Len(points)
    BY <1>0, <2>1 DEF GatherInv
  <2>3. slot \in Nat
    BY <1>0, <2>1 DEF GatherInv
  <2>4. PICK members : members = IF node \in DOMAIN groups THEN groups[node] ELSE <<>>
    OBVIOUS
  <2>5. groups' = [r \in DOMAIN groups \cup {node} |-> IF r = node THEN Append(members, slot) ELSE groups[r]]
    BY <1>4, <2>4 DEF Gathered
  <2>6. members \in Seq(Nat) /\ Ascends(members) /\ Range(members) \subseteq 0 .. slot - 1
    <3>1. CASE node \in DOMAIN groups
      <4>1. members \in Seq(Slots) /\ Range(members) \subseteq 0 .. slot - 1 /\ Ascends(members)
        BY <2>1, <2>2, <2>4, <3>1 DEF GroupsOf, AscendInv
      <4>2. Slots \subseteq Nat
        BY <1>0, SlotsAreNat
      <4>3. members \in Seq(Nat)
        BY <4>1, <4>2, SeqWidens
      <4> QED
        BY <4>1, <4>3
    <3>2. CASE node \notin DOMAIN groups
      BY <2>4, <3>2 DEF Ascends, Range
    <3> QED
      BY <3>1, <3>2
  <2>7. Ascends(Append(members, slot))
    BY <2>3, <2>6, AppendAscends
  <2>8. PICK more : more = Append(members, slot)
    OBVIOUS
  <2>9. /\ DOMAIN groups' = DOMAIN groups \cup {node} /\ groups' = [r \in DOMAIN groups' |-> groups'[r]]
        /\ \A r \in DOMAIN groups' : groups'[r] = IF r = node THEN more ELSE groups[r]
    BY <2>5, <2>8
  <2>10. \A r \in DOMAIN groups' : Ascends(groups'[r])
    BY <2>1, <2>7, <2>8, <2>9 DEF AscendInv
  <2>11. \A r \in DOMAIN groups' : Ascends(groups[r])' <=> Ascends(groups'[r])
    BY DEF Ascends
  <2> QED
    BY <2>9, <2>10, <2>11 DEF AscendInv
<1>5. CASE Classify
  BY <1>3, <1>5 DEF Classify
<1>6. CASE JoinEnd
  <2>1. groups = <<>> /\ groups' = groups
    BY <1>0, <1>6 DEF JoinEnd, GatherInv
  <2> QED
    BY <1>3, <2>1
<1>7. CASE Join \/ Fold
  BY <1>1, <1>7 DEF Join, Fold
<1>8. CASE Find \/ Gather \/ GatherEnd
  BY <1>1, <1>2, <1>8 DEF Find, Gather, GatherEnd, workVars
<1> QED
  BY <1>4, <1>5, <1>6, <1>7, <1>8 DEF ClusterNext

\* The slots of every tree of n, by its root.
GroupsIn(n, label) ==
  [r \in {label[s] : s \in 0 .. n - 1} |-> Ascending({s \in 0 .. n - 1 : label[s] = r})]

\* The trees when all is united.
LabelsOf(pts) == Grown(Len(pts), Edges(pts))[Len(Edges(pts))].label

(* What is gathered is a function of what was to be joined.                   *)
LEMMA GatheredAre ==
  ASSUME Standing, GrowInv, AscendInv, stage = "fold"
  PROVE  points = Kept /\ groups = GroupsIn(Len(points), LabelsOf(points))
<1>1. /\ IInv /\ points = Kept /\ Slots = 0 .. Len(points) - 1 /\ Len(points) \in Nat /\ GatherInv
      /\ slot = Len(points)
  BY StandingFacts DEF GatherInv
<1>2. PICK label : label = LabelsOf(points)
  OBVIOUS
<1>3. RootMap(label)
  BY <1>2 DEF GrowInv, StandsAs, LabelsOf
<1>4. PICK root : RootMap(root) /\ GroupsOf(root)
  BY <1>1 DEF GatherInv
<1>5. root = label
  BY <1>1, <1>3, <1>4, OneRootMap
<1>6. /\ DOMAIN groups = {label[s] : s \in 0 .. Len(points) - 1}
      /\ \A r \in DOMAIN groups : /\ groups[r] \in Seq(Slots)
                                  /\ Range(groups[r]) = {s \in 0 .. Len(points) - 1 : label[s] = r}
  BY <1>1, <1>4, <1>5 DEF GroupsOf
<1>7. ASSUME NEW r \in DOMAIN groups
      PROVE  groups[r] = Ascending({s \in 0 .. Len(points) - 1 : label[s] = r})
  <2>1. PICK q : q = groups[r]
    OBVIOUS
  <2>2. q \in Seq(Slots) /\ Ascends(q) /\ Range(q) = {s \in 0 .. Len(points) - 1 : label[s] = r}
    BY <1>6, <2>1 DEF AscendInv
  <2>3. Slots \subseteq Nat
    BY <1>1, SlotsAreNat
  <2>4. q \in Seq(Nat)
    BY <2>2, <2>3, SeqWidens
  <2>5. PICK S : S = Range(q)
    OBVIOUS
  <2>6. q = Ascending(S)
    BY <2>2, <2>4, <2>5, AscendsInOrder
  <2> QED
    BY <2>1, <2>2, <2>5, <2>6
<1>8. groups = [r \in DOMAIN groups |-> groups[r]]
  BY DEF AscendInv
<1> QED
  BY <1>1, <1>2, <1>6, <1>7, <1>8 DEF GroupsIn

-------------------------------------------------------------------------------
\* What a clustering returns is a function of the field. Each operator is the
\* one of Clustering or Verify of the same name at the field f and the pass o.

ItemsIn(f, o) == IF o = "samples" THEN f.samples ELSE f.facets

CoveredIn(f, p) ==
  \E s \in Range(f.samples) : Neighbours(cell_of(p), cell_of(s.near)) /\ Within(s.near, p)

ClassIn(f, o, i) ==
  IF o = "samples" THEN classify(f.samples[i])
  ELSE LET c == f.facets[i]
       IN  CASE CoveredIn(f, c.at) \/ c.faces = None -> None
             [] ~CoveredIn(f, c.at) /\ c.faces = "down" -> "undercut"
             [] ~CoveredIn(f, c.at) /\ c.faces = "up" -> "unreachable"

OrderIn(f, o) == InOrder({i \in DOMAIN ItemsIn(f, o) : ClassIn(f, o, i) # None}, [i \in DOMAIN ItemsIn(f, o) |-> <<i>>])

KeptIn(f, o) ==
  [k \in DOMAIN OrderIn(f, o) |->
    [of |-> OrderIn(f, o)[k], at |-> ItemsIn(f, o)[OrderIn(f, o)[k]].at, class |-> ClassIn(f, o, OrderIn(f, o)[k])]]

DepthIn(f, o, i) == IF o = "samples" THEN Abs(f.samples[i].signed) ELSE 0

DeepestIn(f, o, members) ==
  CHOOSE k \in DOMAIN members :
    /\ \A j \in DOMAIN members : DepthIn(f, o, members[j]) <= DepthIn(f, o, members[k])
    /\ \A j \in 1 .. k - 1 : DepthIn(f, o, members[j]) < DepthIn(f, o, members[k])

ProbesIn(f, members, worst_at) ==
  LET n == Len(members)
      step == (n + PROBES - 2) \div (PROBES - 1)
      stepped == [k \in 1 .. (n + step - 1) \div step |-> f.samples[members[(k - 1) * step + 1]].at]
      all == <<worst_at>> \o IF n > 1 THEN stepped ELSE <<>>
      firsts == InOrder({k \in DOMAIN all : \A j \in 1 .. k - 1 : all[j] # all[k]}, [k \in DOMAIN all |-> <<k>>])
  IN  [k \in 1 .. Smallest({Len(firsts), PROBES}) |-> all[firsts[k]]]

ClusterIn(f, o, pts, slots) ==
  LET members == [k \in DOMAIN slots |-> pts[slots[k] + 1].of]
      places == [k \in DOMAIN slots |-> pts[slots[k] + 1].at]
      at == <<SumOf([k \in DOMAIN places |-> places[k][1]]), SumOf([k \in DOMAIN places |-> places[k][2]])>>
      worst_at == IF o = "samples" THEN places[DeepestIn(f, o, members)] ELSE at
      side(d) == {p[d] : p \in Range(places)}
  IN  [class |-> pts[slots[1] + 1].class, members |-> members,
       worst |-> DepthIn(f, o, members[DeepestIn(f, o, members)]),
       total |-> SumOf([k \in DOMAIN members |-> DepthIn(f, o, members[k])]),
       worst_at |-> worst_at, at |-> at,
       bounds |-> << <<Smallest(side(1)), Smallest(side(2))>>, <<Largest(side(1)), Largest(side(2))>> >>,
       probes |-> IF o = "samples" THEN ProbesIn(f, members, worst_at) ELSE <<>>]

\* The trees of what is to be joined, in order, each folded.
TreesIn(pts) == GroupsIn(Len(pts), LabelsOf(pts))

FoldedIn(f, o) ==
  LET pts == KeptIn(f, o)
      roots == Ascending(DOMAIN TreesIn(pts))
  IN  [i \in DOMAIN roots |-> ClusterIn(f, o, pts, TreesIn(pts)[roots[i]])]

ClustersIn(f) == sort_canonically(FoldedIn(f, "samples"))
MissingIn(f) == sort_canonically(FoldedIn(f, "facets"))

FoundIn(f) == identify(sort_canonically(ClustersIn(f) \o MissingIn(f)), Radius)

\* What is kept is.
LEMMA KeptIs == Kept = KeptIn(field, of)
<1>1. Items = ItemsIn(field, of)
  BY DEF Items, ItemsIn
<1>2. \A p : covered(p) = CoveredIn(field, p)
  BY DEF covered, CoveredIn
<1>3. ASSUME NEW i PROVE class_of(i) = ClassIn(field, of, i)
  <2>1. CASE of = "samples"
    BY <2>1 DEF class_of, ClassIn
  <2>2. CASE of # "samples"
    <3>1. PICK c : c = field.facets[i]
      OBVIOUS
    <3>2. PICK b : b = covered(c.at)
      OBVIOUS
    <3>3. b = CoveredIn(field, c.at)
      BY <1>2, <3>2
    <3>4. class_of(i) = CASE b \/ c.faces = None -> None
                          [] ~b /\ c.faces = "down" -> "undercut"
                          [] ~b /\ c.faces = "up" -> "unreachable"
      BY <2>2, <3>1, <3>2, Zenon DEF class_of
    <3>5. ClassIn(field, of, i) = CASE b \/ c.faces = None -> None
                                    [] ~b /\ c.faces = "down" -> "undercut"
                                    [] ~b /\ c.faces = "up" -> "unreachable"
      BY <2>2, <3>1, <3>3, Zenon DEF ClassIn
    <3> QED
      BY <3>4, <3>5
  <2> QED
    BY <2>1, <2>2
<1>4. PICK order : order = OrderIn(field, of)
  OBVIOUS
<1>5. order = InOrder({i \in DOMAIN Items : class_of(i) # None}, [i \in DOMAIN Items |-> <<i>>])
  BY <1>1, <1>3, <1>4 DEF OrderIn
<1>6. Kept = [k \in DOMAIN order |-> [of |-> order[k], at |-> Items[order[k]].at, class |-> class_of(order[k])]]
  BY <1>5 DEF Kept
<1>7. QED
  BY <1>1, <1>3, <1>4, <1>6 DEF KeptIn

\* A cluster is.
LEMMA ClusterIs ==
  ASSUME NEW q
  PROVE  Cluster(q) = ClusterIn(field, of, points, q)
<1>1. \A i : Depth(i) = DepthIn(field, of, i)
  BY DEF Depth, DepthIn
<1>2. \A m : Deepest(m) = DeepestIn(field, of, m)
  BY <1>1 DEF Deepest, DeepestIn
<1>3. \A m, w : probe_points(m, w) = ProbesIn(field, m, w)
  BY Zenon DEF probe_points, ProbesIn
<1> DEFINE members == [k \in DOMAIN q |-> points[q[k] + 1].of]
           places == [k \in DOMAIN q |-> points[q[k] + 1].at]
           at == <<SumOf([k \in DOMAIN places |-> places[k][1]]), SumOf([k \in DOMAIN places |-> places[k][2]])>>
           side(d) == {p[d] : p \in Range(places)}
           bounds == << <<Smallest(side(1)), Smallest(side(2))>>, <<Largest(side(1)), Largest(side(2))>> >>
           w == IF of = "samples" THEN places[Deepest(members)] ELSE at
           wIn == IF of = "samples" THEN places[DeepestIn(field, of, members)] ELSE at
<1>4. Cluster(q) = [class |-> points[q[1] + 1].class, members |-> members,
        worst |-> Depth(members[Deepest(members)]), total |-> SumOf([k \in DOMAIN members |-> Depth(members[k])]),
        worst_at |-> w, at |-> at, bounds |-> bounds,
        probes |-> IF of = "samples" THEN probe_points(members, w) ELSE <<>>]
  BY DEF Cluster
<1>5. ClusterIn(field, of, points, q) = [class |-> points[q[1] + 1].class, members |-> members,
        worst |-> DepthIn(field, of, members[DeepestIn(field, of, members)]),
        total |-> SumOf([k \in DOMAIN members |-> DepthIn(field, of, members[k])]),
        worst_at |-> wIn, at |-> at, bounds |-> bounds,
        probes |-> IF of = "samples" THEN ProbesIn(field, members, wIn) ELSE <<>>]
  BY DEF ClusterIn
<1>6. w = wIn
  BY <1>2
<1>7. [k \in DOMAIN members |-> Depth(members[k])] = [k \in DOMAIN members |-> DepthIn(field, of, members[k])]
  BY <1>1
<1>8. Depth(members[Deepest(members)]) = DepthIn(field, of, members[DeepestIn(field, of, members)])
  BY <1>1, <1>2
<1>9. probe_points(members, w) = ProbesIn(field, members, wIn)
  BY <1>3, <1>6
<1> HIDE DEF members, w, wIn, at, bounds
<1> QED
  BY <1>4, <1>5, <1>6, <1>7, <1>8, <1>9

\* What is folded is.
LEMMA FoldedIs ==
  ASSUME Standing, GrowInv, AscendInv, stage = "fold"
  PROVE  Folded = FoldedIn(field, of)
<1>1. PICK pts : pts = KeptIn(field, of)
  OBVIOUS
<1>2. points = pts /\ groups = TreesIn(pts)
  BY <1>1, GatheredAre, KeptIs DEF TreesIn
<1>3. PICK roots : roots = Ascending(DOMAIN groups)
  OBVIOUS
<1>4. Folded = [i \in DOMAIN roots |-> Cluster(groups[roots[i]])]
  BY <1>3 DEF Folded, Ascending
<1>5. \A i \in DOMAIN roots : Cluster(groups[roots[i]]) = ClusterIn(field, of, pts, groups[roots[i]])
  BY <1>2, ClusterIs
<1>6. Folded = [i \in DOMAIN roots |-> ClusterIn(field, of, pts, groups[roots[i]])]
  BY <1>4, <1>5
<1>7. FoldedIn(field, of) = [i \in DOMAIN roots |-> ClusterIn(field, of, pts, TreesIn(pts)[roots[i]])]
  BY <1>1, <1>2, <1>3 DEF FoldedIn
<1> QED
  BY <1>2, <1>6, <1>7

\* What a cut can have caused, and what was not looked at.
Caused == {"gouge", "excess-stock"}
Unseen == {"undercut", "unreachable"}

\* A list of clusters of these classes.
ListOf(found, classes) ==
  \E m \in Nat : /\ AllTyped(found, m) /\ found = [i \in 1 .. m |-> found[i]]
                 /\ \A i \in 1 .. m : found[i].class \in classes

\* Nothing that was not looked at has a depth.
Flat(found) == \A i \in DOMAIN found : found[i].worst = 0 /\ found[i].total \in Int

\* The two folds of a field.
FineSamples(f) == IsField(f) /\ ListOf(FoldedIn(f, "samples"), Caused)
FineFacets(f) == ListOf(FoldedIn(f, "facets"), Unseen) /\ Flat(FoldedIn(f, "facets"))

\* What is joined is of the classes of its pass.
LEMMA KeptClasses ==
  ASSUME InputOK, NEW x \in Chosen
  PROVE  class_of(x) \in IF of = "samples" THEN Caused ELSE Unseen
<1>1. x \in DOMAIN Items /\ class_of(x) # None
  BY DEF Chosen
<1>2. CASE of = "samples"
  <2>1. field.samples[x] \in Sample
    BY <1>1, <1>2 DEF Items, InputOK, IsField
  <2>2. PICK d \in Int : d = field.samples[x].signed
    BY <2>1 DEF Sample
  <2>3. class_of(x) = CASE d <= Tolerance /\ -d <= Tolerance -> None
                        [] d < -Tolerance -> "gouge"
                        [] d > Tolerance -> "excess-stock"
    BY <1>2, <2>2 DEF class_of, classify
  <2> QED
    BY <1>1, <1>2, <2>2, <2>3, ClusteringAssumption DEF Caused
<1>3. CASE of # "samples"
  <2>1. field.facets[x] \in Facet
    BY <1>1, <1>3 DEF Items, InputOK, IsField
  <2>2. PICK c : c = field.facets[x]
    OBVIOUS
  <2>3. c.faces \in {"up", "down", None}
    BY <2>1, <2>2 DEF Facet
  <2>4. class_of(x) = CASE covered(c.at) \/ c.faces = None -> None
                        [] ~covered(c.at) /\ c.faces = "down" -> "undercut"
                        [] ~covered(c.at) /\ c.faces = "up" -> "unreachable"
    BY <1>3, <2>2, Zenon DEF class_of
  <2> QED
    BY <1>1, <1>3, <2>3, <2>4 DEF Unseen
<1> QED
  BY <1>2, <1>3

\* A fold is a list of clusters of the classes of its pass.
LEMMA FoldedListed ==
  ASSUME Standing, stage = "fold"
  PROVE  /\ ListOf(Folded, IF of = "samples" THEN Caused ELSE Unseen)
         /\ of # "samples" => Flat(Folded)
<1>1. /\ JoinInv /\ IInv /\ GatherInv /\ InputOK /\ KeptFacts(points) /\ Len(points) \in Nat
      /\ Slots = 0 .. Len(points) - 1
  BY StandingFacts
<1>2. PICK root : RootMap(root) /\ GroupsOf(root)
  BY <1>1 DEF GatherInv
<1>3. AllJoined(root) /\ slot = Len(points)
  BY <1>1, <1>2 DEF AllJoined, JoinInv, GatherInv
<1>4. PICK m \in Nat : \E r : TreesOf(Folded, root, m, r)
  BY <1>2, <1>3, FoldedTrees
<1>5. PICK r : TreesOf(Folded, root, m, r)
  BY <1>4
<1>6. AllTyped(Folded, m) /\ DOMAIN Folded = 1 .. m
  BY <1>5 DEF TreesOf, AllTyped
<1>7. PICK roots : roots = InOrder(DOMAIN groups, [x \in DOMAIN groups |-> <<x>>])
  OBVIOUS
<1>8. Folded = [i \in DOMAIN roots |-> Cluster(groups[roots[i]])]
  BY <1>7 DEF Folded
<1>9. DOMAIN roots = 1 .. m /\ Folded = [i \in 1 .. m |-> Folded[i]]
  BY <1>6, <1>8
<1>10. ASSUME NEW i \in 1 .. m PROVE Folded[i].class \in IF of = "samples" THEN Caused ELSE Unseen
  <2>1. PICK s \in Slots : root[s] = r[i]
    BY <1>5 DEF TreesOf
  <2>2. points[s + 1].class = Folded[i].class
    BY <1>5, <2>1 DEF TreesOf
  <2>3. s + 1 \in 1 .. Len(points)
    BY <1>1
  <2>4. points[s + 1].of \in Chosen /\ points[s + 1].class = class_of(points[s + 1].of)
    BY <1>1, <2>3 DEF KeptFacts
  <2> QED
    BY <1>1, <2>2, <2>4, KeptClasses
<1>11. ASSUME of # "samples", NEW i \in 1 .. m PROVE Folded[i].worst = 0 /\ Folded[i].total \in Int
  <2>1. PICK q : q = groups[roots[i]]
    OBVIOUS
  <2>2. Folded[i] = Cluster(q)
    BY <1>8, <1>9, <2>1
  <2>3. \A x : Depth(x) = 0
    BY <1>11 DEF Depth
  <2>4. PICK members : members = [k \in DOMAIN q |-> points[q[k] + 1].of]
    OBVIOUS
  <2>5. Cluster(q).worst = Depth(members[Deepest(members)])
    BY <2>4 DEF Cluster
  <2>6. Cluster(q).total = SumOf([k \in DOMAIN members |-> Depth(members[k])]) /\ Cluster(q).members = members
    BY <2>4 DEF Cluster
  <2>7. members \in Seq(Nat)
    BY <1>6, <2>2, <2>6 DEF AllTyped, ClusterTyped
  <2>8. PICK n \in Nat : DOMAIN members = 1 .. n
    BY <2>7
  <2>9. PICK zeros : zeros = [k \in DOMAIN members |-> Depth(members[k])]
    OBVIOUS
  <2>10. zeros \in [1 .. n -> Int]
    BY <2>3, <2>8, <2>9
  <2>11. SumOf(zeros) \in Int
    BY <2>10, SumTyped
  <2> QED
    BY <2>2, <2>3, <2>5, <2>6, <2>9, <2>11
<1> QED
  BY <1>6, <1>9, <1>10, <1>11 DEF ListOf, Flat

\* What was returned is what the field says.
AnswersIn ==
  /\ of = "facets" => clusters = ClustersIn(field) /\ FineSamples(field)
  /\ stage = "done" => missing = MissingIn(field) /\ FineFacets(field)

\* All of it.
Whole == GrowInv /\ AscendInv /\ AnswersIn

\* Every step of a clustering keeps it.
LEMMA WholeNext ==
  ASSUME Standing, AnswerInv, Whole, ClusterNext
  PROVE  Whole'
<1>1. GrowInv' /\ AscendInv'
  BY GrowInvNext, AscendInvNext DEF Whole
<1>2. CASE Fold
  <2>1. /\ stage = "fold" /\ field' = field
        /\ IF of = "samples" THEN clusters' = sort_canonically(Folded) /\ missing' = missing
                             ELSE missing' = sort_canonically(Folded) /\ clusters' = clusters
        /\ IF of = "samples" THEN of' = "facets" /\ stage' = "classify" ELSE of' = of /\ stage' = "done"
    BY <1>2 DEF Fold
  <2>2. Folded = FoldedIn(field, of) /\ IsField(field) /\ of \in {"samples", "facets"}
    BY <2>1, FoldedIs DEF Whole, Standing, InputOK
  <2>3. PICK f : f = field
    OBVIOUS
  <2>4. field' = f
    BY <2>1, <2>3
  <2>5. CASE of = "samples"
    <3>1. ListOf(FoldedIn(f, "samples"), Caused)
      <4>1. ListOf(Folded, Caused)
        BY <2>1, <2>5, FoldedListed
      <4> QED
        BY <2>2, <2>3, <2>5, <4>1
    <3>2. clusters' = ClustersIn(f) /\ FineSamples(f)
      BY <2>1, <2>2, <2>3, <2>5, <3>1 DEF ClustersIn, FineSamples
    <3> QED
      BY <1>1, <2>1, <2>4, <2>5, <3>2 DEF Whole, AnswersIn
  <2>6. CASE of = "facets"
    <3>1. ListOf(FoldedIn(f, "facets"), Unseen) /\ Flat(FoldedIn(f, "facets"))
      <4>1. ListOf(Folded, Unseen) /\ Flat(Folded)
        BY <2>1, <2>6, FoldedListed
      <4> QED
        BY <2>2, <2>3, <2>6, <4>1
    <3>2. missing' = MissingIn(f) /\ FineFacets(f)
      BY <2>1, <2>2, <2>3, <2>6, <3>1 DEF MissingIn, FineFacets
    <3>3. clusters' = ClustersIn(f) /\ FineSamples(f)
      BY <2>1, <2>3, <2>6 DEF Whole, AnswersIn
    <3> QED
      BY <1>1, <2>4, <3>2, <3>3 DEF Whole, AnswersIn
  <2> QED
    BY <2>2, <2>5, <2>6
<1>3. CASE ~Fold
  <2>1. field' = field /\ of' = of /\ clusters' = clusters
    BY <1>3 DEF ClusterNext, Classify, Join, JoinEnd, Find, Gather, Gathered, GatherEnd, workVars
  <2>2. stage' # "done"
    BY <1>3 DEF ClusterNext, Classify, Join, JoinEnd, Find, Gather, Gathered, GatherEnd, workVars
  <2>3. PICK f : f = field
    OBVIOUS
  <2>4. of = "facets" => clusters = ClustersIn(f) /\ FineSamples(f)
    BY <2>3 DEF Whole, AnswersIn
  <2> QED
    BY <1>1, <2>1, <2>2, <2>3, <2>4 DEF Whole, AnswersIn
<1> QED
  BY <1>2, <1>3

\* What does not touch the clustering leaves it as it is.
LEMMA WholeSame ==
  ASSUME Standing, Whole, UNCHANGED vars
  PROVE  Whole'
<1>1. UNCHANGED forestVars /\ UNCHANGED <<field, stage, of, points, edges, slot, groups, clusters, missing>>
  BY DEF vars, workVars
<1>2. parent' = parent /\ rank' = rank /\ pair' = pair
  BY <1>1 DEF forestVars
<1>3. IInv
  BY DEF Standing
<1>4. AscendInv'
  <2>1. \A q : Ascends(q)' <=> Ascends(q)
    BY DEF Ascends
  <2> QED
    BY <1>1, <2>1 DEF Whole, AscendInv
<1>5. GrowInv'
  <2>1. PICK pts : pts = points
    OBVIOUS
  <2>2. PICK E : E = Edges(pts)
    OBVIOUS
  <2>3. PICK h : h = Grown(Len(pts), E)
    OBVIOUS
  <2>4. points' = pts
    BY <1>1, <2>1
  <2>5. Edges(points)' = E /\ Grown(Len(points), Edges(points))' = h
    BY <2>2, <2>3, <2>4
  <2>6. \A g : StandsAs(g) => StandsAs(g)'
    BY <1>2, <1>3, StandsKept
  <2>7. \A k : StandsAs(h[k]) => StandsAs(h[k])'
    <3>1. SUFFICES ASSUME NEW k, StandsAs(h[k]) PROVE StandsAs(h[k])'
      OBVIOUS
    <3>2. PICK g : g = h[k]
      OBVIOUS
    <3> QED
      BY <2>6, <3>1, <3>2
  <2>8. \A k : United_up(h, E, k) => United_up(h, E, k)'
    BY <1>1, <1>2, <2>7 DEF United_up
  <2>9. /\ stage = "join" => \E k \in 0 .. Len(E) : United_up(h, E, k)
        /\ stage \in {"gather", "fold"} => StandsAs(h[Len(E)])
    BY <2>1, <2>2, <2>3 DEF Whole, GrowInv
  <2> QED
    BY <1>1, <2>5, <2>7, <2>8, <2>9 DEF GrowInv
<1>6. AnswersIn'
  <2>1. PICK f : f = field
    OBVIOUS
  <2>2. /\ of = "facets" => clusters = ClustersIn(f) /\ FineSamples(f)
        /\ stage = "done" => missing = MissingIn(f) /\ FineFacets(f)
    BY <2>1 DEF Whole, AnswersIn
  <2>3. field' = f
    BY <1>1, <2>1
  <2> QED
    BY <1>1, <2>2, <2>3 DEF AnswersIn
<1> QED
  BY <1>4, <1>5, <1>6 DEF Whole

\* A list of findings as it was named, but for what is blamed for a gouge or an excess.
Blamed(fs, named) ==
  /\ DOMAIN fs = DOMAIN named
  /\ \A i \in DOMAIN named : fs[i].id = named[i].id /\ (named[i].class \in Caused \/ fs[i] = named[i])

\* The field has been clustered, and these are its findings.
FoundOf(f, fs) == FineSamples(f) /\ FineFacets(f) /\ Blamed(fs, FoundIn(f))

\* What a run holds before it reports are the findings of its field, and what the
\* completed runs reported were those of theirs.
FieldInv ==
  /\ turn < 3 =>
       /\ phase = "attribute" => findings = FoundIn(field) /\ FoundOf(field, findings)
       /\ phase \in {"manifest", "collide", "report"} => FoundOf(field, findings)
  /\ \A i \in DOMAIN results : results[i].exit # 2 => FoundOf(results[i].field, results[i].report.findings)

\* Only segments were written, and only those of what a cut can have caused.
Attributes(out, named) ==
  /\ DOMAIN out = DOMAIN named
  /\ \A i \in DOMAIN named : \/ out[i] = named[i]
                             \/ named[i].class \in Caused /\ \E s : out[i] = [named[i] EXCEPT !.segments = s]

(* Attributing blames.                                                       *)
LEMMA AttributedBlamed ==
  ASSUME NEW found, NEW named, named = identify(found, Radius), NEW out, Attributes(out, named)
  PROVE  Blamed(out, named)
<1>1. ASSUME NEW i \in DOMAIN named PROVE out[i].id = named[i].id
  <2>1. CASE out[i] = named[i]
    BY <2>1
  <2>2. CASE out[i] # named[i]
    <3>1. PICK s : out[i] = [named[i] EXCEPT !.segments = s]
      BY <2>2 DEF Attributes
    <3>2. PICK f : f = named[i]
      OBVIOUS
    <3>3. DOMAIN f = {"id", "class", "at", "worst", "total", "count", "probes", "segments"}
      BY <3>2 DEF identify
    <3>4. out[i] = [f EXCEPT !.segments = s] /\ "id" \in DOMAIN f
      BY <3>1, <3>2, <3>3
    <3>5. out[i].id = f.id
      BY <3>4
    <3> QED
      BY <3>2, <3>5
  <2> QED
    BY <2>1, <2>2
<1>2. ASSUME NEW i \in DOMAIN named PROVE named[i].class \in Caused \/ out[i] = named[i]
  BY DEF Attributes
<1> QED
  BY <1>1, <1>2 DEF Blamed, Attributes

\* A list of n clusters.
Listed(found, n) == AllTyped(found, n) /\ found = [i \in 1 .. n |-> found[i]]

\* One list and then another.
Follow(both, a, m, b, n) ==
  /\ AllTyped(both, m + n) /\ DOMAIN both = 1 .. m + n
  /\ \A i \in 1 .. m : both[i] = a[i]
  /\ \A i \in 1 .. n : both[m + i] = b[i]

(* A list after another.                                                     *)
LEMMA Concatenated ==
  ASSUME NEW m \in Nat, NEW a, Listed(a, m), NEW n \in Nat, NEW b, Listed(b, n)
  PROVE  Follow(a \o b, a, m, b, n)
<1>1. PICK S : S = Range(a) \cup Range(b)
  OBVIOUS
<1>2. a \in Seq(S) /\ Len(a) = m
  BY <1>1 DEF Range, Listed, AllTyped
<1>3. b \in Seq(S) /\ Len(b) = n
  BY <1>1 DEF Range, Listed, AllTyped
<1>4. PICK both : both = a \o b
  OBVIOUS
<1>5. \A i \in 1 .. Len(a) + Len(b) : (a \o b)[i] = IF i <= Len(a) THEN a[i] ELSE b[i - Len(a)]
  BY <1>2, <1>3
<1>6. \A i \in 1 .. m + n : both[i] = IF i <= m THEN a[i] ELSE b[i - m]
  BY <1>2, <1>3, <1>4, <1>5
<1>7. DOMAIN both = 1 .. m + n
  <2>1. a \o b \in Seq(S) /\ Len(a \o b) = Len(a) + Len(b)
    BY <1>2, <1>3, ConcatProperties
  <2> QED
    BY <1>2, <1>3, <1>4, <2>1
<1>8. \A i \in 1 .. m : both[i] = a[i]
  <2>1. \A i \in 1 .. m : i \in 1 .. m + n /\ i <= m
    OBVIOUS
  <2> QED
    BY <1>6, <2>1
<1>9. \A i \in 1 .. n : both[m + i] = b[i]
  <2>1. \A i \in 1 .. n : m + i \in 1 .. m + n /\ ~(m + i <= m) /\ (m + i) - m = i
    OBVIOUS
  <2> QED
    BY <1>6, <2>1
<1>10. ASSUME NEW i \in 1 .. m + n PROVE ClusterTyped(both[i])
  <2>1. CASE i <= m
    <3>1. i \in 1 .. m
      BY <2>1
    <3>2. both[i] = a[i]
      BY <1>8, <3>1
    <3> QED
      BY <3>1, <3>2 DEF Listed, AllTyped
  <2>2. CASE ~(i <= m)
    <3>1. i - m \in 1 .. n
      BY <2>2
    <3>2. both[i] = b[i - m]
      BY <1>6, <2>2
    <3> QED
      BY <3>1, <3>2 DEF Listed, AllTyped
  <2> QED
    BY <2>1, <2>2
<1>11. AllTyped(both, m + n)
  BY <1>7, <1>10 DEF AllTyped
<1>12. Follow(both, a, m, b, n)
  BY <1>7, <1>8, <1>9, <1>11 DEF Follow
<1> QED
  BY <1>4, <1>12

(* What identify is given is a list.                                         *)
LEMMA FoundList ==
  ASSUME NEW f, FineSamples(f), FineFacets(f)
  PROVE  /\ \E n \in Nat : AllTyped(ClustersIn(f) \o MissingIn(f), n)
         /\ \E n \in Nat : DOMAIN sort_canonically(ClustersIn(f) \o MissingIn(f)) = 1 .. n
<1>1. PICK a, b : a = FoldedIn(f, "samples") /\ b = FoldedIn(f, "facets")
  OBVIOUS
<1>2. PICK m \in Nat : AllTyped(a, m)
  BY <1>1 DEF FineSamples, ListOf
<1>3. PICK n \in Nat : AllTyped(b, n)
  BY <1>1 DEF FineFacets, ListOf
<1>4. PICK c, d : c = ClustersIn(f) /\ d = MissingIn(f)
  OBVIOUS
<1>5. Listed(c, m)
  BY <1>1, <1>2, <1>4, SortKeeps DEF ClustersIn, Listed
<1>6. Listed(d, n)
  BY <1>1, <1>3, <1>4, SortKeeps DEF MissingIn, Listed
<1>7. PICK both : both = c \o d
  OBVIOUS
<1>8. AllTyped(both, m + n) /\ m + n \in Nat
  <2>1. Follow(both, c, m, d, n)
    BY <1>5, <1>6, <1>7, Concatenated
  <2> QED
    BY <2>1 DEF Follow
<1>9. AllTyped(sort_canonically(both), m + n)
  BY <1>8, SortKeeps
<1> QED
  BY <1>4, <1>7, <1>8, <1>9 DEF AllTyped

(* A turn that ends keeps it.                                                *)
LEMMA TurnFound ==
  ASSUME ResultsInv, FieldInv, turn \in {1, 2}, NEW exit, NEW report, Finish(exit, report),
         exit # 2 => FoundOf(field, report.findings)
  PROVE  FieldInv'
<1>1. PICK r : r = [exit |-> exit, report |-> report, field |-> field, replayed |-> replayed]
  OBVIOUS
<1>2. /\ r.exit = exit /\ r.report = report /\ r.field = field
      /\ results' = Append(results, r) /\ phase' = "read"
  BY <1>1 DEF Finish
<1>3. /\ DOMAIN results = 1 .. turn - 1 /\ DOMAIN results' = 1 .. turn
      /\ \A i \in 1 .. turn - 1 : results'[i] = results[i]
      /\ results'[turn] = r
  BY <1>2, OneMore
<1>4. ASSUME NEW i \in 1 .. turn, results'[i].exit # 2
      PROVE  FoundOf(results'[i].field, results'[i].report.findings)
  <2>1. CASE i < turn
    <3>1. i \in 1 .. turn - 1
      BY <2>1
    <3>2. FoundOf(results[i].field, results[i].report.findings)
      BY <1>3, <1>4, <3>1 DEF FieldInv
    <3> QED
      BY <1>3, <3>1, <3>2
  <2>2. CASE i = turn
    <3>1. results'[i] = r
      BY <1>3, <2>2
    <3> QED
      BY <1>2, <1>4, <3>1
  <2> QED
    BY <2>1, <2>2
<1>5. PICK rs : rs = results'
  OBVIOUS
<1>6. \A i \in DOMAIN rs : rs[i].exit # 2 => FoundOf(rs[i].field, rs[i].report.findings)
  BY <1>3, <1>4, <1>5
<1> QED
  BY <1>2, <1>5, <1>6 DEF FieldInv

(* What touches none of it keeps it.                                         *)
LEMMA FieldSame ==
  ASSUME FieldInv, results' = results,
         (turn < 3)' => \/ phase' \in {"read", "cluster"}
                        \/ UNCHANGED <<turn, phase, field, findings>>
                        \/ /\ turn < 3 /\ UNCHANGED <<field, findings>>
                           /\ phase \in {"manifest", "collide"} /\ phase' \in {"manifest", "collide", "report"}
  PROVE  FieldInv'
<1>1. PICK rs : rs = results
  OBVIOUS
<1>2. \A i \in DOMAIN rs : rs[i].exit # 2 => FoundOf(rs[i].field, rs[i].report.findings)
  BY <1>1 DEF FieldInv
<1>3. results' = rs
  BY <1>1
<1>4. PICK f, fs : f = field /\ fs = findings
  OBVIOUS
<1>5. turn < 3 =>
        /\ phase = "attribute" => fs = FoundIn(f) /\ FoundOf(f, fs)
        /\ phase \in {"manifest", "collide", "report"} => FoundOf(f, fs)
  BY <1>4 DEF FieldInv
<1>6. (turn < 3)' =>
        /\ phase' = "attribute" => findings' = FoundIn(field') /\ FoundOf(field', findings')
        /\ phase' \in {"manifest", "collide", "report"} => FoundOf(field', findings')
  BY <1>4, <1>5
<1>7. PICK g, gs : g = field' /\ gs = findings'
  OBVIOUS
<1>8. (turn < 3)' =>
        /\ phase' = "attribute" => gs = FoundIn(g) /\ FoundOf(g, gs)
        /\ phase' \in {"manifest", "collide", "report"} => FoundOf(g, gs)
  BY <1>6, <1>7
<1> QED
  BY <1>2, <1>3, <1>7, <1>8 DEF FieldInv

(* Every step keeps it.                                                      *)
LEMMA FieldInvNext ==
  ASSUME ResultsInv, Whole, AnswerInv, FieldInv, [VerifyNext]_allVars
  PROVE  FieldInv'
<1>0. turn \in 1 .. 4
  BY DEF ResultsInv
<1>1. CASE Identify
  <2>1. /\ stage = "done" /\ findings' = identify(sort_canonically(clusters \o missing), Radius)
        /\ phase' = "attribute" /\ results' = results /\ field' = field
    BY <1>1 DEF Identify, vars, workVars
  <2>2. PICK f : f = field
    OBVIOUS
  <2>3. clusters = ClustersIn(f) /\ FineSamples(f) /\ missing = MissingIn(f) /\ FineFacets(f)
    BY <2>1, <2>2 DEF Whole, AnswersIn, AnswerInv
  <2>4. PICK fs : fs = findings'
    OBVIOUS
  <2>5. fs = FoundIn(f)
    BY <2>1, <2>3, <2>4 DEF FoundIn
  <2>7. Blamed(fs, fs)
    BY DEF Blamed
  <2>8. FoundOf(f, fs)
    BY <2>3, <2>5, <2>7 DEF FoundOf
  <2>9. PICK rs : rs = results
    OBVIOUS
  <2>10. \A i \in DOMAIN rs : rs[i].exit # 2 => FoundOf(rs[i].field, rs[i].report.findings)
    BY <2>9 DEF FieldInv
  <2>11. field' = f /\ findings' = fs /\ results' = rs
    BY <2>1, <2>2, <2>4, <2>9
  <2> QED
    BY <2>1, <2>5, <2>8, <2>10, <2>11 DEF FieldInv
<1>2. CASE Attribute
  <2>1. /\ turn < 3 /\ phase = "attribute" /\ phase' = "manifest" /\ results' = results /\ field' = field
        /\ findings' = [i \in DOMAIN findings |->
             LET f == findings[i]
             IN  IF Request.path /\ f.class \in {"gouge", "excess-stock"}
                 THEN [f EXCEPT !.segments = attribute_finding(disk.program, f)]
                 ELSE f]
    BY <1>2 DEF Attribute, At, vars, workVars
  <2>2. PICK f, named : f = field /\ named = findings
    OBVIOUS
  <2>3. named = FoundIn(f) /\ FoundOf(f, named)
    BY <2>1, <2>2 DEF FieldInv
  <2>4. FineSamples(f) /\ FineFacets(f)
    BY <2>3 DEF FoundOf
  <2>5. PICK found : found = sort_canonically(ClustersIn(f) \o MissingIn(f))
    OBVIOUS
  <2>7. named = identify(found, Radius)
    BY <2>3, <2>5 DEF FoundIn
  <2>8. PICK out : out = findings'
    OBVIOUS
  <2>9. DOMAIN out = DOMAIN named
    BY <2>1, <2>2, <2>8
  <2>10. ASSUME NEW i \in DOMAIN named
         PROVE  out[i] = named[i] \/ (named[i].class \in Caused /\ \E s : out[i] = [named[i] EXCEPT !.segments = s])
    <3>1. out[i] = LET g == named[i]
                   IN  IF Request.path /\ g.class \in {"gouge", "excess-stock"}
                       THEN [g EXCEPT !.segments = attribute_finding(disk.program, g)]
                       ELSE g
      BY <2>1, <2>2, <2>8
    <3>2. PICK s : s = attribute_finding(disk.program, named[i])
      OBVIOUS
    <3>3. out[i] = named[i] \/ (named[i].class \in Caused /\ out[i] = [named[i] EXCEPT !.segments = s])
      BY <3>1, <3>2 DEF Caused
    <3> QED
      BY <3>3
  <2>11. Blamed(out, named)
    <3>1. Attributes(out, named)
      BY <2>9, <2>10 DEF Attributes
    <3> QED
      BY <2>7, <3>1, AttributedBlamed
  <2>12. FoundOf(f, out)
    BY <2>3, <2>4, <2>11 DEF FoundOf
  <2>13. PICK rs : rs = results
    OBVIOUS
  <2>14. \A i \in DOMAIN rs : rs[i].exit # 2 => FoundOf(rs[i].field, rs[i].report.findings)
    BY <2>13 DEF FieldInv
  <2>15. field' = f /\ findings' = out /\ results' = rs
    BY <2>1, <2>2, <2>8, <2>13
  <2> QED
    BY <2>1, <2>12, <2>14, <2>15 DEF FieldInv
<1>3. CASE Report
  <2>1. turn \in {1, 2} /\ phase = "report"
    BY <1>0, <1>3 DEF Report, At
  <2>2. FoundOf(field, findings)
    BY <2>1 DEF FieldInv
  <2>3. PICK report : report = [manifest |-> manifest, findings |-> findings, collisions |-> collisions,
                                gates |-> [gouge |-> gouge_gate(findings), collision |-> gate]]
    OBVIOUS
  <2>4. report.findings = findings
    BY <2>3
  <2>5. Finish(2, None) \/ \E exit : Finish(exit, report)
    BY <1>3, <2>3 DEF Report
  <2> QED
    BY <2>1, <2>2, <2>4, <2>5, TurnFound
<1>4. CASE Fails
  <2>1. turn \in {1, 2} /\ Finish(2, None)
    BY <1>0, <1>4 DEF Fails, Fail, At
  <2> QED
    BY <2>1, TurnFound
<1>5. CASE Read \/ Clustered \/ Hash \/ Collide \/ report_diff \/ Edit \/ VerifyDone \/ UNCHANGED allVars
  <2>1. results' = results
    BY <1>5 DEF Read, Clustered, Hash, Collide, report_diff, Edit, VerifyDone, allVars, verifyVars
  <2>2. CASE Read \/ Clustered
    BY <2>1, <2>2, FieldSame DEF Read, Clustered, At, verifyVars
  <2>3. CASE Hash \/ Collide
    <3>1. /\ turn < 3 /\ UNCHANGED <<field, findings>>
          /\ phase \in {"manifest", "collide"} /\ phase' \in {"manifest", "collide", "report"}
      BY <2>3 DEF Hash, Collide, At, vars, workVars
    <3> QED
      BY <2>1, <3>1, FieldSame
  <2>4. CASE report_diff
    <3>1. ~(turn < 3)'
      BY <2>4 DEF report_diff
    <3> QED
      BY <2>1, <3>1, FieldSame
  <2>5. CASE Edit \/ VerifyDone \/ UNCHANGED allVars
    <3>1. UNCHANGED <<turn, phase, field, findings>>
      BY <2>5 DEF Edit, VerifyDone, allVars, verifyVars, vars, workVars
    <3> QED
      BY <2>1, <3>1, FieldSame
  <2> QED
    BY <1>5, <2>2, <2>3, <2>4, <2>5
<1> QED
  BY <1>1, <1>2, <1>3, <1>4, <1>5 DEF VerifyNext, Proceed

\* What a run that nobody interrupts makes of a request and of what the files
\* hold, step by step; each is the operator or the action of Verify.

ToolBy(r, program) == IF r.tool = None THEN program.first ELSE r.tool

ResolvesBy(r, d) == /\ d.program # Bad /\ r.tools /\ d.tools # Bad
                    /\ ToolBy(r, d.program) \in DOMAIN d.program.reach

SegmentsBy(r, program, f) ==
  {s[1] : s \in {x \in program.reach[ToolBy(r, program)] : x[2] \in Range(f.probes)}}

FindingsBy(r, d) ==
  [i \in DOMAIN FoundIn(d.field) |->
    LET f == FoundIn(d.field)[i]
    IN  IF r.path /\ f.class \in {"gouge", "excess-stock"}
        THEN [f EXCEPT !.segments = SegmentsBy(r, d.program, f)]
        ELSE f]

InputsBy(r) == {"field", "nominal"} \cup (IF r.path THEN {"program"} ELSE {})
                                    \cup (IF r.tools THEN {"tools"} ELSE {})

ManifestBy(r, d) == [x \in InputsBy(r) |-> d[x]]

NotReplayedBy(r, d) == \/ ~r.start \/ ~r.path \/ d.start = Bad \/ ~ResolvesBy(r, d)
                       \/ ~d.program.holder \/ d.program.retracts > 0

CollisionsBy(r, d) ==
  IF NotReplayedBy(r, d) THEN <<>>
  ELSE assemble(d.program.hits[ToolBy(r, d.program)], d.program.kinds, Radius)

GateBy(r, d) == IF NotReplayedBy(r, d) THEN "unchecked" ELSE collision_gate(CollisionsBy(r, d))

ReportBy(r, d) ==
  [manifest |-> ManifestBy(r, d), findings |-> FindingsBy(r, d), collisions |-> CollisionsBy(r, d),
   gates |-> [gouge |-> gouge_gate(FindingsBy(r, d)), collision |-> GateBy(r, d)]]

\* While nobody touches a file, what a run holds and what it wrote follow from the
\* request and the files.
SameInv ==
  touched = {} =>
    /\ turn < 3 =>
         /\ phase # "read" => field = disk.field
         /\ phase = "attribute" => findings = FoundIn(field)
         /\ phase \in {"manifest", "collide", "report"} => findings = FindingsBy(Request, disk)
         /\ phase \in {"collide", "report"} => manifest = ManifestBy(Request, disk)
         /\ phase = "report" => collisions = CollisionsBy(Request, disk) /\ gate = GateBy(Request, disk)
    /\ \A i \in 1 .. 2 : files[i] # None => files[i] = to_json(ReportBy(requests[i], disk))

\* The same at a turn, a phase, what is held, a disk and the files, as constants.
HeldBy(r, d, p, f, fs, m, c, g) ==
  /\ p # "read" => f = d.field
  /\ p = "attribute" => fs = FoundIn(f)
  /\ p \in {"manifest", "collide", "report"} => fs = FindingsBy(r, d)
  /\ p \in {"collide", "report"} => m = ManifestBy(r, d)
  /\ p = "report" => c = CollisionsBy(r, d) /\ g = GateBy(r, d)

WrittenBy(rs, d, ws) == \A i \in 1 .. 2 : ws[i] # None => ws[i] = to_json(ReportBy(rs[i], d))

\* A step that touches no file and keeps both keeps it.
LEMMA SameStep ==
  ASSUME touched' = {} => touched = {} /\ UNCHANGED <<requests, disk>>, SameInv,
         NEW r, NEW rs, NEW d, r = Request, rs = requests, d = disk,
         NEW p, NEW f, NEW fs, NEW m, NEW c, NEW g, NEW ws,
         p = phase', f = field', fs = findings', m = manifest', c = collisions', g = gate', ws = files',
         touched = {} /\ (turn < 3)' => p = "read" \/ (turn' = turn /\ HeldBy(r, d, p, f, fs, m, c, g)),
         touched = {} => WrittenBy(rs, d, ws)
  PROVE  SameInv'
<1> SUFFICES ASSUME touched' = {} PROVE SameInv'
  BY DEF SameInv
<1>1. touched = {} /\ requests' = rs /\ disk' = d
  OBVIOUS
<1>2. WrittenBy(rs, d, ws)
  BY <1>1
<1>3. CASE ~(turn < 3)'
  BY <1>1, <1>2, <1>3 DEF SameInv, WrittenBy
<1>4. CASE (turn < 3)' /\ p = "read"
  BY <1>1, <1>2, <1>4 DEF SameInv, WrittenBy
<1>5. CASE (turn < 3)' /\ turn' = turn /\ HeldBy(r, d, p, f, fs, m, c, g)
  <2>1. Request' = r
    BY <1>1, <1>5 DEF Request
  <2> QED
    BY <1>1, <1>2, <1>5, <2>1 DEF SameInv, HeldBy, WrittenBy
<1> QED
  BY <1>1, <1>3, <1>4, <1>5

\* Every step keeps it.
LEMMA SameInvNext ==
  ASSUME ResultsInv, Whole, AnswerInv, SameInv, [VerifyNext]_allVars
  PROVE  SameInv'
<1>0. turn \in 1 .. 4 /\ DOMAIN files = 1 .. 2
  BY DEF ResultsInv
<1>1. PICK r, rs, d : r = Request /\ rs = requests /\ d = disk
  OBVIOUS
<1>2. PICK p, f, fs, m, c, g, ws :
        p = phase' /\ f = field' /\ fs = findings' /\ m = manifest' /\ c = collisions' /\ g = gate' /\ ws = files'
  OBVIOUS
<1>3. touched = {} /\ turn < 3 => HeldBy(r, d, phase, field, findings, manifest, collisions, gate)
  BY <1>1 DEF SameInv, HeldBy
<1>4. touched = {} => WrittenBy(rs, d, files)
  BY <1>1 DEF SameInv, WrittenBy
<1>5. ASSUME touched' = touched, UNCHANGED <<requests, disk>>, files' = files,
             touched = {} /\ (turn < 3)' => phase' = "read" \/ (turn' = turn /\ HeldBy(r, d, p, f, fs, m, c, g))
      PROVE  SameInv'
  <2>1. touched = {} => WrittenBy(rs, d, ws)
    BY <1>2, <1>4, <1>5
  <2> QED
    BY <1>1, <1>2, <1>5, <2>1, SameStep
<1>6. CASE Read
  <2>1. /\ phase' = "cluster" /\ field' = disk.field /\ turn' = turn
        /\ UNCHANGED <<requests, disk, touched, files>>
    BY <1>6 DEF Read
  <2>2. HeldBy(r, d, p, f, fs, m, c, g)
    BY <1>1, <1>2, <2>1 DEF HeldBy
  <2> QED
    BY <1>5, <2>1, <2>2
<1>7. CASE Clustered
  <2>1. /\ phase = "cluster" /\ turn < 3 /\ phase' = phase /\ field' = field /\ turn' = turn
        /\ UNCHANGED <<requests, disk, touched, files>>
    BY <1>7 DEF Clustered, At, verifyVars, ClusterNext, Classify, Join, JoinEnd, Find, Gather, Gathered, GatherEnd, Fold,
                workVars
  <2>2. touched = {} => HeldBy(r, d, p, f, fs, m, c, g)
    BY <1>2, <1>3, <2>1 DEF HeldBy
  <2> QED
    BY <1>5, <2>1, <2>2
<1>8. CASE Identify
  <2>1. /\ phase = "cluster" /\ turn < 3 /\ stage = "done" /\ phase' = "attribute" /\ field' = field /\ turn' = turn
        /\ findings' = identify(sort_canonically(clusters \o missing), Radius)
        /\ UNCHANGED <<requests, disk, touched, files>>
    BY <1>8 DEF Identify, At, vars, workVars
  <2>2. clusters = ClustersIn(field) /\ missing = MissingIn(field)
    BY <2>1 DEF Whole, AnswersIn, AnswerInv
  <2>3. f = field /\ fs = FoundIn(f)
    BY <1>2, <2>1, <2>2 DEF FoundIn
  <2>4. touched = {} => HeldBy(r, d, p, f, fs, m, c, g)
    BY <1>2, <1>3, <2>1, <2>3 DEF HeldBy
  <2> QED
    BY <1>5, <2>1, <2>4
<1>9. CASE Attribute
  <2>1. /\ phase = "attribute" /\ turn < 3 /\ phase' = "manifest" /\ field' = field /\ turn' = turn
        /\ findings' = [i \in DOMAIN findings |->
             LET x == findings[i]
             IN  IF Request.path /\ x.class \in {"gouge", "excess-stock"}
                 THEN [x EXCEPT !.segments = attribute_finding(disk.program, x)]
                 ELSE x]
        /\ UNCHANGED <<requests, disk, touched, files>>
    BY <1>9 DEF Attribute, At, vars, workVars
  <2>2. \A x : attribute_finding(disk.program, x) = SegmentsBy(r, d.program, x)
    BY <1>1 DEF attribute_finding, SegmentsBy, Tool, ToolBy
  <2>3. PICK was : was = findings
    OBVIOUS
  <2>4. fs = [i \in DOMAIN was |->
               LET x == was[i]
               IN  IF r.path /\ x.class \in {"gouge", "excess-stock"}
                   THEN [x EXCEPT !.segments = SegmentsBy(r, d.program, x)]
                   ELSE x]
    BY <1>1, <1>2, <2>1, <2>2, <2>3
  <2>5. touched = {} => field = d.field /\ was = FoundIn(d.field)
    BY <1>3, <2>1, <2>3 DEF HeldBy
  <2>6. touched = {} => fs = FindingsBy(r, d)
    BY <2>4, <2>5 DEF FindingsBy
  <2>7. touched = {} => HeldBy(r, d, p, f, fs, m, c, g)
    BY <1>2, <1>3, <2>1, <2>5, <2>6 DEF HeldBy
  <2> QED
    BY <1>5, <2>1, <2>7
<1>10. CASE Hash
  <2>1. /\ phase = "manifest" /\ turn < 3 /\ phase' = "collide" /\ field' = field /\ turn' = turn
        /\ findings' = findings /\ manifest' = [x \in Inputs |-> disk[x]]
        /\ UNCHANGED <<requests, disk, touched, files>>
    BY <1>10 DEF Hash, At, vars, workVars
  <2>2. Inputs = InputsBy(r)
    BY <1>1 DEF Inputs, InputsBy
  <2>3. m = ManifestBy(r, d)
    BY <1>1, <1>2, <2>1, <2>2 DEF ManifestBy
  <2>4. touched = {} => HeldBy(r, d, p, f, fs, m, c, g)
    BY <1>2, <1>3, <2>1, <2>3 DEF HeldBy
  <2> QED
    BY <1>5, <2>1, <2>4
<1>11. CASE Collide
  <2>1. /\ phase = "collide" /\ turn < 3 /\ phase' = "report" /\ field' = field /\ turn' = turn
        /\ findings' = findings /\ manifest' = manifest
        /\ UNCHANGED <<requests, disk, touched, files>>
    BY <1>11 DEF Collide, At, vars, workVars
  <2>2. /\ NotReplayed <=> NotReplayedBy(r, d)
        /\ Tool(disk.program) = ToolBy(r, d.program)
    BY <1>1 DEF NotReplayed, NotReplayedBy, Resolves, ResolvesBy, Tool, ToolBy
  <2>3. c = CollisionsBy(r, d) /\ g = GateBy(r, d)
    <3>1. CASE NotReplayed
      <4>1. gate' = "unchecked" /\ collisions' = <<>>
        BY <1>11, <3>1 DEF Collide
      <4> QED
        BY <1>2, <2>2, <3>1, <4>1 DEF CollisionsBy, GateBy
    <3>2. CASE ~NotReplayed
      <4>1. PICK found : found = assemble(disk.program.hits[Tool(disk.program)], disk.program.kinds, Radius)
        OBVIOUS
      <4>2. collisions' = found /\ gate' = collision_gate(found)
        BY <1>11, <3>2, <4>1 DEF Collide
      <4>3. found = CollisionsBy(r, d)
        BY <1>1, <2>2, <3>2, <4>1 DEF CollisionsBy
      <4> QED
        BY <1>2, <2>2, <3>2, <4>2, <4>3 DEF GateBy
    <3> QED
      BY <3>1, <3>2
  <2>4. touched = {} => HeldBy(r, d, p, f, fs, m, c, g)
    BY <1>2, <1>3, <2>1, <2>3 DEF HeldBy
  <2> QED
    BY <1>5, <2>1, <2>4
<1>12. CASE Report
  <2>1. phase = "report" /\ turn \in {1, 2} /\ turn < 3 /\ UNCHANGED <<requests, disk, touched>>
    BY <1>0, <1>12 DEF Report, At
  <2>2. PICK report : report = [manifest |-> manifest, findings |-> findings, collisions |-> collisions,
                                gates |-> [gouge |-> gouge_gate(findings), collision |-> gate]]
    OBVIOUS
  <2>3. touched = {} => report = ReportBy(rs[turn], d)
    <3>1. r = rs[turn]
      BY <1>1 DEF Request
    <3>2. touched = {} => /\ findings = FindingsBy(r, d) /\ manifest = ManifestBy(r, d)
                          /\ collisions = CollisionsBy(r, d) /\ gate = GateBy(r, d)
      BY <1>3, <2>1 DEF HeldBy
    <3> QED
      BY <2>2, <3>1, <3>2 DEF ReportBy
  <2>4. /\ phase' = "read"
        /\ files' = files \/ files' = [files EXCEPT ![turn] = to_json(report)]
    BY <1>12, <2>2 DEF Report, Finish
  <2>5. PICK w : w = to_json(report)
    OBVIOUS
  <2>6. touched = {} => WrittenBy(rs, d, ws)
    <3>1. SUFFICES ASSUME touched = {} PROVE WrittenBy(rs, d, ws)
      OBVIOUS
    <3>2. w = to_json(ReportBy(rs[turn], d))
      BY <2>3, <2>5, <3>1
    <3>3. \A i \in 1 .. 2 : ws[i] = files[i] \/ (i = turn /\ ws[i] = w)
      BY <1>0, <1>2, <2>4, <2>5
    <3> QED
      BY <1>4, <3>1, <3>2, <3>3 DEF WrittenBy
  <2> QED
    BY <1>1, <1>2, <2>1, <2>4, <2>6, SameStep
<1>13. CASE Fails
  <2>1. phase' = "read" /\ UNCHANGED <<requests, disk, touched, files>>
    BY <1>13 DEF Fails, Fail, Finish
  <2> QED
    BY <1>5, <2>1
<1>14. CASE report_diff
  <2>1. ~(turn < 3)' /\ UNCHANGED <<requests, disk, touched, files>>
    BY <1>14 DEF report_diff
  <2> QED
    BY <1>5, <2>1
<1>15. CASE Edit
  <2>1. touched' # {}
    BY <1>15 DEF Edit
  <2> QED
    BY <2>1 DEF SameInv
<1>16. CASE VerifyDone \/ UNCHANGED allVars
  <2>1. /\ UNCHANGED <<turn, phase, field, findings, manifest, collisions, gate>>
        /\ UNCHANGED <<requests, disk, touched, files>>
    BY <1>16 DEF VerifyDone, allVars, verifyVars, vars, workVars
  <2>2. touched = {} /\ turn < 3 => HeldBy(r, d, p, f, fs, m, c, g)
    BY <1>2, <1>3, <2>1
  <2> QED
    BY <1>5, <2>1, <2>2
<1> QED
  BY <1>6, <1>7, <1>8, <1>9, <1>10, <1>11, <1>12, <1>13, <1>14, <1>15, <1>16 DEF VerifyNext, Proceed

\* What was found is what the files differ in.
Compared(ws) == diff(load_report(ws[1]), load_report(ws[2]))

ToldFound == told # None /\ told.exit # 2 => told.found = Compared(files)

\* Every step keeps it.
LEMMA ToldFoundNext ==
  ASSUME ResultsInv, ToldInv, ToldFound, [VerifyNext]_allVars
  PROVE  ToldFound'
<1>1. CASE report_diff
  <2>1. turn = 3 /\ turn' = 4 /\ files' = files
    BY <1>1 DEF report_diff
  <2>2. PICK ws : ws = files
    OBVIOUS
  <2>3. PICK d : d = Compared(ws)
    OBVIOUS
  <2>4. told' = IF \E i \in 1 .. 2 : files[i] = None \/ ~Readable(files[i])
                THEN [exit |-> 2, found |-> None]
                ELSE [exit |-> IF is_empty(d) THEN 0 ELSE 1, found |-> d]
    BY <1>1, <2>2, <2>3 DEF report_diff, Compared
  <2>5. told'.exit = 2 \/ told'.found = d
    BY <2>4
  <2>6. files' = ws
    BY <2>1, <2>2
  <2> QED
    BY <2>3, <2>5, <2>6 DEF ToldFound
<1>2. CASE ~report_diff
  <2>1. told' = told
    BY <1>2 DEF VerifyNext, Proceed, Read, Clustered, Identify, Attribute, Hash, Fails, Fail, Collide, Report, Edit,
                VerifyDone, allVars, verifyVars
  <2>2. turn = 4 => files' = files
    BY <1>2 DEF VerifyNext, Proceed, Read, Clustered, Identify, Attribute, Hash, Fails, Collide, Report, Edit, At,
                VerifyDone, allVars, verifyVars
  <2>3. PICK ws : ws = files
    OBVIOUS
  <2>4. told # None => turn = 4
    BY DEF ToldInv
  <2> QED
    BY <2>1, <2>2, <2>3, <2>4 DEF ToldFound
<1> QED
  BY <1>1, <1>2

\* The inductive invariant of NamesKeep.
RInv == QInv /\ Whole /\ FieldInv /\ SameInv /\ ToldFound

\* It holds at the start.
LEMMA RInvInit == VerifyInit => RInv
<1> SUFFICES ASSUME VerifyInit PROVE RInv
  OBVIOUS
<1>1. /\ turn = 1 /\ phase = "read" /\ results = <<>> /\ files = <<None, None>> /\ told = None /\ ClusterInit
  BY DEF VerifyInit
<1>2. stage = "idle" /\ of = "samples"
  BY <1>1 DEF ClusterInit
<1>3. Whole
  BY <1>2 DEF Whole, GrowInv, AscendInv, AnswersIn
<1>4. DOMAIN results = {} /\ \A i \in 1 .. 2 : files[i] = None
  BY <1>1
<1>5. FieldInv /\ SameInv
  BY <1>1, <1>4 DEF FieldInv, SameInv
<1>6. ToldFound
  BY <1>1 DEF ToldFound
<1> QED
  BY <1>3, <1>5, <1>6, QInvInit DEF RInv

\* Every step keeps it.
LEMMA RInvNext == RInv /\ [VerifyNext]_allVars => RInv'
<1> SUFFICES ASSUME RInv, [VerifyNext]_allVars PROVE RInv'
  OBVIOUS
<1>1. QInv'
  BY QInvNext DEF RInv
<1>2. ResultsInv /\ Standing /\ AnswerInv /\ ToldInv /\ Whole
  BY DEF RInv, QInv, PInv, VInv
<1>3. FieldInv' /\ SameInv' /\ ToldFound'
  BY <1>2, FieldInvNext, SameInvNext, ToldFoundNext DEF RInv
<1>4. Whole'
  <2>1. CASE Read
    <3>1. stage' = "classify" /\ of' = "samples"
      BY <2>1 DEF Read
    <3> QED
      BY <3>1 DEF Whole, GrowInv, AscendInv, AnswersIn
  <2>2. CASE Clustered
    BY <1>2, <2>2, WholeNext DEF Clustered
  <2>3. CASE ~Read /\ ~Clustered
    <3>1. UNCHANGED vars
      BY <2>3 DEF VerifyNext, Proceed, Identify, Attribute, Hash, Fails, Fail, Collide, Report, report_diff, Edit,
                  VerifyDone, allVars
    <3> QED
      BY <1>2, <3>1, WholeSame
  <2> QED
    BY <2>1, <2>2, <2>3
<1> QED
  BY <1>1, <1>3, <1>4 DEF RInv

\* It is an invariant.
LEMMA RInvHolds == VerifySpec => []RInv
BY RInvInit, RInvNext, PTL DEF VerifySpec

(* A report differs from itself in nothing.                                  *)
LEMMA NothingToTell ==
  ASSUME NEW a, \A id \in Ids(a.findings) : ~Deepened(Entry(a.findings, id), Entry(a.findings, id))
  PROVE  is_empty(diff(a, a))
<1>1. Differs(a.manifest, a.manifest) = {} /\ Differs(a.gates, a.gates) = {}
  BY DEF Differs
<1>2. \A c : ~Shifted(c, c)
  BY DEF Shifted
<1>3. {i \in Both(a.findings, a.findings) : Deepened(Entry(a.findings, i), Entry(a.findings, i))} = {}
  BY DEF Both
<1>4. {i \in Both(a.collisions, a.collisions) : Shifted(Entry(a.collisions, i), Entry(a.collisions, i))} = {}
  BY <1>2
<1>5. \A l : Changes(l, l, {}) = {}
  BY DEF Changes
<1>6. diff(a, a) = [manifest |-> {}, gates |-> {}, changes |-> {}, collisions |-> {}]
  BY <1>1, <1>3, <1>4, <1>5 DEF diff
<1> QED
  BY <1>6 DEF is_empty

\* Two runs of one request over files nobody touched are said to agree.
LEMMA RunsAgree ==
  ASSUME RInv, told # None, told.exit < 2, requests[1] = requests[2], touched = {}
  PROVE  told.exit = 0
<1>1. told.exit # 2 /\ \A i \in 1 .. 2 : files[i] # None
  BY DEF RInv, QInv, ToldInv
<1>2. files[1] = files[2]
  BY <1>1 DEF RInv, SameInv
<1>3. PICK a : a = load_report(files[1])
  OBVIOUS
<1>4. a = load_report(files[2])
  BY <1>2, <1>3
<1>5. \A x : ~Deepened(x, x)
  BY DEF Deepened
<1>6. is_empty(diff(a, a))
  BY <1>5, NothingToTell
<1>7. told.exit = IF is_empty(diff(a, a)) THEN 0 ELSE 1
  BY <1>1, <1>3, <1>4 DEF RInv, QInv, ToldInv
<1> QED
  BY <1>6, <1>7

-------------------------------------------------------------------------------
\* Which names there are follows from how many findings of a class a cell has.

\* The findings of a class in a cell, and the clusters.
NamedIn(fs, class, cell) == {i \in DOMAIN fs : fs[i].id[1] = class /\ fs[i].id[2] = cell}
FoldedTo(found, class, cell) == {i \in DOMAIN found : found[i].class = class /\ CellOf(found[i], Radius) = cell}

(* The names of a class in a cell are numbered without a gap.                *)
LEMMA IdsByTally ==
  ASSUME NEW fs, Named(fs), NEW class, NEW cell, NEW j
  PROVE  <<class, cell, j>> \in Ids(fs) <=> j \in 0 .. Cardinality(NamedIn(fs, class, cell)) - 1
<1>1. PICK n \in Nat : DOMAIN fs = 1 .. n
  BY DEF Named
<1>2. PICK A : A = NamedIn(fs, class, cell)
  OBVIOUS
<1>3. PICK id : id = [i \in 1 .. n |-> fs[i].id]
  OBVIOUS
<1>4. PICK number : number = [i \in 1 .. n |-> Cardinality(Earlier(fs, i))]
  OBVIOUS
<1>5. \A i \in 1 .. n : id[i] = fs[i].id /\ id[i] = <<fs[i].class, CellAt(fs[i].at), number[i]>>
  BY <1>1, <1>3, <1>4 DEF Named
<1>6. A = {i \in 1 .. n : id[i][1] = class /\ id[i][2] = cell} /\ A \subseteq 1 .. n
  BY <1>1, <1>2, <1>3 DEF NamedIn
<1>7. \A i \in A : id[i] = <<class, cell, number[i]>>
  BY <1>5, <1>6
<1>8. IsFiniteSet(A) /\ Cardinality(A) \in Nat
  <2>1. IsFiniteSet(1 .. n)
    BY FS_Interval
  <2> QED
    BY <1>6, <2>1, FS_Subset, FS_CardinalityType
<1>9. PICK c \in Nat : c = Cardinality(A)
  BY <1>8
<1>10. ASSUME NEW i \in A PROVE number[i] \in 0 .. c - 1
  <2>1. Earlier(fs, i) \in SUBSET (A \ {i})
    <3>1. SUFFICES ASSUME NEW k \in Earlier(fs, i) PROVE k \in A /\ k # i
      OBVIOUS
    <3>2. k \in 1 .. i - 1 /\ fs[k].id[1] = fs[i].id[1] /\ fs[k].id[2] = fs[i].id[2] /\ i \in 1 .. n
      BY <1>6, <3>1 DEF Earlier
    <3>3. k \in 1 .. n /\ k # i
      BY <3>2
    <3> QED
      BY <1>5, <1>6, <3>2, <3>3
  <2>2. IsFiniteSet(A \ {i}) /\ Cardinality(A \ {i}) = c - 1
    BY <1>8, <1>9, FS_RemoveElement
  <2>3. PICK B : B = Earlier(fs, i)
    OBVIOUS
  <2>4. Cardinality(B) <= c - 1 /\ Cardinality(B) \in Nat
    BY <2>1, <2>2, <2>3, FS_Subset, FS_CardinalityType
  <2> QED
    BY <1>4, <1>6, <2>3, <2>4
<1>11. PICK g : g = [i \in A |-> number[i]]
  OBVIOUS
<1>12. g \in Injection(A, 0 .. c - 1)
  <2>1. g \in [A -> 0 .. c - 1]
    BY <1>10, <1>11
  <2>2. \A i, k \in A : g[i] = g[k] => i = k
    <3>1. SUFFICES ASSUME NEW i \in A, NEW k \in A, g[i] = g[k] PROVE i = k
      OBVIOUS
    <3>2. fs[i].id = fs[k].id /\ i \in DOMAIN fs /\ k \in DOMAIN fs
      BY <1>1, <1>5, <1>6, <1>7, <1>11, <3>1
    <3> QED
      BY <3>2, NamedApart
  <2> QED
    BY <2>1, <2>2 DEF Injection, IsInjective
<1>13. IsFiniteSet(0 .. c - 1) /\ Cardinality(0 .. c - 1) = c
  BY FS_Interval
<1>14. g \in Surjection(A, 0 .. c - 1)
  BY <1>9, <1>12, <1>13, FS_Injection
<1>15. \A k \in 0 .. c - 1 : \E i \in A : number[i] = k
  BY <1>11, <1>14 DEF Surjection
<1>16. ASSUME <<class, cell, j>> \in Ids(fs) PROVE j \in 0 .. c - 1
  <2>1. PICK i \in 1 .. n : fs[i].id = <<class, cell, j>>
    BY <1>1, <1>16 DEF Ids
  <2>2. id[i] = <<class, cell, j>>
    BY <1>5, <2>1
  <2>3. i \in A
    BY <1>6, <2>2
  <2>4. number[i] = j
    BY <1>7, <2>2, <2>3
  <2> QED
    BY <1>10, <2>3, <2>4
<1>17. ASSUME j \in 0 .. c - 1 PROVE <<class, cell, j>> \in Ids(fs)
  <2>1. PICK i \in A : number[i] = j
    BY <1>15, <1>17
  <2>2. fs[i].id = <<class, cell, j>> /\ i \in DOMAIN fs
    BY <1>1, <1>5, <1>6, <1>7, <2>1
  <2> QED
    BY <2>2 DEF Ids
<1> QED
  BY <1>2, <1>9, <1>16, <1>17

(* As many of a class in every cell: the same names.                         *)
LEMMA SameNames ==
  ASSUME NEW old, Named(old), NEW new, Named(new), NEW class,
         \A cell : Cardinality(NamedIn(old, class, cell)) = Cardinality(NamedIn(new, class, cell))
  PROVE  \A id : id[1] = class => (id \in Ids(old) <=> id \in Ids(new))
<1>1. ASSUME NEW fs, Named(fs), NEW id \in Ids(fs), id[1] = class
      PROVE  \E cell, j : id = <<class, cell, j>>
  <2>1. PICK i \in DOMAIN fs : id = fs[i].id
    BY <1>1 DEF Ids
  <2>2. id = <<fs[i].class, CellAt(fs[i].at), Cardinality(Earlier(fs, i))>>
    BY <1>1, <2>1 DEF Named
  <2>3. fs[i].class = class
    BY <1>1, <2>2
  <2> QED
    BY <2>2, <2>3
<1>2. \A cell, j : <<class, cell, j>> \in Ids(old) <=> <<class, cell, j>> \in Ids(new)
  BY IdsByTally
<1>3. ASSUME NEW id, id[1] = class, id \in Ids(old) PROVE id \in Ids(new)
  <2>1. PICK cell, j : id = <<class, cell, j>>
    BY <1>1, <1>3
  <2> QED
    BY <1>2, <1>3, <2>1
<1>4. ASSUME NEW id, id[1] = class, id \in Ids(new) PROVE id \in Ids(old)
  <2>1. PICK cell, j : id = <<class, cell, j>>
    BY <1>1, <1>4
  <2> QED
    BY <1>2, <1>4, <2>1
<1> QED
  BY <1>3, <1>4

(* Sorting keeps how many there are.                                         *)
LEMMA SortCounts ==
  ASSUME NEW n \in Nat, NEW found, AllTyped(found, n), NEW sorted, sorted = sort_canonically(found), NEW class, NEW cell
  PROVE  Cardinality(FoldedTo(sorted, class, cell)) = Cardinality(FoldedTo(found, class, cell))
<1>1. AllTyped(sorted, n)
  BY SortKeeps
<1>2. PICK p : Permutes(p, n) /\ \A i \in 1 .. n : sorted[i] = found[p[i]]
  BY SortKeeps
<1>3. /\ p \in [1 .. n -> 1 .. n] /\ (\A k \in 1 .. n : \E i \in 1 .. n : p[i] = k)
      /\ \A i, j \in 1 .. n : p[i] = p[j] => i = j
  BY <1>2 DEF Permutes
<1>4. DOMAIN found = 1 .. n /\ DOMAIN sorted = 1 .. n
  BY <1>1 DEF AllTyped
<1>5. PICK A, B : A = FoldedTo(sorted, class, cell) /\ B = FoldedTo(found, class, cell)
  OBVIOUS
<1>6. /\ A \subseteq 1 .. n /\ B \subseteq 1 .. n
      /\ \A i \in 1 .. n : i \in A <=> p[i] \in B
  BY <1>2, <1>3, <1>4, <1>5 DEF FoldedTo
<1>7. PICK b : b = [i \in A |-> p[i]]
  OBVIOUS
<1>8. b \in Bijection(A, B)
  <2>1. b \in [A -> B]
    BY <1>6, <1>7
  <2>2. \A i, j \in A : b[i] = b[j] => i = j
    BY <1>3, <1>6, <1>7
  <2>3. \A y \in B : \E i \in A : b[i] = y
    BY <1>3, <1>6, <1>7
  <2> QED
    BY <2>1, <2>2, <2>3 DEF Bijection, Injection, Surjection, IsInjective
<1>9. IsFiniteSet(A)
  <2>1. IsFiniteSet(1 .. n)
    BY FS_Interval
  <2> QED
    BY <1>6, <2>1, FS_Subset
<1>10. ExistsBijection(A, B)
  BY <1>8 DEF ExistsBijection
<1> QED
  BY <1>5, <1>9, <1>10, FS_Bijection

(* What one of the lists has none of is counted in the other.                *)
LEMMA ConcatCounts ==
  ASSUME NEW m \in Nat, NEW a, Listed(a, m), NEW n \in Nat, NEW b, Listed(b, n), NEW class, NEW cell
  PROVE  /\ (\A i \in 1 .. n : b[i].class # class) =>
              Cardinality(FoldedTo(a \o b, class, cell)) = Cardinality(FoldedTo(a, class, cell))
         /\ (\A i \in 1 .. m : a[i].class # class) =>
              Cardinality(FoldedTo(a \o b, class, cell)) = Cardinality(FoldedTo(b, class, cell))
<1>1. PICK both : both = a \o b
  OBVIOUS
<1>2. /\ DOMAIN both = 1 .. m + n
      /\ \A i \in 1 .. m : both[i] = a[i]
      /\ \A i \in 1 .. n : both[m + i] = b[i]
  <2>1. Follow(both, a, m, b, n)
    BY <1>1, Concatenated
  <2> QED
    BY <2>1 DEF Follow
<1>3. DOMAIN a = 1 .. m /\ DOMAIN b = 1 .. n
  BY DEF Listed, AllTyped
<1>4. \A i \in 1 .. m + n : i \in 1 .. m \/ (i - m \in 1 .. n /\ m + (i - m) = i)
  OBVIOUS
<1>5. \A i \in 1 .. m : i \in 1 .. m + n
  OBVIOUS
<1>6. \A i \in 1 .. n : m + i \in 1 .. m + n
  OBVIOUS
<1>7. ASSUME \A i \in 1 .. n : b[i].class # class
      PROVE  FoldedTo(both, class, cell) = FoldedTo(a, class, cell)
  <2>1. ASSUME NEW i \in FoldedTo(both, class, cell) PROVE i \in FoldedTo(a, class, cell)
    <3>1. i \in 1 .. m + n /\ both[i].class = class /\ CellOf(both[i], Radius) = cell
      BY <1>2, <2>1 DEF FoldedTo
    <3>2. i \in 1 .. m
      BY <1>2, <1>4, <1>7, <3>1
    <3> QED
      BY <1>2, <1>3, <3>1, <3>2 DEF FoldedTo
  <2>2. ASSUME NEW i \in FoldedTo(a, class, cell) PROVE i \in FoldedTo(both, class, cell)
    BY <1>2, <1>3, <1>5, <2>2 DEF FoldedTo
  <2> QED
    BY <2>1, <2>2
<1>8. ASSUME \A i \in 1 .. m : a[i].class # class
      PROVE  Cardinality(FoldedTo(both, class, cell)) = Cardinality(FoldedTo(b, class, cell))
  <2>1. PICK A, B : A = FoldedTo(both, class, cell) /\ B = FoldedTo(b, class, cell)
    OBVIOUS
  <2>2. B \subseteq 1 .. n /\ A \subseteq 1 .. m + n
    BY <1>2, <1>3, <2>1 DEF FoldedTo
  <2>3. \A i \in B : m + i \in A
    BY <1>2, <1>3, <1>6, <2>1 DEF FoldedTo
  <2>4. \A i \in A : i - m \in B /\ m + (i - m) = i
    <3>1. SUFFICES ASSUME NEW i \in A PROVE i - m \in B /\ m + (i - m) = i
      OBVIOUS
    <3>2. i \in 1 .. m + n /\ both[i].class = class /\ CellOf(both[i], Radius) = cell
      BY <1>2, <2>1 DEF FoldedTo
    <3>3. i \notin 1 .. m
      BY <1>2, <1>8, <3>2
    <3>4. i - m \in 1 .. n /\ m + (i - m) = i
      BY <1>4, <3>2, <3>3
    <3>5. both[i] = b[i - m]
      BY <1>2, <3>4
    <3> QED
      BY <1>3, <2>1, <3>2, <3>4, <3>5 DEF FoldedTo
  <2>5. PICK s : s = [i \in B |-> m + i]
    OBVIOUS
  <2>6. s \in Bijection(B, A)
    <3>1. s \in [B -> A]
      BY <2>3, <2>5
    <3>2. \A i, j \in B : s[i] = s[j] => i = j
      BY <2>2, <2>5
    <3>3. \A y \in A : \E i \in B : s[i] = y
      BY <2>4, <2>5
    <3> QED
      BY <3>1, <3>2, <3>3 DEF Bijection, Injection, Surjection, IsInjective
  <2>7. IsFiniteSet(B)
    <3>1. IsFiniteSet(1 .. n)
      BY FS_Interval
    <3> QED
      BY <2>2, <3>1, FS_Subset
  <2>8. ExistsBijection(B, A)
    BY <2>6 DEF ExistsBijection
  <2> QED
    BY <2>1, <2>7, <2>8, FS_Bijection
<1> QED
  BY <1>1, <1>7, <1>8

(* A finding is named after the class and the cell of its cluster.           *)
LEMMA IdentifyTally ==
  ASSUME NEW found, NEW named, named = identify(found, Radius), NEW class, NEW cell
  PROVE  NamedIn(named, class, cell) = FoldedTo(found, class, cell)
<1>1. DOMAIN named = DOMAIN found
  BY DEF identify
<1>2. \A i \in DOMAIN found : named[i].id = <<found[i].class, CellOf(found[i], Radius), Slot(found, Radius, i)>>
  BY DEF identify, finding_id
<1>3. \A i \in DOMAIN found : named[i].id[1] = found[i].class /\ named[i].id[2] = CellOf(found[i], Radius)
  BY <1>2
<1> QED
  BY <1>1, <1>3 DEF NamedIn, FoldedTo

(* Blaming renames nothing.                                                  *)
LEMMA BlamedTally ==
  ASSUME NEW fs, NEW named, Blamed(fs, named), NEW class, NEW cell
  PROVE  NamedIn(fs, class, cell) = NamedIn(named, class, cell)
BY DEF Blamed, NamedIn

(* A fold sorted is a list, with as many of a class in a cell.               *)
LEMMA SortedFold ==
  ASSUME NEW found, NEW classes, ListOf(found, classes), NEW sorted, sorted = sort_canonically(found)
  PROVE  /\ \E n \in Nat : Listed(sorted, n) /\ \A i \in 1 .. n : sorted[i].class \in classes
         /\ \A class, cell : Cardinality(FoldedTo(sorted, class, cell)) = Cardinality(FoldedTo(found, class, cell))
<1>1. PICK n \in Nat : AllTyped(found, n) /\ \A i \in 1 .. n : found[i].class \in classes
  BY DEF ListOf
<1>2. AllTyped(sorted, n) /\ sorted = [i \in 1 .. n |-> sorted[i]]
  BY <1>1, SortKeeps
<1>3. PICK p : Permutes(p, n) /\ \A i \in 1 .. n : sorted[i] = found[p[i]]
  BY <1>1, SortKeeps
<1>4. \A i \in 1 .. n : p[i] \in 1 .. n
  BY <1>3 DEF Permutes
<1>5. \A i \in 1 .. n : sorted[i].class \in classes
  BY <1>1, <1>3, <1>4
<1>6. \A class, cell : Cardinality(FoldedTo(sorted, class, cell)) = Cardinality(FoldedTo(found, class, cell))
  BY <1>1, SortCounts
<1> QED
  BY <1>2, <1>5, <1>6 DEF Listed

(* There are as many names of a class in a cell as clusters were folded of it. *)
LEMMA TallyOf ==
  ASSUME NEW f, NEW fs, FoundOf(f, fs), NEW class, NEW cell
  PROVE  /\ class \in Caused =>
              Cardinality(NamedIn(fs, class, cell)) = Cardinality(FoldedTo(FoldedIn(f, "samples"), class, cell))
         /\ class \in Unseen =>
              Cardinality(NamedIn(fs, class, cell)) = Cardinality(FoldedTo(FoldedIn(f, "facets"), class, cell))
<1>1. PICK a, b : a = ClustersIn(f) /\ b = MissingIn(f)
  OBVIOUS
<1>2. PICK m \in Nat : Listed(a, m) /\ \A i \in 1 .. m : a[i].class \in Caused
  BY <1>1, SortedFold DEF FoundOf, FineSamples, ClustersIn
<1>3. PICK n \in Nat : Listed(b, n) /\ \A i \in 1 .. n : b[i].class \in Unseen
  BY <1>1, SortedFold DEF FoundOf, FineFacets, MissingIn
<1>4. Cardinality(FoldedTo(a, class, cell)) = Cardinality(FoldedTo(FoldedIn(f, "samples"), class, cell))
  BY <1>1, SortedFold DEF FoundOf, FineSamples, ClustersIn
<1>5. Cardinality(FoldedTo(b, class, cell)) = Cardinality(FoldedTo(FoldedIn(f, "facets"), class, cell))
  BY <1>1, SortedFold DEF FoundOf, FineFacets, MissingIn
<1>6. PICK both : both = a \o b
  OBVIOUS
<1>7. PICK sorted : sorted = sort_canonically(both)
  OBVIOUS
<1>8. Follow(both, a, m, b, n)
  BY <1>2, <1>3, <1>6, Concatenated
<1>9. Cardinality(FoldedTo(sorted, class, cell)) = Cardinality(FoldedTo(both, class, cell))
  <2>1. AllTyped(both, m + n) /\ m + n \in Nat
    BY <1>8 DEF Follow
  <2> QED
    BY <1>7, <2>1, SortCounts
<1>10. PICK named : named = identify(sorted, Radius)
  OBVIOUS
<1>11. Blamed(fs, named)
  BY <1>1, <1>6, <1>7, <1>10 DEF FoundOf, FoundIn
<1>12. NamedIn(fs, class, cell) = FoldedTo(sorted, class, cell)
  BY <1>10, <1>11, IdentifyTally, BlamedTally
<1>13. ASSUME class \in Caused
       PROVE  Cardinality(FoldedTo(both, class, cell)) = Cardinality(FoldedTo(a, class, cell))
  <2>1. \A i \in 1 .. n : b[i].class # class
    BY <1>3, <1>13 DEF Caused, Unseen
  <2> QED
    BY <1>2, <1>3, <1>6, <2>1, ConcatCounts
<1>14. ASSUME class \in Unseen
       PROVE  Cardinality(FoldedTo(both, class, cell)) = Cardinality(FoldedTo(b, class, cell))
  <2>1. \A i \in 1 .. m : a[i].class # class
    BY <1>2, <1>14 DEF Caused, Unseen
  <2> QED
    BY <1>2, <1>3, <1>6, <2>1, ConcatCounts
<1> QED
  BY <1>4, <1>5, <1>9, <1>12, <1>13, <1>14

(* Where the folds of two fields have as many, the names are the same.       *)
LEMMA FoldsName ==
  ASSUME NEW f, NEW old, FoundOf(f, old), Named(old), NEW g, NEW new, FoundOf(g, new), Named(new),
         NEW class, NEW o, (class \in Caused /\ o = "samples") \/ (class \in Unseen /\ o = "facets"),
         \A cell : FoldedTo(FoldedIn(f, o), class, cell) = FoldedTo(FoldedIn(g, o), class, cell)
  PROVE  \A id : id[1] = class => (id \in Ids(old) <=> id \in Ids(new))
<1>1. ASSUME NEW cell PROVE Cardinality(NamedIn(old, class, cell)) = Cardinality(NamedIn(new, class, cell))
  <2>1. PICK F : F = FoldedTo(FoldedIn(f, o), class, cell)
    OBVIOUS
  <2>2. F = FoldedTo(FoldedIn(g, o), class, cell)
    BY <2>1
  <2>3. Cardinality(NamedIn(old, class, cell)) = Cardinality(F)
    BY <2>1, TallyOf
  <2>4. Cardinality(NamedIn(new, class, cell)) = Cardinality(F)
    BY <2>2, TallyOf
  <2> QED
    BY <2>3, <2>4
<1> QED
  BY <1>1, SameNames

-------------------------------------------------------------------------------
\* Of what is joined only places and classes count.

\* As many slots, of one class and at one place each.
SameLie(p, q) ==
  /\ Len(p) \in Nat /\ Len(q) = Len(p) /\ DOMAIN p = 1 .. Len(p) /\ DOMAIN q = 1 .. Len(p)
  /\ \A k \in 1 .. Len(p) : p[k].at \in Point /\ q[k].at = p[k].at /\ q[k].class = p[k].class

(* What lies alike grows into the same trees.                                *)
LEMMA SameTrees ==
  ASSUME NEW p, NEW q, SameLie(p, q)
  PROVE  TreesIn(p) = TreesIn(q)
<1>1. PICK n \in Nat : n = Len(p)
  BY DEF SameLie
<1>2. Len(q) = n
  BY <1>1 DEF SameLie
<1>3. \A s \in 0 .. n - 1 : s + 1 \in 1 .. n
  OBVIOUS
<1>4. \A s \in 0 .. n - 1 : p[s + 1].at = q[s + 1].at /\ p[s + 1].class = q[s + 1].class
  BY <1>1, <1>3 DEF SameLie
<1>5. PICK U : U = United(p)
  OBVIOUS
<1>6. \A e \in (0 .. n - 1) \X (0 .. n - 1) : e[1] \in 0 .. n - 1 /\ e[2] \in 0 .. n - 1
  OBVIOUS
<1>7. United(q) = U
  BY <1>1, <1>2, <1>4, <1>5, <1>6 DEF United
<1>8. \A e \in U : e[1] \in 0 .. n - 1 /\ e[2] \in 0 .. n - 1
  BY <1>1, <1>5, <1>6 DEF United
<1>9. [e \in U |-> cell_of(p[e[1] + 1].at) \o cell_of(p[e[2] + 1].at) \o e]
        = [e \in U |-> cell_of(q[e[1] + 1].at) \o cell_of(q[e[2] + 1].at) \o e]
  <2>1. \A e \in U : p[e[1] + 1].at = q[e[1] + 1].at /\ p[e[2] + 1].at = q[e[2] + 1].at
    BY <1>4, <1>8
  <2> QED
    BY <2>1
<1>10. Edges(p) = Edges(q)
  BY <1>5, <1>7, <1>9 DEF Edges
<1>11. LabelsOf(p) = LabelsOf(q)
  BY <1>1, <1>2, <1>10 DEF LabelsOf
<1> QED
  BY <1>1, <1>2, <1>11 DEF TreesIn

(* A finite set of numbers in order lists them.                              *)
LEMMA AscendingLists ==
  ASSUME NEW S, IsFiniteSet(S), S \subseteq Nat
  PROVE  /\ Cardinality(S) \in Nat /\ Ascending(S) \in [1 .. Cardinality(S) -> S]
         /\ S # {} => Cardinality(S) > 0
<1>1. PICK key : key = [s \in S |-> <<s>>]
  OBVIOUS
<1>2. Keyed(S, key, 1)
  BY <1>1 DEF Keyed
<1>3. Cardinality(S) \in Nat /\ InOrder(S, key) \in [1 .. Cardinality(S) -> S]
  BY <1>2, InOrderProperties
<1>4. S # {} => Cardinality(S) # 0
  BY FS_EmptySet
<1> QED
  BY <1>1, <1>3, <1>4 DEF Ascending

\* The trees of n slots, by their roots.
TreesFine(trees, n) ==
  /\ \E c \in Nat : Ascending(DOMAIN trees) \in [1 .. c -> DOMAIN trees]
  /\ \A r \in DOMAIN trees : \E c \in Nat \ {0} : trees[r] \in [1 .. c -> 0 .. n - 1]

(* Every tree has some of the slots.                                         *)
LEMMA TreesAreFine ==
  ASSUME NEW p, Placed(p)
  PROVE  TreesFine(TreesIn(p), Len(p))
<1>1. PICK n \in Nat : n = Len(p)
  BY DEF Placed
<1>2. PICK E : E = Edges(p)
  OBVIOUS
<1>3. E \in Seq((0 .. n - 1) \X (0 .. n - 1))
  BY <1>1, <1>2, EdgesOfPlaced
<1>4. GrowsBy(Grown(n, E), n, E)
  BY <1>3, GrownSteps
<1>5. PICK label : label = LabelsOf(p)
  OBVIOUS
<1>6. label \in [0 .. n - 1 -> 0 .. n - 1]
  <2>1. Len(E) \in 0 .. Len(E)
    BY <1>3
  <2>2. Grown(n, E)[Len(E)] \in ForestsOn(n)
    BY <1>4, <2>1 DEF GrowsBy
  <2> QED
    BY <1>1, <1>2, <1>5, <2>2 DEF LabelsOf, ForestsOn
<1>7. PICK trees : trees = TreesIn(p)
  OBVIOUS
<1>8. /\ DOMAIN trees = {label[s] : s \in 0 .. n - 1}
      /\ \A r \in DOMAIN trees : trees[r] = Ascending({s \in 0 .. n - 1 : label[s] = r})
  BY <1>1, <1>5, <1>7 DEF TreesIn, GroupsIn
<1>9. IsFiniteSet(0 .. n - 1)
  BY FS_Interval
<1>10. \E c \in Nat : Ascending(DOMAIN trees) \in [1 .. c -> DOMAIN trees]
  <2>1. PICK S : S = DOMAIN trees
    OBVIOUS
  <2>2. S \subseteq 0 .. n - 1
    BY <1>6, <1>8, <2>1
  <2>3. IsFiniteSet(S) /\ S \subseteq Nat
    <3>1. IsFiniteSet(S)
      BY <1>9, <2>2, FS_Subset
    <3>2. 0 .. n - 1 \subseteq Nat
      OBVIOUS
    <3> QED
      BY <2>2, <3>1, <3>2
  <2> QED
    BY <2>1, <2>3, AscendingLists
<1>11. ASSUME NEW r \in DOMAIN trees PROVE \E c \in Nat \ {0} : trees[r] \in [1 .. c -> 0 .. n - 1]
  <2>1. PICK S : S = {s \in 0 .. n - 1 : label[s] = r}
    OBVIOUS
  <2>2. S \subseteq 0 .. n - 1 /\ S # {}
    BY <1>8, <1>11, <2>1
  <2>3. IsFiniteSet(S) /\ S \subseteq Nat
    <3>1. IsFiniteSet(S)
      BY <1>9, <2>2, FS_Subset
    <3>2. 0 .. n - 1 \subseteq Nat
      OBVIOUS
    <3> QED
      BY <2>2, <3>1, <3>2
  <2>4. PICK c \in Nat : c = Cardinality(S) /\ c > 0
    BY <2>2, <2>3, AscendingLists
  <2>5. trees[r] \in [1 .. c -> S]
    BY <1>8, <2>1, <2>3, <2>4, AscendingLists
  <2>6. trees[r] \in [1 .. c -> 0 .. n - 1]
    BY <2>2, <2>5
  <2> QED
    BY <2>4, <2>6
<1> QED
  BY <1>1, <1>7, <1>10, <1>11 DEF TreesFine

(* A tree of what lies alike folds into a cluster of the class, the place and *)
(* the number of members.                                                    *)
LEMMA SameCluster ==
  ASSUME NEW p, NEW q, SameLie(p, q), NEW c \in Nat \ {0}, NEW slots \in [1 .. c -> 0 .. Len(p) - 1],
         NEW f, NEW g, NEW o
  PROVE  /\ ClusterIn(f, o, p, slots).class = ClusterIn(g, o, q, slots).class
         /\ ClusterIn(f, o, p, slots).at = ClusterIn(g, o, q, slots).at
         /\ Len(ClusterIn(f, o, p, slots).members) = Len(ClusterIn(g, o, q, slots).members)
<1>1. PICK n \in Nat : n = Len(p)
  BY DEF SameLie
<1>2. \A k \in 1 .. c : slots[k] + 1 \in 1 .. n
  BY <1>1
<1>3. \A k \in 1 .. c : p[slots[k] + 1].at = q[slots[k] + 1].at /\ p[slots[k] + 1].class = q[slots[k] + 1].class
  BY <1>1, <1>2 DEF SameLie
<1>4. DOMAIN slots = 1 .. c /\ 1 \in 1 .. c
  OBVIOUS
<1>5. PICK places : places = [k \in DOMAIN slots |-> p[slots[k] + 1].at]
  OBVIOUS
<1>6. places = [k \in DOMAIN slots |-> q[slots[k] + 1].at]
  BY <1>3, <1>4, <1>5
<1>7. PICK at : at = <<SumOf([k \in DOMAIN places |-> places[k][1]]), SumOf([k \in DOMAIN places |-> places[k][2]])>>
  OBVIOUS
<1>8. ClusterIn(f, o, p, slots).at = at /\ ClusterIn(g, o, q, slots).at = at
  BY <1>5, <1>6, <1>7 DEF ClusterIn
<1>9. /\ ClusterIn(f, o, p, slots).class = p[slots[1] + 1].class
      /\ ClusterIn(g, o, q, slots).class = q[slots[1] + 1].class
  BY DEF ClusterIn
<1>10. PICK m1, m2 : m1 = [k \in DOMAIN slots |-> p[slots[k] + 1].of] /\ m2 = [k \in DOMAIN slots |-> q[slots[k] + 1].of]
  OBVIOUS
<1>11. ClusterIn(f, o, p, slots).members = m1 /\ ClusterIn(g, o, q, slots).members = m2
  BY <1>10 DEF ClusterIn
<1>12. Len(m1) = c /\ Len(m2) = c
  <2>1. PICK S : S = {p[slots[k] + 1].of : k \in 1 .. c} \cup {q[slots[k] + 1].of : k \in 1 .. c}
    OBVIOUS
  <2>2. m1 \in [1 .. c -> S] /\ m2 \in [1 .. c -> S]
    BY <1>4, <1>10, <2>1
  <2> QED
    BY <2>2
<1> QED
  BY <1>3, <1>4, <1>8, <1>9, <1>11, <1>12

(* So fields in which what is joined lies alike have as many of a class in a cell. *)
LEMMA SameFolds ==
  ASSUME NEW f, NEW g, NEW o, SameLie(KeptIn(f, o), KeptIn(g, o)), NEW class, NEW cell
  PROVE  FoldedTo(FoldedIn(f, o), class, cell) = FoldedTo(FoldedIn(g, o), class, cell)
<1>1. PICK p, q : p = KeptIn(f, o) /\ q = KeptIn(g, o)
  OBVIOUS
<1>2. SameLie(p, q)
  BY <1>1
<1>3. PICK trees : trees = TreesIn(p)
  OBVIOUS
<1>4. trees = TreesIn(q)
  BY <1>2, <1>3, SameTrees
<1>5. Placed(p)
  BY <1>2 DEF SameLie, Placed
<1>6. TreesFine(trees, Len(p))
  BY <1>3, <1>5, TreesAreFine
<1>7. PICK roots : roots = Ascending(DOMAIN trees)
  OBVIOUS
<1>8. PICK a, b : a = FoldedIn(f, o) /\ b = FoldedIn(g, o)
  OBVIOUS
<1>9. a = [i \in DOMAIN roots |-> ClusterIn(f, o, p, trees[roots[i]])]
  BY <1>1, <1>3, <1>7, <1>8 DEF FoldedIn
<1>10. b = [i \in DOMAIN roots |-> ClusterIn(g, o, q, trees[roots[i]])]
  BY <1>1, <1>4, <1>7, <1>8 DEF FoldedIn
<1>11. ASSUME NEW i \in DOMAIN roots
       PROVE  a[i].class = b[i].class /\ a[i].at = b[i].at /\ Len(a[i].members) = Len(b[i].members)
  <2>1. roots[i] \in DOMAIN trees
    BY <1>6, <1>7 DEF TreesFine
  <2>2. PICK slots : slots = trees[roots[i]]
    OBVIOUS
  <2>3. PICK c \in Nat \ {0} : slots \in [1 .. c -> 0 .. Len(p) - 1]
    BY <1>6, <2>1, <2>2 DEF TreesFine
  <2>4. a[i] = ClusterIn(f, o, p, slots) /\ b[i] = ClusterIn(g, o, q, slots)
    BY <1>9, <1>10, <2>2
  <2> QED
    BY <1>2, <2>3, <2>4, SameCluster
<1>12. \A i \in DOMAIN roots : CellOf(a[i], Radius) = CellOf(b[i], Radius) /\ a[i].class = b[i].class
  BY <1>11 DEF CellOf
<1>13. DOMAIN a = DOMAIN roots /\ DOMAIN b = DOMAIN roots
  BY <1>9, <1>10
<1> QED
  BY <1>8, <1>12, <1>13 DEF FoldedTo

\* What is kept of the items is a list of those, in their order.
KeptOf(kept, order, c, f, o) ==
  /\ order = OrderIn(f, o) /\ order \in [1 .. c -> {i \in DOMAIN ItemsIn(f, o) : ClassIn(f, o, i) # None}]
  /\ DOMAIN kept = 1 .. c /\ Len(kept) = c
  /\ \A k \in 1 .. c : /\ kept[k].at = ItemsIn(f, o)[order[k]].at /\ kept[k].at \in Point
                       /\ kept[k].class = ClassIn(f, o, order[k])

(* So it is.                                                                 *)
LEMMA KeptListed ==
  ASSUME NEW f, IsField(f), NEW o \in {"samples", "facets"}
  PROVE  \E c \in Nat : \E order : KeptOf(KeptIn(f, o), order, c, f, o)
<1>1. PICK items : items = ItemsIn(f, o)
  OBVIOUS
<1>2. PICK n \in Nat : DOMAIN items = 1 .. n /\ \A i \in 1 .. n : items[i].at \in Point
  <2>1. CASE o = "samples"
    <3>1. items = f.samples /\ items \in Seq(Sample)
      BY <1>1, <2>1 DEF ItemsIn, IsField
    <3>2. \A i \in 1 .. Len(items) : items[i] \in Sample
      BY <3>1
    <3> QED
      BY <3>1, <3>2 DEF Sample
  <2>2. CASE o = "facets"
    <3>1. items = f.facets /\ items \in Seq(Facet)
      BY <1>1, <2>2 DEF ItemsIn, IsField
    <3>2. \A i \in 1 .. Len(items) : items[i] \in Facet
      BY <3>1
    <3> QED
      BY <3>1, <3>2 DEF Facet
  <2> QED
    BY <2>1, <2>2
<1>3. PICK S : S = {i \in DOMAIN items : ClassIn(f, o, i) # None}
  OBVIOUS
<1>4. PICK key : key = [i \in DOMAIN items |-> <<i>>]
  OBVIOUS
<1>5. S \subseteq 1 .. n
  BY <1>2, <1>3
<1>6. IsFiniteSet(S)
  <2>1. IsFiniteSet(1 .. n)
    BY FS_Interval
  <2> QED
    BY <1>5, <2>1, FS_Subset
<1>7. Keyed(S, key, 1)
  BY <1>2, <1>4, <1>5 DEF Keyed
<1>8. PICK order : order = OrderIn(f, o)
  OBVIOUS
<1>9. order = InOrder(S, key)
  BY <1>1, <1>3, <1>4, <1>8 DEF OrderIn
<1>10. PICK c \in Nat : order \in [1 .. c -> S]
  BY <1>6, <1>7, <1>9, InOrderProperties
<1>11. PICK kept : kept = KeptIn(f, o)
  OBVIOUS
<1>12. kept = [k \in 1 .. c |-> [of |-> order[k], at |-> items[order[k]].at, class |-> ClassIn(f, o, order[k])]]
  BY <1>1, <1>8, <1>10, <1>11 DEF KeptIn
<1>13. DOMAIN kept = 1 .. c /\ Len(kept) = c
  <2>1. PICK R : R = {kept[k] : k \in 1 .. c}
    OBVIOUS
  <2>2. kept \in [1 .. c -> R]
    BY <1>12, <2>1
  <2> QED
    BY <2>2
<1>14. \A k \in 1 .. c : /\ kept[k].at = items[order[k]].at /\ kept[k].class = ClassIn(f, o, order[k])
                         /\ order[k] \in 1 .. n
  BY <1>5, <1>10, <1>12
<1>15. KeptOf(kept, order, c, f, o)
  BY <1>1, <1>2, <1>3, <1>8, <1>10, <1>13, <1>14 DEF KeptOf
<1> QED
  BY <1>11, <1>15

(* Where the samples out of tolerance lie is what is kept of them.           *)
LEMMA KeptLies ==
  ASSUME NEW f, IsField(f), NEW kept, kept = KeptIn(f, "samples"), NEW lies, lies = Lies(f.samples)
  PROVE  /\ Len(kept) \in Nat /\ DOMAIN kept = 1 .. Len(kept) /\ DOMAIN lies = 1 .. Len(kept)
         /\ \A k \in 1 .. Len(kept) :
              /\ kept[k].at \in Point /\ lies[k][1] = kept[k].at
              /\ kept[k].class = IF lies[k][2] THEN "gouge" ELSE "excess-stock"
<1>1. PICK samples : samples = f.samples
  OBVIOUS
<1>2. samples \in Seq(Sample) /\ ItemsIn(f, "samples") = samples
  BY <1>1 DEF IsField, ItemsIn
<1>3. PICK c \in Nat : \E order : KeptOf(kept, order, c, f, "samples")
  BY KeptListed
<1>0. PICK order : KeptOf(kept, order, c, f, "samples")
  BY <1>3
<1>4. ASSUME NEW i \in DOMAIN samples
      PROVE  /\ ClassIn(f, "samples", i) # None <=> Abs(samples[i].signed) > Tolerance
             /\ ClassIn(f, "samples", i) # None =>
                  ClassIn(f, "samples", i) = IF samples[i].signed < 0 THEN "gouge" ELSE "excess-stock"
  <2>1. samples[i] \in Sample
    BY <1>2
  <2>2. PICK d \in Int : d = samples[i].signed
    BY <2>1 DEF Sample
  <2>3. ClassIn(f, "samples", i) = CASE d <= Tolerance /\ -d <= Tolerance -> None
                                     [] d < -Tolerance -> "gouge"
                                     [] d > Tolerance -> "excess-stock"
    BY <1>1, <2>2 DEF ClassIn, classify
  <2>4. Tolerance \in Nat /\ None # "gouge" /\ None # "excess-stock"
    BY ClusteringAssumption
  <2>5. CASE d <= Tolerance /\ -d <= Tolerance
    BY <2>2, <2>3, <2>4, <2>5 DEF Abs
  <2>6. CASE d < -Tolerance
    BY <2>2, <2>3, <2>4, <2>6 DEF Abs
  <2>7. CASE d > Tolerance
    BY <2>2, <2>3, <2>4, <2>7 DEF Abs
  <2> QED
    BY <2>4, <2>5, <2>6, <2>7
<1>5. {i \in DOMAIN samples : ClassIn(f, "samples", i) # None} = {i \in DOMAIN samples : Abs(samples[i].signed) > Tolerance}
  BY <1>4
<1>6. order = InOrder({i \in DOMAIN samples : Abs(samples[i].signed) > Tolerance}, [i \in DOMAIN samples |-> <<i>>])
  BY <1>2, <1>0, <1>5 DEF KeptOf, OrderIn
<1>7. lies = [k \in DOMAIN order |-> <<samples[order[k]].at, samples[order[k]].signed < 0>>]
  BY <1>1, <1>6 DEF Lies
<1>8. DOMAIN order = 1 .. c /\ \A k \in 1 .. c : order[k] \in DOMAIN samples /\ ClassIn(f, "samples", order[k]) # None
  BY <1>2, <1>0 DEF KeptOf
<1>9. /\ DOMAIN kept = 1 .. c /\ Len(kept) = c
      /\ \A k \in 1 .. c : /\ kept[k].at = samples[order[k]].at /\ kept[k].at \in Point
                           /\ kept[k].class = ClassIn(f, "samples", order[k])
  BY <1>2, <1>0 DEF KeptOf
<1>10. ASSUME NEW k \in 1 .. c
       PROVE  lies[k][1] = kept[k].at /\ kept[k].class = IF lies[k][2] THEN "gouge" ELSE "excess-stock"
  <2>1. PICK s : s = samples[order[k]]
    OBVIOUS
  <2>2. lies[k] = <<s.at, s.signed < 0>>
    BY <1>7, <1>8, <2>1
  <2>3. lies[k][1] = s.at /\ lies[k][2] = (s.signed < 0)
    BY <2>2
  <2>4. kept[k].class = IF s.signed < 0 THEN "gouge" ELSE "excess-stock"
    BY <1>4, <1>8, <1>9, <2>1
  <2> QED
    BY <1>9, <2>1, <2>3, <2>4
<1> QED
  BY <1>7, <1>8, <1>9, <1>10

(* Fields in which the samples out of tolerance lie as they did fold alike.  *)
LEMMA LiesSame ==
  ASSUME NEW f, IsField(f), NEW g, IsField(g), Lies(f.samples) = Lies(g.samples)
  PROVE  SameLie(KeptIn(f, "samples"), KeptIn(g, "samples"))
<1>1. PICK lies : lies = Lies(f.samples)
  OBVIOUS
<1>2. PICK p, q : p = KeptIn(f, "samples") /\ q = KeptIn(g, "samples")
  OBVIOUS
<1>3. /\ Len(p) \in Nat /\ DOMAIN p = 1 .. Len(p) /\ DOMAIN lies = 1 .. Len(p)
      /\ \A k \in 1 .. Len(p) : /\ p[k].at \in Point /\ lies[k][1] = p[k].at
                                /\ p[k].class = IF lies[k][2] THEN "gouge" ELSE "excess-stock"
  BY <1>1, <1>2, KeptLies
<1>4. /\ Len(q) \in Nat /\ DOMAIN q = 1 .. Len(q) /\ DOMAIN lies = 1 .. Len(q)
      /\ \A k \in 1 .. Len(q) : /\ q[k].at \in Point /\ lies[k][1] = q[k].at
                                /\ q[k].class = IF lies[k][2] THEN "gouge" ELSE "excess-stock"
  BY <1>1, <1>2, KeptLies
<1>5. Len(p) = Len(q)
  <2>1. PICK m \in Nat, n \in Nat : m = Len(p) /\ n = Len(q)
    BY <1>3, <1>4
  <2>2. 1 .. m = 1 .. n
    BY <1>3, <1>4, <2>1
  <2>3. m = n
    BY <2>2
  <2> QED
    BY <2>1, <2>3
<1>6. \A k \in 1 .. Len(p) : q[k].at = p[k].at /\ q[k].class = p[k].class
  BY <1>3, <1>4, <1>5
<1> QED
  BY <1>2, <1>3, <1>4, <1>5, <1>6 DEF SameLie

(* Where the samples were measured to is all that covers.                    *)
LEMMA CoversSame ==
  ASSUME NEW f, IsField(f), NEW g, IsField(g), Covers(f.samples) = Covers(g.samples), f.facets = g.facets
  PROVE  SameLie(KeptIn(f, "facets"), KeptIn(g, "facets"))
<1>1. PICK near : near = Covers(f.samples)
  OBVIOUS
<1>2. ASSUME NEW p
      PROVE  CoveredIn(f, p) <=> \E k \in DOMAIN near : Neighbours(cell_of(p), cell_of(near[k])) /\ Within(near[k], p)
  BY <1>1 DEF CoveredIn, Covers, Range
<1>3. ASSUME NEW p
      PROVE  CoveredIn(g, p) <=> \E k \in DOMAIN near : Neighbours(cell_of(p), cell_of(near[k])) /\ Within(near[k], p)
  BY <1>1 DEF CoveredIn, Covers, Range
<1>4. \A p : CoveredIn(f, p) = CoveredIn(g, p)
  BY <1>2, <1>3 DEF CoveredIn
<1>5. PICK items : items = f.facets
  OBVIOUS
<1>6. ItemsIn(f, "facets") = items /\ ItemsIn(g, "facets") = items
  BY <1>5 DEF ItemsIn
<1>7. ASSUME NEW i PROVE ClassIn(f, "facets", i) = ClassIn(g, "facets", i)
  <2>1. PICK b : b = CoveredIn(f, items[i].at)
    OBVIOUS
  <2>2. b = CoveredIn(g, items[i].at)
    BY <1>4, <2>1
  <2>3. ClassIn(f, "facets", i) = CASE b \/ items[i].faces = None -> None
                                    [] ~b /\ items[i].faces = "down" -> "undercut"
                                    [] ~b /\ items[i].faces = "up" -> "unreachable"
    BY <1>5, <2>1, Zenon DEF ClassIn
  <2>4. ClassIn(g, "facets", i) = CASE b \/ items[i].faces = None -> None
                                    [] ~b /\ items[i].faces = "down" -> "undercut"
                                    [] ~b /\ items[i].faces = "up" -> "unreachable"
    BY <1>5, <2>2, Zenon DEF ClassIn
  <2> QED
    BY <2>3, <2>4
<1>8. OrderIn(f, "facets") = OrderIn(g, "facets")
  BY <1>6, <1>7 DEF OrderIn
<1>9. KeptIn(f, "facets") = KeptIn(g, "facets")
  BY <1>6, <1>7, <1>8 DEF KeptIn
<1>10. PICK kept : kept = KeptIn(f, "facets")
  OBVIOUS
<1>11. PICK c \in Nat : \E order : KeptOf(kept, order, c, f, "facets")
  BY <1>10, KeptListed
<1>12. SameLie(kept, kept)
  BY <1>11 DEF KeptOf, SameLie
<1> QED
  BY <1>9, <1>10, <1>12

-------------------------------------------------------------------------------
\* What the comparison says of it.

\* A finding of what was not looked at has neither depth nor cause.
Blank(x) == x.worst = 0 /\ x.total \in Int /\ x.count = 0 /\ x.segments = {}

(* Such are all of them.                                                     *)
LEMMA UnseenAreBlank ==
  ASSUME NEW f, NEW fs, FoundOf(f, fs), NEW i \in DOMAIN fs, fs[i].id[1] \in Unseen
  PROVE  Blank(fs[i]) /\ Blank(finding_json(fs[i]))
<1>1. PICK a, b : a = ClustersIn(f) /\ b = MissingIn(f)
  OBVIOUS
<1>2. PICK m \in Nat : Listed(a, m) /\ \A k \in 1 .. m : a[k].class \in Caused
  BY <1>1, SortedFold DEF FoundOf, FineSamples, ClustersIn
<1>3. PICK found : found = FoldedIn(f, "facets")
  OBVIOUS
<1>4. PICK n \in Nat : AllTyped(found, n)
  BY <1>3 DEF FoundOf, FineFacets, ListOf
<1>5. PICK q : Permutes(q, n) /\ \A k \in 1 .. n : b[k] = found[q[k]]
  BY <1>1, <1>3, <1>4, SortKeeps DEF MissingIn
<1>6. \A k \in 1 .. n : b[k].worst = 0 /\ b[k].total \in Int
  <2>1. Flat(found) /\ DOMAIN found = 1 .. n
    BY <1>3, <1>4 DEF FoundOf, FineFacets, AllTyped
  <2>2. \A k \in 1 .. n : q[k] \in 1 .. n
    BY <1>5 DEF Permutes
  <2> QED
    BY <1>5, <2>1, <2>2 DEF Flat
<1>7. Listed(b, n)
  BY <1>1, <1>3, <1>4, SortKeeps DEF MissingIn, Listed
<1>8. PICK both : both = a \o b
  OBVIOUS
<1>9. Follow(both, a, m, b, n)
  BY <1>2, <1>7, <1>8, Concatenated
<1>10. AllTyped(both, m + n) /\ m + n \in Nat
  BY <1>9 DEF Follow
<1>11. PICK sorted : sorted = sort_canonically(both)
  OBVIOUS
<1>12. AllTyped(sorted, m + n)
  BY <1>10, <1>11, SortKeeps
<1>13. PICK p : Permutes(p, m + n) /\ \A k \in 1 .. m + n : sorted[k] = both[p[k]]
  BY <1>10, <1>11, SortKeeps
<1>14. PICK named : named = identify(sorted, Radius)
  OBVIOUS
<1>15. Blamed(fs, named)
  BY <1>1, <1>8, <1>11, <1>14 DEF FoundOf, FoundIn
<1>16. i \in DOMAIN named /\ i \in 1 .. m + n
  BY <1>12, <1>14, <1>15 DEF Blamed, identify, AllTyped
<1>17. PICK c : c = sorted[i]
  OBVIOUS
<1>18. named[i] = [id |-> finding_id(c.class, CellOf(c, Radius), Slot(sorted, Radius, i)),
                   class |-> c.class, at |-> <<c.at, Len(c.members)>>, worst |-> c.worst, total |-> c.total,
                   count |-> IF c.class \in {"gouge", "excess-stock"} THEN Len(c.members) ELSE 0,
                   probes |-> c.probes, segments |-> {}]
  BY <1>14, <1>16, <1>17 DEF identify
<1>19. named[i].id[1] = c.class /\ named[i].class = c.class
  BY <1>18 DEF finding_id
<1>20. fs[i].id = named[i].id
  BY <1>15, <1>16 DEF Blamed
<1>21. c.class \in Unseen /\ c.class \notin Caused
  BY <1>19, <1>20 DEF Unseen, Caused
<1>22. fs[i] = named[i]
  BY <1>15, <1>16, <1>19, <1>21 DEF Blamed
<1>23. c.worst = 0 /\ c.total \in Int
  <2>1. PICK k \in 1 .. m + n : k = p[i] /\ c = both[k]
    BY <1>13, <1>16, <1>17 DEF Permutes
  <2>2. k \notin 1 .. m
    BY <1>2, <1>9, <1>21, <2>1 DEF Follow
  <2>3. PICK j \in 1 .. n : k = m + j
    <3>1. k - m \in 1 .. n /\ k = m + (k - m)
      BY <2>2
    <3> QED
      BY <3>1
  <2>4. c = b[j]
    BY <1>9, <2>1, <2>3 DEF Follow
  <2> QED
    BY <1>6, <2>4
<1>24. PICK id, class, at, count, probes : named[i] = [id |-> id, class |-> class, at |-> at, worst |-> c.worst,
         total |-> c.total, count |-> count, probes |-> probes, segments |-> {}] /\ count = 0
  BY <1>18, <1>21 DEF Caused
<1>25. Blank(fs[i])
  BY <1>22, <1>23, <1>24 DEF Blank
<1>26. finding_json(fs[i]) = [id |-> id, class |-> class, at |-> at, worst |-> c.worst,
         total |-> c.total, count |-> count, probes |-> <<>>, segments |-> {}]
  <2>1. PICK x : x = fs[i]
    OBVIOUS
  <2>2. x = [id |-> id, class |-> class, at |-> at, worst |-> c.worst,
             total |-> c.total, count |-> count, probes |-> probes, segments |-> {}]
    BY <1>22, <1>24, <2>1
  <2>3. finding_json(fs[i]) = [x EXCEPT !.probes = <<>>]
    BY <2>1 DEF finding_json
  <2> QED
    BY <2>2, <2>3
<1>27. Blank(finding_json(fs[i]))
  BY <1>23, <1>24, <1>26 DEF Blank
<1> QED
  BY <1>25, <1>27

\* What a comparison says of findings of these classes.
SaidOf(changes, classes) == {c \in changes : c[2][1] \in classes}

\* One that says none of these classes has appeared or disappeared.
Keeps(changes, classes) == \A c \in SaidOf(changes, classes) : c[1] = "changed"

(* Where the names of these classes are the same, none is said to be of one only. *)
LEMMA SameNamesKeep ==
  ASSUME NEW a, NEW b, NEW moved, NEW classes,
         \A id : id[1] \in classes => (id \in Ids(a) <=> id \in Ids(b))
  PROVE  Keeps(Changes(a, b, moved), classes)
<1>1. SUFFICES ASSUME NEW c \in Changes(a, b, moved), c[2][1] \in classes PROVE c[1] = "changed"
  BY DEF Keeps, SaidOf
<1>2. CASE \E id \in Ids(a) \ Ids(b) : c = <<"disappeared", id>>
  <2>1. PICK id \in Ids(a) \ Ids(b) : c = <<"disappeared", id>>
    BY <1>2
  <2>2. c[2] = id
    BY <2>1
  <2> QED
    BY <1>1, <2>1, <2>2
<1>3. CASE \E id \in Ids(b) \ Ids(a) : c = <<"appeared", id>>
  <2>1. PICK id \in Ids(b) \ Ids(a) : c = <<"appeared", id>>
    BY <1>3
  <2>2. c[2] = id
    BY <2>1
  <2> QED
    BY <1>1, <2>1, <2>2
<1>4. CASE \E id \in moved : c = <<"changed", id>>
  BY <1>4
<1> QED
  BY <1>1, <1>2, <1>3, <1>4 DEF Changes

\* Two runs that were compared: their fields, what they found and what was
\* written of it.
TwoRuns(f, old, g, new) == FoundOf(f, old) /\ Named(old) /\ FoundOf(g, new) /\ Named(new)

(* No gouge and no excess of samples that lie as they did comes or goes.     *)
LEMMA CausedKeep ==
  ASSUME NEW f, NEW g, NEW old, NEW new, TwoRuns(f, old, g, new), Lies(f.samples) = Lies(g.samples),
         NEW a, a = Each(old, finding_json), NEW b, b = Each(new, finding_json), NEW moved
  PROVE  Keeps(Changes(a, b, moved), Caused)
<1>1. FoundOf(f, old) /\ FoundOf(g, new) /\ Named(old) /\ Named(new)
  BY DEF TwoRuns
<1>2. IsField(f) /\ IsField(g)
  BY <1>1 DEF FoundOf, FineSamples
<1>3. SameLie(KeptIn(f, "samples"), KeptIn(g, "samples"))
  BY <1>2, LiesSame
<1>4. \A class, cell :
        FoldedTo(FoldedIn(f, "samples"), class, cell) = FoldedTo(FoldedIn(g, "samples"), class, cell)
  BY <1>3, SameFolds
<1>5. ASSUME NEW class \in Caused PROVE \A id : id[1] = class => (id \in Ids(old) <=> id \in Ids(new))
  <2>1. PICK o : o = "samples"
    OBVIOUS
  <2>2. \A cell : FoldedTo(FoldedIn(f, o), class, cell) = FoldedTo(FoldedIn(g, o), class, cell)
    BY <1>4, <2>1
  <2>3. (class \in Caused /\ o = "samples") \/ (class \in Unseen /\ o = "facets")
    BY <2>1
  <2> QED
    BY <1>1, <2>2, <2>3, FoldsName
<1>6. Ids(a) = Ids(old) /\ Ids(b) = Ids(new)
  BY <1>1, WrittenList
<1> QED
  BY <1>5, <1>6, SameNamesKeep

(* Of what was not looked at either time nothing is said.                    *)
LEMMA UnseenKeep ==
  ASSUME NEW f, NEW g, NEW old, NEW new, TwoRuns(f, old, g, new),
         Covers(f.samples) = Covers(g.samples), f.facets = g.facets,
         NEW a, a = Each(old, finding_json), NEW b, b = Each(new, finding_json), NEW moved,
         moved = {id \in Both(a, b) : Deepened(Entry(a, id), Entry(b, id))}
  PROVE  SaidOf(Changes(a, b, moved), Unseen) = {}
<1>1. FoundOf(f, old) /\ FoundOf(g, new) /\ Named(old) /\ Named(new)
  BY DEF TwoRuns
<1>2. IsField(f) /\ IsField(g)
  BY <1>1 DEF FoundOf, FineSamples
<1>3. SameLie(KeptIn(f, "facets"), KeptIn(g, "facets"))
  BY <1>2, CoversSame
<1>4. \A class, cell :
        FoldedTo(FoldedIn(f, "facets"), class, cell) = FoldedTo(FoldedIn(g, "facets"), class, cell)
  BY <1>3, SameFolds
<1>5. ASSUME NEW class \in Unseen PROVE \A id : id[1] = class => (id \in Ids(old) <=> id \in Ids(new))
  <2>1. PICK o : o = "facets"
    OBVIOUS
  <2>2. \A cell : FoldedTo(FoldedIn(f, o), class, cell) = FoldedTo(FoldedIn(g, o), class, cell)
    BY <1>4, <2>1
  <2>3. (class \in Caused /\ o = "samples") \/ (class \in Unseen /\ o = "facets")
    BY <2>1
  <2> QED
    BY <1>1, <2>2, <2>3, FoldsName
<1>6. /\ Ids(a) = Ids(old) /\ DOMAIN a = DOMAIN old
      /\ \A i \in DOMAIN old : Entry(a, old[i].id) = a[i] /\ a[i].id = old[i].id
  BY <1>1, WrittenList
<1>7. /\ Ids(b) = Ids(new) /\ DOMAIN b = DOMAIN new
      /\ \A i \in DOMAIN new : Entry(b, new[i].id) = b[i] /\ b[i].id = new[i].id
  BY <1>1, WrittenList
<1>8. Keeps(Changes(a, b, moved), Unseen)
  BY <1>5, <1>6, <1>7, SameNamesKeep
<1>9. ASSUME NEW id \in moved, id[1] \in Unseen PROVE FALSE
  <2>1. id \in Ids(old) /\ id \in Ids(new) /\ Deepened(Entry(a, id), Entry(b, id))
    BY <1>6, <1>7, <1>9 DEF Both
  <2>2. PICK i \in DOMAIN old : id = old[i].id
    BY <2>1 DEF Ids
  <2>3. PICK j \in DOMAIN new : id = new[j].id
    BY <2>1 DEF Ids
  <2>4. PICK x, y : x = a[i] /\ y = b[j]
    OBVIOUS
  <2>5. x = finding_json(old[i]) /\ y = finding_json(new[j])
    BY <2>4 DEF Each
  <2>6. Blank(x) /\ Blank(y)
    BY <1>1, <1>9, <2>2, <2>3, <2>5, UnseenAreBlank
  <2>7. Deepened(x, y)
    BY <1>6, <1>7, <2>1, <2>2, <2>3, <2>4
  <2>8. x.total * y.count = y.total * x.count
    BY <2>6 DEF Blank
  <2> QED
    BY <2>6, <2>7, <2>8 DEF Blank, Deepened
<1>10. SUFFICES ASSUME NEW c \in Changes(a, b, moved), c[2][1] \in Unseen PROVE FALSE
  BY DEF SaidOf
<1>11. c[1] = "changed"
  BY <1>8, <1>10 DEF Keeps, SaidOf
<1>12. PICK id \in moved : c = <<"changed", id>>
  BY <1>10, <1>11 DEF Changes
<1>13. c[2] = id
  BY <1>12
<1> QED
  BY <1>9, <1>10, <1>12, <1>13

\* Between two runs findings keep their names: one that has not moved and is alone
\* in its cell; the gouges and the excess where the samples out of tolerance lie as
\* they lay before, whatever their depths have become; what was not looked at where
\* the same was covered. And two runs of one request over files nobody touched are
\* said to agree.
THEOREM NamesKeepHolds == VerifySpec => []NamesKeep
<1>1. RInv /\ NameStays => NamesKeep
  <2> SUFFICES ASSUME RInv, NameStays, told # None, told.exit < 2
               PROVE  LET f(i) == results[i].field
                          said(classes) == {c \in told.found.changes : c[2][1] \in classes}
                      IN  /\ Lies(f(1).samples) = Lies(f(2).samples) =>
                               \A c \in said({"gouge", "excess-stock"}) : c[1] = "changed"
                          /\ Covers(f(1).samples) = Covers(f(2).samples) /\ f(1).facets = f(2).facets =>
                               said({"undercut", "unreachable"}) = {}
                          /\ requests[1] = requests[2] /\ touched = {} => told.exit = 0
    BY DEF NamesKeep
  <2>1. QInv /\ FieldInv /\ ToldFound /\ told.exit # 2
    BY DEF RInv
  <2>2. PICK r1, r2 : r1 = load_report(files[1]) /\ r2 = load_report(files[2])
    OBVIOUS
  <2>3. PICK old, new : old = Told(1) /\ new = Told(2)
    OBVIOUS
  <2>4. PICK f, g : f = results[1].field /\ g = results[2].field
    OBVIOUS
  <2>5. PICK a, b : a = r1.findings /\ b = r2.findings
    OBVIOUS
  <2>6. a = Each(old, finding_json) /\ Named(old) /\ b = Each(new, finding_json) /\ Named(new)
    BY <2>1, <2>2, <2>3, <2>5, ReadOf
  <2>7. FoundOf(f, old) /\ FoundOf(g, new)
    <3>1. {1, 2} \subseteq Reports
      BY <2>1, ComparedReports
    <3> QED
      BY <2>1, <2>3, <2>4, <3>1 DEF FieldInv, Reports, Told
  <2>8. TwoRuns(f, old, g, new)
    BY <2>6, <2>7 DEF TwoRuns
  <2>9. PICK moved : moved = {id \in Both(a, b) : Deepened(Entry(a, id), Entry(b, id))}
    OBVIOUS
  <2>10. told.found.changes = Changes(a, b, moved)
    <3>1. told.found = diff(r1, r2)
      BY <2>1, <2>2 DEF ToldFound, Compared
    <3> QED
      BY <2>5, <2>9, <3>1 DEF diff
  <2>11. ASSUME Lies(f.samples) = Lies(g.samples) PROVE Keeps(told.found.changes, Caused)
    BY <2>6, <2>8, <2>10, <2>11, CausedKeep
  <2>12. ASSUME Covers(f.samples) = Covers(g.samples), f.facets = g.facets
         PROVE  SaidOf(told.found.changes, Unseen) = {}
    BY <2>6, <2>8, <2>9, <2>10, <2>12, UnseenKeep
  <2>13. ASSUME requests[1] = requests[2], touched = {} PROVE told.exit = 0
    BY <2>13, RunsAgree
  <2> QED
    BY <2>4, <2>11, <2>12, <2>13 DEF Keeps, SaidOf, Caused, Unseen
<1>2. QED
  BY RInvHolds, NameStaysHolds, <1>1, PTL
===============================================================================
