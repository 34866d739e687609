------------------------------ MODULE SpanStore ------------------------------
(***************************************************************************)
(* What the dexel arena promises its callers: a map from rays to the span   *)
(* list last stored there. Nothing about layout, spilling or compaction is  *)
(* visible through `set` and `get`, so the whole contract is this map.      *)
(***************************************************************************)
EXTENDS Sequences

CONSTANTS Ray, SpanList

VARIABLE store

Init == store = [r \in Ray |-> <<>>]

Set(r, s) == store' = [store EXCEPT ![r] = s]

Next == \E r \in Ray, s \in SpanList : Set(r, s)

Spec == Init /\ [][Next]_store
==============================================================================
