-------------------------------- MODULE Arena --------------------------------
(***************************************************************************)
(* crates/chipbreaker-core/src/dexel/arena.rs: span storage for one bundle  *)
(* of rays. A ray with at most InlineCapacity spans keeps them in its       *)
(* inline slots; a longer list is spilled to one shared heap that only      *)
(* grows, leaving superseded regions behind as garbage, until `set` decides *)
(* the garbage has reached half of the heap and compacts.                   *)
(*                                                                          *)
(* `set` is the only mutation and borrows the arena exclusively, so no read *)
(* or write falls between its steps; it is still modelled as the write      *)
(* followed by the iterations of the compaction loop, because the loop      *)
(* rewrites spill_at one ray at a time while the old heap is still the one  *)
(* being read. Offsets are the code's: zero-based, so cell o is heap[o+1].  *)
(* spill_at is allocated lazily in the code; an unallocated index reads as  *)
(* NO_SPILL everywhere, which is how it is represented here.                *)
(***************************************************************************)
EXTENDS Naturals, Sequences, FiniteSets

CONSTANTS
  Rays,            \* how many rays the bundle has
  SpanValue,       \* the spans a ray can hold
  SpanList,        \* the lists that are stored
  Blank,           \* Span::new(0.0, 0.0), what fresh inline slots contain
  InlineCapacity,  \* 2 in the code
  CompactAt,       \* 2 in the code
  MaxSpans,        \* longest list stored, u16::MAX in the code
  MaxOffset        \* u32::MAX in the code

ASSUME ArenaAssumption ==
  /\ Rays \in Nat
  /\ Blank \in SpanValue
  /\ SpanList \subseteq Seq(SpanValue)
  /\ \A s \in SpanList : Len(s) <= MaxSpans
  /\ InlineCapacity \in Nat
  /\ CompactAt \in Nat \ {0}
  /\ MaxSpans \in Nat
  /\ MaxOffset \in Nat

VARIABLES
  inline,   \* the inline slots of every ray
  len,      \* how many spans every ray carries
  spill_at, \* where a spilled ray's spans begin in the heap, or NO_SPILL
  heap,     \* every spilled ray's spans, live and superseded
  garbage,  \* heap cells no ray points at, as `set` counts them
  fresh,    \* the heap the running compaction is building
  cursor    \* the ray the compaction visits next, or Idle

arenaVars == <<inline, len, spill_at, heap, garbage, fresh, cursor>>

Ray == 0 .. Rays - 1
NO_SPILL == MaxOffset
Idle == Rays + 1
-----------------------------------------------------------------------------
ArenaInit ==
  /\ inline = [r \in Ray |-> [i \in 1 .. InlineCapacity |-> Blank]]
  /\ len = [r \in Ray |-> 0]
  /\ spill_at = [r \in Ray |-> NO_SPILL]
  /\ heap = <<>>
  /\ garbage = 0
  /\ fresh = <<>>
  /\ cursor = Idle

\* The n cells of h from offset `at` on.
Region(h, at, n) == [i \in 1 .. n |-> h[at + i]]

\* The heap with s written over the cells from offset `at` on.
Overwrite(h, at, s) ==
  [o \in DOMAIN h |-> IF o \in at + 1 .. at + Len(s) THEN s[o - at] ELSE h[o]]

\* Inline slots with the first Len(s) of them overwritten.
WriteInline(slots, s) ==
  [i \in 1 .. InlineCapacity |-> IF i <= Len(s) THEN s[i] ELSE slots[i]]

get(r) ==
  IF len[r] > InlineCapacity
  THEN IF spill_at[r] = NO_SPILL THEN <<>> ELSE Region(heap, spill_at[r], len[r])
  ELSE [i \in 1 .. len[r] |-> inline[r][i]]

\* Whether `set` ends in a compaction: some garbage, and at least half of it.
MustCompact(h, g) ==
  /\ g > 0
  /\ LET live == IF Len(h) > g THEN Len(h) - g ELSE 1
     IN  Len(h) >= CompactAt * live

FinishSet ==
  IF MustCompact(heap', garbage')
  THEN cursor' = 0 /\ fresh' = <<>>
  ELSE UNCHANGED <<cursor, fresh>>

\* A list that no longer needs the heap: whatever the ray had there is garbage.
SetInline(r, s) ==
  /\ cursor = Idle
  /\ Len(s) <= InlineCapacity
  /\ garbage' = IF spill_at[r] # NO_SPILL THEN garbage + len[r] ELSE garbage
  /\ spill_at' = [spill_at EXCEPT ![r] = NO_SPILL]
  /\ inline' = [inline EXCEPT ![r] = WriteInline(@, s)]
  /\ len' = [len EXCEPT ![r] = Len(s)]
  /\ UNCHANGED heap
  /\ FinishSet

\* Slip: a shorter list rewritten in place forgets the cells it gives up.
SetInPlaceUncounted(r, s) ==
  /\ cursor = Idle
  /\ Len(s) > InlineCapacity
  /\ spill_at[r] # NO_SPILL
  /\ len[r] >= Len(s)
  /\ heap' = Overwrite(heap, spill_at[r], s)
  /\ len' = [len EXCEPT ![r] = Len(s)]
  /\ UNCHANGED <<inline, spill_at, garbage>>
  /\ FinishSet

\* Slip: a longer list is written in place too, over its neighbour's cells.
SetInPlaceGrowing(r, s) ==
  /\ cursor = Idle
  /\ Len(s) > InlineCapacity
  /\ spill_at[r] # NO_SPILL
  /\ heap' = Overwrite(heap, spill_at[r], s)
  /\ len' = [len EXCEPT ![r] = Len(s)]
  /\ UNCHANGED <<inline, spill_at, garbage>>
  /\ FinishSet

\* A spilled ray whose list did not grow is rewritten where it lies.
SetInPlace(r, s) ==
  /\ cursor = Idle
  /\ Len(s) > InlineCapacity
  /\ spill_at[r] # NO_SPILL
  /\ len[r] >= Len(s)
  /\ heap' = Overwrite(heap, spill_at[r], s)
  /\ garbage' = garbage + (len[r] - Len(s))
  /\ len' = [len EXCEPT ![r] = Len(s)]
  /\ UNCHANGED <<inline, spill_at>>
  /\ FinishSet

\* Any other long list goes to the end of the heap, whose length must still be
\* representable as an offset: beyond that the code panics.
SetAppend(r, s) ==
  /\ cursor = Idle
  /\ Len(s) > InlineCapacity
  /\ spill_at[r] = NO_SPILL \/ len[r] < Len(s)
  /\ Len(heap) <= MaxOffset
  /\ heap' = heap \o s
  /\ spill_at' = [spill_at EXCEPT ![r] = Len(heap)]
  /\ garbage' = IF spill_at[r] # NO_SPILL THEN garbage + len[r] ELSE garbage
  /\ len' = [len EXCEPT ![r] = Len(s)]
  /\ UNCHANGED inline
  /\ FinishSet

Set(r, s) == SetInline(r, s) \/ SetInPlace(r, s) \/ SetAppend(r, s)

\* One iteration of compact's loop: a spilled ray's spans move to the new heap.
CompactRay ==
  /\ cursor < Rays
  /\ IF spill_at[cursor] = NO_SPILL
     THEN UNCHANGED <<fresh, spill_at>>
     ELSE /\ fresh' = fresh \o Region(heap, spill_at[cursor], len[cursor])
          /\ spill_at' = [spill_at EXCEPT ![cursor] = Len(fresh)]
  /\ cursor' = cursor + 1
  /\ UNCHANGED <<inline, len, heap, garbage>>

\* Slip: the offsets are the new heap's, but the old one is kept.
CompactKeepingHeap ==
  /\ cursor = Rays
  /\ garbage' = 0
  /\ fresh' = <<>>
  /\ cursor' = Idle
  /\ UNCHANGED <<inline, len, spill_at, heap>>

CompactDone ==
  /\ cursor = Rays
  /\ heap' = fresh
  /\ garbage' = 0
  /\ fresh' = <<>>
  /\ cursor' = Idle
  /\ UNCHANGED <<inline, len, spill_at>>

ArenaNext ==
  \/ \E r \in Ray, s \in SpanList : Set(r, s)
  \/ CompactRay
  \/ CompactDone

ArenaSpec == ArenaInit /\ [][ArenaNext]_arenaVars
-----------------------------------------------------------------------------
\* The list a read of ray r yields once the running compaction, if any, ends:
\* rays the loop has visited are in the new heap, the others still in the old.
Contents ==
  [r \in Ray |->
    IF cursor # Idle /\ r < cursor /\ spill_at[r] # NO_SPILL
    THEN Region(fresh, spill_at[r], len[r])
    ELSE get(r)]

Spilled == {r \in Ray : spill_at[r] # NO_SPILL}

\* The heap cells a spilled ray points at.
Cells(r) == spill_at[r] .. spill_at[r] + len[r] - 1

\* Rays whose regions lie in the heap `set` reads: all of them between sets.
Unmoved == {r \in Spilled : cursor = Idle \/ cursor <= r}

DeadCells == {o \in 0 .. Len(heap) - 1 : \A r \in Unmoved : o \notin Cells(r)}

(* Every variable has its type, and the garbage counter never exceeds the   *)
(* heap: `heap.len() - garbage` is computed on usize and would wrap.        *)
ArenaTypeOK ==
  /\ inline \in [Ray -> [1 .. InlineCapacity -> SpanValue]]
  /\ len \in [Ray -> 0 .. MaxSpans]
  /\ spill_at \in [Ray -> 0 .. MaxOffset]
  /\ heap \in Seq(SpanValue)
  /\ fresh \in Seq(SpanValue)
  /\ garbage \in 0 .. Len(heap)
  /\ cursor \in 0 .. Idle

(* No two spilled rays share a heap cell and every region lies within the   *)
(* heap, so an in-place rewrite of one ray cannot change what another ray   *)
(* reads and a read never runs past the end of the heap.                    *)
RegionsDisjoint ==
  \A r \in Unmoved :
    /\ spill_at[r] + len[r] <= Len(heap)
    /\ \A q \in Unmoved : q # r => Cells(q) \cap Cells(r) = {}

(* `get` chooses inline slots or heap by the span count alone, `set` by     *)
(* spill_at: the two must agree about every ray, or a spilled list reads as *)
(* empty.                                                                   *)
SpilledIffLong == \A r \in Ray : len[r] > InlineCapacity <=> r \in Spilled

(* The counter `set` compares with the heap's length counts exactly the     *)
(* cells no ray points at, over any history of growth, shrinking, rewriting *)
(* and compaction.                                                          *)
GarbageExact == cursor = Idle => garbage = Cardinality(DeadCells)

(* The arena is a map from rays to span lists: each `set` replaces one list,*)
(* and compaction, spilling and moving back inline change none.             *)
Store == INSTANCE SpanStore WITH store <- Contents
StoreSpec == Store!Spec
=============================================================================
