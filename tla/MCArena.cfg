SPECIFICATION ArenaSpec
CONSTANTS
  a = a
  b = b
  Rays = 3
  SpanValue <- Spans
  SpanList <- Lists
  Blank = a
  InlineCapacity = 1
  CompactAt = 2
  MaxSpans = 3
  MaxOffset = 100
INVARIANTS RegionsDisjoint GarbageExact
PROPERTIES StoreSpec
