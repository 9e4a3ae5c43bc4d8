CONSTANTS
  i1 = i1
  i2 = i2
  i3 = i3
  k1 = k1
  k2 = k2
  r1 = r1
  r2 = r2
  NoChunk = NoChunk
  Items = {i1, i2, i3}
  Chunks = {k1, k2}
  ItemsOf <- SmallItemsOf
  Runners = {r1, r2}
  MaxAttempts = 1
  MaxCrashes = 1
SPECIFICATION FairSpec
INVARIANTS
  CountersExact
  AnnouncedOnce
  RunsAccounted
PROPERTIES
  JobEnds
CHECK_DEADLOCK FALSE
