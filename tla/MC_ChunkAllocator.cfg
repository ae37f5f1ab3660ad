\* Three chunks over two arenas and two streams: reuse across streams, an
\* arena whose lists are empty while the other's are not, values larger and
\* smaller than the slot they reuse, sizes that are not aligned.
CONSTANTS
  Tier = {"HostArena", "GpuArena"}
  Stream = {"s0", "s1"}
  Size = {1, 2, 3}
  Use = {0, 1, 2}
  Align = 2
  MaxChunks = 3
  MaxLive = 2
SPECIFICATION MCSpec
INVARIANTS
  TypeOK
  FreeListsTrue
  SlotsDisjoint
PROPERTIES
  ChunksOnlyGrow
