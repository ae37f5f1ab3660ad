\* A chunk freed on the stream of one reader and still read on another.
CONSTANTS
  Tier = {"HostArena", "GpuArena"}
  Stream = {0, 1}
  Align = 2
  NumStreams = 2
  MCFamily = "crossings"
  Graphs <- MCGraphs
SPECIFICATION XSpec
INVARIANTS
  RunningReadsIntact
