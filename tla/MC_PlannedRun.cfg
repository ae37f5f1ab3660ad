\* Plans for one CUDA stream at most, of CPU, CUDA and hybrid builds.
CONSTANTS
  Tier = {"HostArena", "GpuArena"}
  Stream = {0}
  Align = 2
  NumStreams = 1
  MCFamily = "regular"
  Graphs <- MCGraphs
SPECIFICATION XSpec
INVARIANTS
  RunningReadsIntact
PROPERTIES
  ImplementsDataflow
