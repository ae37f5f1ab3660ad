\* Two streams: plans that stream weights and their runs, and runs on two
\* compute streams.
CONSTANTS
  Tier = {"HostArena", "GpuArena"}
  Stream = {0, 1}
  Align = 2
  NumStreams = 2
  RingDepth = 3
  MCParts = {"plans", "runs", "streams"}
  Graphs <- MCGraphs
  Policies <- MCPolicies
  Vram <- MCVram
SPECIFICATION MCSpec
INVARIANTS
  StreamedReadsIntact
  StagingKept
  StepsOrdered
PROPERTIES
  RingDiscipline
  EveryRunEnds
