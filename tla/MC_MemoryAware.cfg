\* Two streams and two devices; sizes 1 and 3.
CONSTANTS
  Tier = {"HostArena", "GpuArena"}
  Stream = {0, 1}
  Align = 2
  NumStreams = 2
  Graphs <- PlanGraphs
SPECIFICATION PlanSpec
INVARIANTS
  TypeOK
  LiveUsesAccounted
  OperandsWellPlaced
  PlanIsExecutable
PROPERTIES
  AllocatorDiscipline
