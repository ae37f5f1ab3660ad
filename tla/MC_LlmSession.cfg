\* Calls on a session, sessions sharing buffers, and collectives.
CONSTANTS
  t1 = t1
  t2 = t2
  eos = eos
  p0 = p0
  p1 = p1
  p2 = p2
  NoProc = NoProc
  Proc <- MCProc
  WorldSize = 3
  Capacity = 1
  MaxKills = 1
  Claims <- MCClaims
  Programs <- MCPrograms
  Token <- MCToken
  Eos = eos
  Pad = pad
  Prompts <- MCPrompts
  MaxNew <- MCMaxNew
  Stops <- MCStops
  Configs <- MCConfigs
  MaxCalls = 3
  Session <- MCSession
  Plan <- MCPlan
  NoCache = "none"
  MaxRuns = 2
  MCParts = {"generate", "buffers", "collective"}
SPECIFICATION MCSpec
CHECK_DEADLOCK FALSE
INVARIANTS
  AttendsHistory
  CacheKept
  BuffersGood
  CollectivesWhole
PROPERTIES
  CallsEnd
  MeetsTheOthers
  NobodyWaitsForever
