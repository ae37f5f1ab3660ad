\* A streaming session that goes on past the end of its ring.
CONSTANTS
  t1 = t1
  t2 = t2
  eos = eos
  p0 = p0
  p1 = p1
  p2 = p2
  NoProc = NoProc
  Proc <- MCProc
  WorldSize = 3
  Capacity = 1
  MaxKills = 1
  Claims <- MCClaims
  Programs <- MCPrograms
  Token <- MCToken
  Eos = eos
  Pad = pad
  Prompts <- MCLongPrompts
  MaxNew <- MCLongNew
  Stops <- MCNoStops
  Configs <- MCRing
  MaxCalls = 1
  Session <- MCSession
  Plan <- MCPlan
  NoCache = "none"
  MaxRuns = 2
  MCParts = {"generate"}
SPECIFICATION MCSpec
CHECK_DEADLOCK FALSE
INVARIANTS
  WindowIsRecent
