\* Chat turns that race or follow each other, and requests for models.
CONSTANTS
  s1 = s1
  s2 = s2
  p = p
  q = q
  m1 = m1
  m2 = m2
  Request <- MCRequest
  Scenarios <- MCScenarios
  Id = {s1, s2}
  Plain = {p, q}
  Eos = eos
  EndOfTurn = end
  EndOfAsk = inst
  Stop <- MCStop
  Capacity = 1
  NoOne = NoOne
  NoSession = NoSession
  Client <- MCRequest
  Wants <- MCWants
  Model <- MCModel
  MaxLoadFailures = 1
  MaxPanics = 1
  MCParts = {"chat", "models"}
SPECIFICATION MCSpec
CHECK_DEADLOCK FALSE
INVARIANTS
  TurnsTrue
  BackendsExclusive
PROPERTIES
  EveryoneAnswered
