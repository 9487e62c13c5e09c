CONSTANTS
  p1 = p1
  p2 = p2
  Presentations = {p1}
  Requests = {r1, r2}
  Jobs = {j1}
  Lifetime <- MCLifetime
  Retention = 1
  EngineOutcomes = {"VERIFIED", "DECLINED_BY_USER"}
  BatchLimit = 1
  EndpointLookups = {TRUE}
  MaxTime = 1
  MaxFaults = 0
CHECK_DEADLOCK FALSE
SYMMETRY RequestSymmetry
SPECIFICATION Spec
INVARIANTS
  OneStory
  AtMostOneCallback
  HistoryIsLegal
  SettlementIsAnnounced
PROPERTIES
  TerminalIsFinal
