CONSTANTS
  p1 = p1
  p2 = p2
  Presentations = {p1}
  Requests = {r1}
  Jobs = {j1}
  Lifetime <- MCLifetime
  Retention = 1
  EngineOutcomes = {"VERIFIED", "REJECTED", "PROTOCOL_ERROR"}
  BatchLimit = 1
  EndpointLookups = {TRUE, FALSE}
  MaxTime = 1
  MaxFaults = 1
CHECK_DEADLOCK FALSE
SPECIFICATION FairSpec
INVARIANTS
  VerifiedHasResult
PROPERTIES
  KeepsThePromise
  EventuallySettles
