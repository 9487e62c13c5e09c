CONSTANTS
  Issuances = {i1}
  WalletRequests = {r1}
  Handlers = {h1, h2}
  Callbacks = {TRUE, FALSE}
  EngineAnswers = {"done", "refused", "unanswered"}
  Failures = {"DECLINED_BY_USER", "TRUST_ERROR", "PROTOCOL_ERROR", "EXPIRED"}
  Lifetime = 1
  MaxTime = 1
  MaxFaults = 2
CHECK_DEADLOCK FALSE
SPECIFICATION FairSpec
PROPERTIES
  PolledSettles
