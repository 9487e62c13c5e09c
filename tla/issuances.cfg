CONSTANTS
  Issuances = {i1, i2}
  WalletRequests = {r1}
  Handlers = {h1, h2}
  Callbacks = {TRUE}
  EngineAnswers = {"done", "unanswered"}
  Failures = {"DECLINED_BY_USER", "PROTOCOL_ERROR"}
  Lifetime = 1
  MaxTime = 1
  MaxFaults = 1
CHECK_DEADLOCK FALSE
SYMMETRY HandlerSymmetry
SPECIFICATION Spec
INVARIANTS
  CollectedIsFollowed
  OutcomeIsTheEngines
  ToldOnce
  RegisterFollowsIssuance
  WalkIsLogged
