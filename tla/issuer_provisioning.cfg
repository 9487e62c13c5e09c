CONSTANTS
  a1 = a1
  t1 = t1
  g1 = g1
  None = None
  Evaluators = {"always"}
  Connectors = {"register"}
  Providers = {a1, a2}
  Types = {t1}
  Policies = {p1}
  Gates = {g1}
  EngineTenants = {e1}
  Clients = {c1, c2}
  TypeRows <- MCTypeRows
  Bodies <- MCBodies
  Examples <- MCExamples
  Sources <- MCSources
  ProvisionInputs <- MCProvisionInputs
  PidDuringIssuance = TRUE
  MaxKeys = 3
  MaxVersions = 2
  MaxGateVersions = 1
  MaxRequests = 5
  MaxFaults = 1
CHECK_DEADLOCK FALSE
SYMMETRY Symmetry
SPECIFICATION Spec
INVARIANTS
  ProviderIsWhole
  ListedResolves
  ProvisionedAloneIsCurrent
  IssuanceRulesMeetTheirReference
PROPERTIES
  IssuanceVersionsAreSettled
