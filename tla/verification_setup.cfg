CONSTANTS
  Members <- MCMembers
  Indexes <- MCIndexes
  Wildcard = "*"
  CredentialTypes = {"pid", "diploma"}
  Services = {s1}
  Values <- MCValues
  Empty = {"", "null"}
  DateOf <- MCDateOf
  MinimumLifetime = 60
  QrMaxLifetime = 120
  IssuerDomains = {"PID_PROVIDER"}
  CertificateLifetimes = {100, 1000}
  Parties = {rp1}
  Uses = {u1}
  None = None
  EngineTenants = {e1, e2}
  Clients = {c1, c2}
  Registrations <- MCRegistrations
  MaxKeys = 1
  MaxFaults = 1
  Policies = {p1}
  Bodies <- MCBodies
  Examples <- MCExamples
  LoadedLists = {"pid-list"}
  Holders <- MCHolders
  OtherHolders <- MCOtherHolders
  Today <- MCToday
  MaxVersions = 2
CHECK_DEADLOCK FALSE
SYMMETRY Symmetry
SPECIFICATION Spec
INVARIANTS
  AccessKeyIsUsable
  RequestIsCurrentAndCovered
  ResultIsOfTheAnswer
  RulesMeetTheirReference
PROPERTIES
  VersionsAreSettled
