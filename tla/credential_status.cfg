CONSTANTS
  Credentials = {c1, c2}
  Operators = {o1, o2}
  SuspensionAllowed = {c1}
  EngineAnswers = {"done", "refused", "unanswered", "late"}
  MaxFaults = 1
SPECIFICATION Spec
SYMMETRY OperatorSymmetry
INVARIANTS
  RegisterGoesFirst
  SuspensionNeedsPolicy
  DivergenceIsReported
PROPERTIES
  RevocationIsFinal
