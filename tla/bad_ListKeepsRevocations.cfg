CONSTANTS
  Credentials = {c1}
  Operators = {o1, o2}
  SuspensionAllowed = {c1}
  EngineAnswers = {"done"}
  MaxFaults = 0
SPECIFICATION Spec
PROPERTIES
  ListKeepsRevocations
