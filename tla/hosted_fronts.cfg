CONSTANTS
  Visitors <- MCVisitors
  Days <- MCDays
  SessionsRead = 2
  MaxRequests = 2
  MaxPresentations = 3
  Takes <- MCTakes
  Asked <- MCAsked
  Tokens <- MCTokens
  StartVisits <- MCStartVisits
  CaseCalls <- MCCaseCalls
  Sent <- MCSent
  Answers <- MCAnswers
  Rows <- MCRows
SPECIFICATION Spec
CHECK_DEADLOCK FALSE
INVARIANTS
  FormIssuesWhatWasSubmitted
  ResultsReachTheirVisitor
  FrontRulesMeetTheirReference
PROPERTIES
  WaitingEnds
