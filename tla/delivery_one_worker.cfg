CONSTANTS
  d1 = d1
  d2 = d2
  Deliveries = {d1, d2}
  OfPresentation = {d1}
  Workers = {w1}
  MaxAttempts = 2
  ClaimLimit = 1
  BaseDelay = 1
  MaxDelay = 2
  Healthy = {d2}
  Answers = {"accepted", "refused", "unanswered"}
  EndpointSigned = {TRUE, FALSE}
  MaxTime = 3
  MaxFaults = 1
CHECK_DEADLOCK FALSE
SPECIFICATION FairSpec
INVARIANTS
  DeliveredWasAccepted
  AttemptsAreBounded
  StatusFollowsQueue
PROPERTIES
  QueueDrains
  HealthyReceiverIsTold
