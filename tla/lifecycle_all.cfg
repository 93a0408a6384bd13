SPECIFICATION FairSpec
CONSTANTS
  c1 = c1
  c2 = c2
  Clients <- TwoClients
  Configurations <- AllConfigurations
  Faults <- AllFaults
  MaxAsks = 2
  MaxRequests = 4
INVARIANT TypeOK
INVARIANT AnswerOwnAttempt
INVARIANT ServiceNeedsUnlock
PROPERTY UnlockAnsweredInTime
PROPERTY ShutdownCompletes
PROPERTY FailureExits
PROPERTY CodeCanBeSubmitted
CHECK_DEADLOCK FALSE
