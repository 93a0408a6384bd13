SPECIFICATION FairSpec
CONSTANTS
  o1 = o1
  op1 = op1
  Dispatcher = Dispatcher
  Offers <- OneOffer
  Accounts <- FourAccounts
  Base = 100
  Trusted <- TrustedIDs
  Excluded <- ExcludedIDs
  Operators <- OneOperator
  MaxRetries = 3
  MaxEvents = 1
  MaxRequests = 1
  MaxOutages = 1
INVARIANT TypeOK
INVARIANT AnswersTrue
PROPERTY PolicyKept
PROPERTY ListedHandled
CHECK_DEADLOCK FALSE
