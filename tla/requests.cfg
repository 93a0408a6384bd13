SPECIFICATION FairSpec
CONSTANTS
  g1 = g1
  g2 = g2
  Clients <- TwoClients
  Commands <- AllCommands
  Menus <- FourMenus
  Scopes <- Settings
  MaxStarts = 3
  Nobody = Nobody
  MaxRetries = 3
  MaxLost = 1
INVARIANT TypeOK
INVARIANT AddressOwned
INVARIANT AnswersKept
INVARIANT DoneAsTold
PROPERTY StopHonoured
CHECK_DEADLOCK FALSE
