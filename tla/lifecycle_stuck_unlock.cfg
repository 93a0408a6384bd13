SPECIFICATION FairSpec
CONSTANTS
  c1 = c1
  c2 = c2
  Clients <- TwoClients
  Configurations <- InMaFile
  Faults <- NoFaults
  MaxAsks = 0
  MaxRequests = 2
PROPERTY UnlockAnswered
CHECK_DEADLOCK FALSE
