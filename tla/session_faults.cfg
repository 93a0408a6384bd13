SPECIFICATION FairSpec
CONSTANTS
  tf2 = tf2
  other = other
  op1 = op1
  op2 = op2
  res1 = res1
  res2 = res2
  NoApp = NoApp
  Main = Main
  BackpackApp = tf2
  Apps <- MCApps
  Registered <- MCRegistered
  Operators <- TwoOperators
  Resumers <- OneResumer
  Faults <- AllFaults
  World <- AllWorld
  MaxRPCs = 2
  MaxWorld = 1
INVARIANT AckExclusive
PROPERTY ShutdownCloses
CHECK_DEADLOCK FALSE
