SPECIFICATION Spec
CONSTANTS
  tf2 = tf2
  other = other
  op1 = op1
  op2 = op2
  res1 = res1
  res2 = res2
  NoApp = NoApp
  Main = Main
  BackpackApp = tf2
  Apps <- MCApps
  Registered <- MCRegistered
  Operators <- OneOperator
  Resumers <- OneResumer
  Faults <- NoFaults
  World <- NoWorld
  MaxRPCs = 3
  MaxWorld = 0
INVARIANT ExitTerminates
CHECK_DEADLOCK FALSE
