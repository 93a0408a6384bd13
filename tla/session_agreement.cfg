SPECIFICATION Spec
CONSTANTS
  tf2 = tf2
  other = other
  op1 = op1
  op2 = op2
  res1 = res1
  res2 = res2
  NoApp = NoApp
  Main = Main
  BackpackApp = tf2
  Apps <- MCApps
  Registered <- MCRegistered
  Operators <- TwoOperators
  Resumers <- TwoResumers
  Faults <- NoFaults
  World <- NoShutdown
  MaxRPCs = 3
  MaxWorld = 2
SYMMETRY Interchangeable
INVARIANTS
  TypeOK
  PresenceAgrees
  AckCoversPlay
  ListenerClosedAlone
  PlayHonoured
CHECK_DEADLOCK FALSE
