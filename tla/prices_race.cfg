SPECIFICATION Spec
CONSTANTS
  key = key
  hat = hat
  cheap = cheap
  notANumber = notANumber
  h1 = h1
  h2 = h2
  NoPrice = NoPrice
  NoFile = NoFile
  Torn = Torn
  SKUs <- TwoSKUs
  Prices <- OnePrice
  Unmarshalable <- None
  Updaters <- OneUpdater
  Faults <- None
  MaxUpdates = 1
  MaxCrashes = 0
INVARIANT WalkExclusive
CHECK_DEADLOCK FALSE
