SPECIFICATION Spec
CONSTANTS
  key = key
  hat = hat
  cheap = cheap
  notANumber = notANumber
  h1 = h1
  h2 = h2
  NoPrice = NoPrice
  NoFile = NoFile
  Torn = Torn
  SKUs <- TwoSKUs
  Prices <- OddPrices
  Unmarshalable <- Odd
  Updaters <- TwoUpdaters
  Faults <- SaveFaults
  MaxUpdates = 3
  MaxCrashes = 1
INVARIANT TypeOK
INVARIANT PromisedKept
INVARIANT MemoryMatchesFile
PROPERTY StoreSpec
CHECK_DEADLOCK FALSE
