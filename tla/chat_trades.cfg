SPECIFICATION Spec
CONSTANTS
  BotAssets <- BotEverything
  PartnerAssets <- PartnerEverything
  Kind <- KindOf
  Words <- AllWords
  Variants <- WordsOf
  Quantities <- OneOrTwo
  Priced <- PricedSKUs
  Entries <- FiveEntries
  NaN = NaN
  Infinity = Infinity
  Starts <- TwoStarts
  MaxMessages = 2
  MaxChanges = 1
INVARIANT TypeOK
INVARIANT PaidAsPriced
INVARIANT NoLockLeft
INVARIANT OfferedStaysLocked
CHECK_DEADLOCK FALSE
