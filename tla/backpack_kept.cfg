SPECIFICATION FairSpec
CONSTANTS
  w1 = w1
  w2 = w2
  w3 = w3
  tool = tool
  op = op
  load = load
  l1 = l1
  l2 = l2
  NoListener = NoListener
  Items <- MCItems
  Weapons <- MCWeapons
  Classes <- MCClasses
  UsedBy <- MCUsedBy
  Untradable = {w3}
  Initially <- MCWeapons
  Targets = {w1, tool}
  Operators = {op}
  Loads = {load}
  Listeners = {l1, l2}
  Capacity = 1
  MaxRequests = 1
INVARIANTS
  TypeOK
  NoItemMissed
  DuplicatesSmelted
PROPERTY MaintenanceEnds
CHECK_DEADLOCK FALSE
