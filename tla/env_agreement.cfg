SPECIFICATION Spec
CONSTANTS
  u1 = u1
  u2 = u2
  p1 = p1
  p2 = p2
  Missing = Missing
  Users <- TwoUsers
  Passphrases <- TwoPassphrases
  Faults <- AllFaults
  MaxCommands = 3
  MaxRestarts = 1
SYMMETRY Interchangeable
INVARIANTS
  TypeOK
  OnceEncrypted
  LinesKept
  SecretsAgree
  LinkedKept
CHECK_DEADLOCK FALSE
