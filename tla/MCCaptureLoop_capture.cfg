SPECIFICATION FairSpec
CONSTANTS
  MaxPackets = 3
  Kinds <- MCKinds
  Leftovers <- MCLeftovers
  MaxMoves = 1
INVARIANTS
  TypeOK
  ReportRight
PROPERTIES
  KeepsRelaying
  PassedOn
CHECK_DEADLOCK FALSE
