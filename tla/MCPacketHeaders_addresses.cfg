SPECIFICATION Spec
CONSTANTS
  Packets <- MCPackets
  Given <- MCGiven
  Leftovers <- MCLeftovers
  Overloads = {"plain", "withData"}
  MaxMoves = 1
INVARIANTS
  TypeOK
  ShowsAsNew
