SPECIFICATION Spec
CONSTANTS
  Packets <- MCTwoPackets
  Given = {}
  Leftovers <- MCLeftovers
  Overloads = {"withData"}
  MaxMoves = 1
INVARIANTS
  ValidDataInArray
