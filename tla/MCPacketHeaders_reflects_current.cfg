SPECIFICATION Spec
CONSTANTS
  Packets <- MCIpv6Packets
  Given = {}
  Leftovers <- MCLeftovers
  Overloads = {"withData"}
  MaxMoves = 1
INVARIANTS
  ReflectsCurrent
