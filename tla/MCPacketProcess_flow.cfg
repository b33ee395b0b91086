SPECIFICATION Spec
CONSTANTS
  Sockets <- MCSocketsTcp4
  OtherErrors = FALSE
  MaxChanges = 1
INVARIANTS
  FlowOwner
CHECK_DEADLOCK FALSE
