SPECIFICATION Spec
CONSTANTS
  Sockets <- MCSockets
  OtherErrors = TRUE
  MaxChanges = 2
INVARIANTS
  TypeOK
  OutboundOwner
  NoStaleOwner
  TablesOwned
PROPERTIES
  LooksOnce
CHECK_DEADLOCK FALSE
