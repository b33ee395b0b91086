SPECIFICATION Spec
CONSTANTS
  Bytes <- MCBytes
  MaxEdits = 2
INVARIANTS
  TypeOK
  WriteBack
  HostOrder
