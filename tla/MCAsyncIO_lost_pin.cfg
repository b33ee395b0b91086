SPECIFICATION Spec
CONSTANTS
  r1 = r1
  r2 = r2
  t1 = t1
  t2 = t2
  Results = {r1}
  Diversions = {d1}
  Threads = {t1}
  Uses <- MCUses
  MaxOps = 2
INVARIANTS
  DoneUnpinsAll
CHECK_DEADLOCK FALSE
