SPECIFICATION FairSpec
CONSTANTS
  r1 = r1
  r2 = r2
  t1 = t1
  t2 = t2
  Results = {r1, r2}
  Diversions = {d1}
  Threads = {t1, t2}
  Uses <- MCUses
  MaxOps = 2
INVARIANTS
  TypeOK
  KernelMemoryHeld
  AnswerIsOwn
  PinOwned
  CurrentPinReachable
PROPERTIES
  KeepsPromise
  CloseWakesGet
  DroppedReclaimed
CHECK_DEADLOCK FALSE
