SPECIFICATION FairSpec
CONSTANTS
  Diversions = {d1, d2}
  Threads = {t1, t2}
  Finalizer <- MCFinalizer
  Values <- MCValues
  Habits <- MCHabits
INVARIANTS
  TypeOK
  ClosesOwn
  ReachesOwn
  NothingLost
  ShutForGood
PROPERTIES
  KeepsOwn
  DroppedCloses
CHECK_DEADLOCK FALSE
