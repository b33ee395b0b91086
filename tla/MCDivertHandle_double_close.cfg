SPECIFICATION Spec
CONSTANTS
  Diversions = {d1}
  Threads = {t1}
  Finalizer <- MCFinalizer
  Values <- MCValues
  Habits = {"letgo"}
PROPERTIES
  ClosedReturnsFalse
CHECK_DEADLOCK FALSE
