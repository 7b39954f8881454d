CONSTANTS
  Var <- MCVar
  Programs <- ClientPrograms
  BinaryFastPath = FALSE
  Minimize = TRUE
  Chrono = FALSE
  ChronoLimit = 0
  Interruptible = TRUE
  MaxRestarts = 1
  MaxReductions = 1
SPECIFICATION Spec
INVARIANTS CacheOK NoMissedUnit
PROPERTIES Implements CallsReturn
CHECK_DEADLOCK FALSE
