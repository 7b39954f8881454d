CONSTANTS
  Var <- MCVar
  Programs <- SearchPrograms
  BinaryFastPath = TRUE
  Minimize = TRUE
  Chrono = TRUE
  ChronoLimit = 0
  Interruptible = FALSE
  MaxRestarts = 1
  MaxReductions = 1
SPECIFICATION Spec
INVARIANTS WatchedOK NoMissedConflict ConflictIsCurrent LevelsOK
PROPERTIES Implements
CHECK_DEADLOCK FALSE
