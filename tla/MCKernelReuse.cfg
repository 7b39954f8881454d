CONSTANTS
  Var <- MoreVar
  Programs <- EmptyLevelPrograms
  BinaryFastPath = TRUE
  Minimize = TRUE
  Chrono = TRUE
  ChronoLimit = 0
  Interruptible = FALSE
  MaxRestarts = 1
  MaxReductions = 1
SPECIFICATION Spec
INVARIANTS LevelsStartWithDecisions
CHECK_DEADLOCK FALSE
