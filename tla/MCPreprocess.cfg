CONSTANTS
  Var <- MCVar
  External <- MCExternal
  Scenarios <- MCScenarios
  OccurrenceLimit = 6
  ResolventLimit = 4
  FactorLength = 5
  MacroOnly = FALSE
SPECIFICATION Spec
INVARIANTS NothingLost NothingGained ProofChecks AnswersRight
CHECK_DEADLOCK FALSE
