CONSTANTS
  Var <- MCVar
  External <- MCExternal
  Scenarios <- AssumeScenarios
  OccurrenceLimit = 6
  ResolventLimit = 4
  FactorLength = 5
  MacroOnly = FALSE
SPECIFICATION Spec
INVARIANTS AssumptionsHonoured
CHECK_DEADLOCK FALSE
