CONSTANTS
  Commands <- FailureCommands
  MaxCommands = 6
SPECIFICATION Spec
INVARIANTS LastCheckRight
CHECK_DEADLOCK FALSE
