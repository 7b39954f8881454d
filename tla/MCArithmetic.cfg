CONSTANTS
  Var <- MCVar
  Families <- MCFamilies
  RelaxAt = 3
  MaxAsserts = 4
  Amounts = {0, 1, 2, 3, 5}
  WidthLimit = 8
  WorkLimit = 16
SPECIFICATION NumberSpec
INVARIANTS SatModelRight UnsatAnswerRight Decides CircuitsRight
CHECK_DEADLOCK FALSE
