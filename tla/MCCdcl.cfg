CONSTANTS
  Var <- MCVar
  InputClauses <- MCInputClauses
  Queries <- MCQueries
SPECIFICATION Spec
INVARIANTS TypeOK ReasonOK AssumedOK DatabaseOK SatIsRight UnsatIsRight
