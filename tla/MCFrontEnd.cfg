CONSTANTS
  Commands <- MCCommands
  MaxCommands = 7
  Signature <- MCSignature
  Families <- MCFamilies
  AssertionNames = {"L"}
  MaxFrames = 2
  MaxInt = 2
  Queries <- MCQueries
SPECIFICATION FrontSpec
INVARIANTS ScopesAgree CacheMeansTerm LastCheckRight SatRight UnsatRight ModelIsOneStructure NeverWithdrawn ReductionExact
PROPERTIES RejectedChangesNothing LemmasValid CheckReturns
CHECK_DEADLOCK FALSE
