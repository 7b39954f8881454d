SPECIFICATION Spec
CONSTANTS
  Signature <- MCSignature
  Queries <- MCEqualArrays
  MaxInt = 2
INVARIANT ReductionExact
CHECK_DEADLOCK FALSE
