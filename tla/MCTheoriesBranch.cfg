SPECIFICATION Spec
CONSTANTS
  Signature <- MCSignature
  Families <- MCBranchFamilies
  AssertionNames = {"L"}
  MaxFrames = 2
  MaxInt = 2
INVARIANT SatRight
CHECK_DEADLOCK FALSE
