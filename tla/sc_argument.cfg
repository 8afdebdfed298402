SPECIFICATION Spec
CONSTANTS
  Dims <- MCDims
  Width = 4
INVARIANTS
  TypeOK
  ChecksHold
  CommittedBeforeChallenged
  ProofsAreAccepted
CHECK_DEADLOCK FALSE
