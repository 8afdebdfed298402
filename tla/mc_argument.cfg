SPECIFICATION Spec
CONSTANTS
  KeyDims <- MCKeyDims
  CallRounds <- MCCallRounds
  Width = 4
INVARIANTS
  TypeOK
  ChecksHold
  CommittedBeforeChallenged
  WitnessMatchesShape
  FinalizedInstancesVerify
CHECK_DEADLOCK FALSE
