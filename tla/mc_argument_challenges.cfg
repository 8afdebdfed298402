SPECIFICATION Spec
CONSTANTS
  KeyDims <- MCKeyDims
  CallRounds <- MCCallRounds
  Width = 4
INVARIANT ChallengesAreThisRounds
CHECK_DEADLOCK FALSE
