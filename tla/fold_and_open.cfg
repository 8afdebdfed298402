CONSTANTS
  P = 7
  Width = 2
  Jobs <- MCJobs
  Challenges <- MCChallenges
  Points <- MCPoints
  Blinds <- MCBlinds
  Masks <- MCMasks
SPECIFICATION ArgumentSpec
INVARIANTS
  FoldIsSatisfied
  SameChallenges
  ProofIsAccepted
  OpenedCommitmentsAreBound
  InstanceIsBound
CHECK_DEADLOCK FALSE
