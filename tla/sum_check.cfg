CONSTANTS
  P <- Field7
  Jobs <- MCJobs
  Challenges <- MCChallenges
SPECIFICATION Spec
INVARIANTS RoundPolynomials ZeroPrefixes FinalClaims
CHECK_DEADLOCK FALSE
