CONSTANTS
  Width = 2
  Setups <- MCPublicValues
SPECIFICATION Spec
INVARIANT PublicPartHasRoom
CHECK_DEADLOCK FALSE
