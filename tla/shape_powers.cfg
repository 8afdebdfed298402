CONSTANTS
  Width = 2
  Setups <- MCConstraints
SPECIFICATION Spec
INVARIANT PowersAreAnOuterProduct
CHECK_DEADLOCK FALSE
