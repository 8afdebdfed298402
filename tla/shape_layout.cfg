CONSTANTS
  Width = 2
  Setups <- MCSetups
SPECIFICATION Spec
INVARIANTS
  DimensionsAgree
  ColumnsReadTheirVariable
  RowsConcatenate
  NothingBeyondThePrefixes
  IncrementalIsFull
CHECK_DEADLOCK FALSE
