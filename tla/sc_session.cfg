SPECIFICATION Spec
CONSTANTS
  s1 = s1
  w1 = w1
  w2 = w2
  w3 = w3
  out1 = out1
  out2 = out2
  Zero = Zero
  None = None
  Slots = {1, 2}
  Shared = {s1}
  Private = {w1, w2, w3}
  Large = {w3}
  Out <- MCOut
  Circuits <- MCCircuits
  Keys <- MCKeys
  MaxCalls = 3
INVARIANTS
  TypeOK
  StoredCommitmentsOpen
  CachedRestIsOnePair
  BlindsNeverReused
  PublishedCommitmentsAreCurrent
PROPERTY ImplementsService
CHECK_DEADLOCK FALSE
