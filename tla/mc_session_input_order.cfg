SPECIFICATION Spec
CONSTANTS
  s1 = s1
  s2 = s2
  w1 = w1
  w2 = w2
  w3 = w3
  out1 = out1
  out2 = out2
  Zero = Zero
  None = None
  Shared = {s1, s2}
  Private = {w1, w2, w3}
  Out <- MCOut
  Keys <- DocKeys
  Batches <- DocBatches
  MaxCalls = 4
INVARIANT DocumentedInputOrderWorks
CHECK_DEADLOCK FALSE
