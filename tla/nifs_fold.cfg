SPECIFICATION Spec
CONSTANT Sizes <- MCSizes
INVARIANTS
  TypeOK
  PendingLayersAreIntact
  PrefixMatchesFolds
PROPERTY RefinesFoldSpec
CHECK_DEADLOCK FALSE
