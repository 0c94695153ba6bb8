SPECIFICATION DFairSpec
CONSTANTS
  None = None
  MaxBlocks = 2
  MaxReverts = 1
  MaxDowns = 1
  MaxWatches = 1
INVARIANTS InOrder
PROPERTIES RevertDetected LosesOnlyTheGap
CHECK_DEADLOCK FALSE
