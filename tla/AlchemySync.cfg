SPECIFICATION FairSpec
CONSTANTS
  w1 = w1
  w2 = w2
  Workers = {w1, w2}
  MaxHeight = 3
  PerBlock = 1
  PageSize = 2
  MaxAborts = 1
INVARIANTS NothingMissing
PROPERTY EventuallyStored
