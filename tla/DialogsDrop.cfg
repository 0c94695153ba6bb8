SPECIFICATION FairSpec
CONSTANTS
  d1 = d1
  d2 = d2
  k1 = k1
  k2 = k2
  Free = Free
  Dialogs = {d1}
  Commands = {k1, k2}
  MaxAnswers = 2
PROPERTY ClosesOnDrop
CHECK_DEADLOCK FALSE
