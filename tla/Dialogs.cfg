SPECIFICATION FairSpec
CONSTANTS
  d1 = d1
  d2 = d2
  k1 = k1
  k2 = k2
  Free = Free
  Dialogs = {d1, d2}
  Commands = {k1, k2}
  MaxAnswers = 1
INVARIANTS WindowFindsDialog
PROPERTIES CloseEndsRequest DropClosesUnlessDeadlocked
CHECK_DEADLOCK FALSE
