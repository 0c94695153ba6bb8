SPECIFICATION SFairSpec
CONSTANTS
  s1 = s1
  s2 = s2
  Signers = {s1, s2}
  MaxStores = 3
  MaxTries = 3
INVARIANTS SecretHasExpirer GuardHasSecret
PROPERTY Expires
CHECK_DEADLOCK FALSE
