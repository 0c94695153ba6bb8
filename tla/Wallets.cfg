SPECIFICATION Spec
CONSTANTS
  test = test
  other = other
  third = third
  A = A
  B = B
  NoFile = NoFile
  WalletNames = {test, other}
  Lists <- MCLists
  Kinds = {"Plaintext", "HDWallet", "Impersonator", "Ledger", "Key"}
  DefaultWallet <- MCDefault
  MaxWallets = 2
  MaxOps = 4
  MaxRestarts = 1
  Receivers = {}
  Capacity = 4
INVARIANTS CurrentExists RestartSucceeds SavedOrBroken
CHECK_DEADLOCK FALSE
