CONSTANTS
  w1 = w1
  w2 = w2
  stranger = stranger
  x1 = x1
  x2 = x2
  v1 = v1
  main = main
  dev = dev
  home = home
  anvil = anvil
  new = new
  None = None
  Conns = {c1}
  UI = ui
  Addresses = {w1, w2, stranger}
  Wallets = {w1, w2}
  DevWallets = {w1}
  Chains = {main, dev}
  DevChains = {dev}
  Names = {home, anvil, new}
  Data = {x1, x2}
  Values = {zero, v1}
  Zero = zero
  Contract <- MCContract
  Owners <- MCOwners
  Calls <- MCCalls
  FirstNets <- MCFirstNets
  FirstName = home
  Budgets <- MCBudgets
SPECIFICATION FairSpec
CHECK_DEADLOCK FALSE
INVARIANTS
  HoldsShown
PROPERTIES
  Consents
  TokenAsChecked
  GonePeerLeaves
