SPECIFICATION FairSpec
CONSTANTS
  x = x
  y = y
  mainnet = mainnet
  anvil = anvil
  Nobody = Nobody
  Addrs = {x, y}
  Chains = {mainnet, anvil}
  Supported = {mainnet}
  MaxMsgs = 4
  MaxFails = 1
INVARIANTS WorkersMatch
PROPERTY SyncsUnlessFailed
CHECK_DEADLOCK FALSE
