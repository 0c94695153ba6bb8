SPECIFICATION CSpec
CONSTANTS
  a = a
  b = b
  anvil = anvil
  mainnet = mainnet
  url1 = url1
  site = site
  call1 = call1
  call2 = call2
  Absent = Absent
  Names <- MCNames2
  Chains = {anvil, mainnet}
  DevChain = anvil
  Urls = {url1}
  AllDefault <- MCDefault
  FirstDefault = a
  Receivers = {"networks", "connections"}
  Capacity = 4
  Domains = {site}
  Calls = {call1, call2}
  MaxUserOps = 2
  MaxFaults = 0
  MaxRestarts = 0
INVARIANT StuckNetworkExists
