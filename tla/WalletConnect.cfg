SPECIFICATION FairSpec
CONSTANTS
  p1 = p1
  live = live
  backlog = backlog
  s1 = s1
  s2 = s2
  r1 = r1
  x = x
  y = y
  None = None
  Pairings = {p1}
  Dispatchers = {live, backlog}
  Switches = {s1, s2}
  Requests = {r1}
  Addresses = {x, y}
  MaxDeliveries = 2
  MaxOps = 4
  MaxFails = 1
INVARIANTS OneDialog UnansweredIsGone AccountExposed
PROPERTIES ProposalReleased DeletedIsForgotten
CHECK_DEADLOCK FALSE
