SPECIFICATION MCSpec
CONSTANTS
  Receivers <- MCReceivers
  Capacity = 2
  Forms <- MCForms
  Addresses = {a1}
  Default <- MCDefault
  FirstFiles <- MCFirstFiles
  NoFile = NoFile
  NoForm = NoForm
  None = None
  MailboxSize = 2
  Budgets <- MCBudgets
  Slugs = {s1}
  Ports = {3000, 3001}
  NoPort = 0
  p1 = p1
  d1 = d1
  d2 = d2
  Projects = {d1, d2}
  f1 = f1
  f2 = f2
  c1 = c1
  Files = {f1, f2}
  Valid = {f1}
  ProjectOf <- MCProjectOf
  RootOf <- MCRootOf
  Contracts = {c1}
  Matches <- MCMatches
INVARIANTS SavedFields EnabledFollows NetworkHasStack TriggersCounted
CHECK_DEADLOCK FALSE
PROPERTIES ContainerSettles FoundGetsAbi StepsFinish
