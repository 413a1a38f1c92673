CONSTANTS
  Server = {s1}
  Path = {p1, p2}
  Unsupported = {}
  Rebuilder = {}
  Start = start
  NoTask = NoTask
  Park = FALSE
  MaxLimit = 1
  EarlyWrites = FALSE
  Faults = TRUE
SPECIFICATION HFairSpec
INVARIANTS ExitCodeTellsBlocked ExitReleasesClients
PROPERTIES BlockedExits
CHECK_DEADLOCK FALSE
