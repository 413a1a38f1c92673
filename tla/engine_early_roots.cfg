CONSTANTS
  Server = {s1}
  Path = {p1}
  Unsupported = {}
  Rebuilder = {r1}
  Start = start
  NoTask = NoTask
  Park = TRUE
  MaxLimit = 1
  EarlyWrites = TRUE
  Faults = FALSE
SPECIFICATION Spec
INVARIANT RootsFollowConfig
CHECK_DEADLOCK FALSE
