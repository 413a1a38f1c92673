CONSTANTS
  Server = {s1}
  Path = {p1}
  Unsupported = {}
  Rebuilder = {r1, r2}
  Start = start
  NoTask = NoTask
  Park = TRUE
  MaxLimit = 0
  EarlyWrites = TRUE
  Faults = TRUE
SPECIFICATION WFairSpec
INVARIANTS ExitReleasesAll
PROPERTIES EveryRequestAnswered ShutdownEnds
CHECK_DEADLOCK FALSE
