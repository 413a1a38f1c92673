CONSTANTS
  Server = {s1, s2}
  Path = {p1, p2}
  Unsupported = {s2}
  Rebuilder = {r1, r2}
  Start = start
  NoTask = NoTask
  Park = TRUE
  MaxLimit = 1
  EarlyWrites = FALSE
  Faults = TRUE
SPECIFICATION Spec
INVARIANTS TypeOK NoClientLeak PicksUpEveryChange GateIsCurrent RootsFollowConfig
CHECK_DEADLOCK FALSE
SYMMETRY RebuilderSymmetry
