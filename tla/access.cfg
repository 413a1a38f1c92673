CONSTANTS
  Client = {"a", "b"}
  Tab = {"t1", "t2"}
  Owners <- OneOrTwo
  Opens <- Asked
  Max <- MaxAttempts
  Window <- Windows
  MaxTime = 2
  MaxTried = 3
SPECIFICATION FairSpec
INVARIANTS TypeOK AttemptsBounded
PROPERTIES RefusedForAReason EveryTabShows
CHECK_DEADLOCK FALSE
