SPECIFICATION FairSpec
CONSTANTS
  Server = {"plex", "hook", "other"}
  Unsupported = {"other"}
  Event <- Events
  Config <- Configs
  Ignored <- IgnoredDirs
  Lower <- LowerCase
  Attempts = 2
  MaxEvents = 2
  MaxRebuilds = 1
  Viewer = {}
  Capacity = 2
  QueueMax = 2
  RecentLimit = 2
  MaxPublished = 0
CHECK_DEADLOCK FALSE
INVARIANTS TypeOK OneRecordPerDispatch CoalescedScanFinds
PROPERTIES StartsOnOpenClient EveryRequestSettles
