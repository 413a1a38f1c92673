SPECIFICATION BusSpec
CONSTANTS
  v1 = v1
  v2 = v2
  Viewer = {v1, v2}
  Capacity = 3
  QueueMax = 2
  RecentLimit = 2
  MaxPublished = 5
SYMMETRY Browsers
CHECK_DEADLOCK FALSE
INVARIANTS BusTypeOK FeedInOrder
