\* Watch sets that change, stops, refusals, events, reconciles and a drain.
CONSTANTS
  l1 = l1  l2 = l2  s1 = s1  s2 = s2  s3 = s3  i1 = i1  i2 = i2  None = None
  Loop = {l1}  Slot = {s1, s2}  Item = {i1}  LateTasks = 1  ErrorTasks = 1
SPECIFICATION FairSpec
INVARIANTS WatchersFollowTheSet WorkIsDriven
PROPERTIES ChangesAreScanned DrainsEnd
CHECK_DEADLOCK FALSE
