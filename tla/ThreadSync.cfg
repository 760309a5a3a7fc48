CONSTANTS
  Threads = {2, 3, 4}
  Ids = {2, 3, 4, 5}
  Addresses = {1, 2, 3, 4, 5}
  Entry = 1
  Out = 5
  Flow <- MCFlow
  Barriers = {4}
  Breakpoints = {2, 3}
  MaxTrips = 1
SPECIFICATION FairSyncSpec
PROPERTIES ContinuedTogether CommandEnds
CHECK_DEADLOCK FALSE
