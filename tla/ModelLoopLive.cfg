CONSTANTS
  Writers = {w1, w2}
  Waiters = {}
  Loop = Loop
  Meter = Meter
  Mod = 32
  Delay = 1
  MaxChanges = 2
  MaxPosts = 0
  BlindDevices = {1, 2}
  NumClusters = 2
  Placements = {"none", "south", "north"}
  NoPlacement = "none"
  ClusterStarts <- AllClusterStarts
  MaxRequests = 2
SPECIFICATION ModelThreadSpec
INVARIANTS ModelThreadTypeOK ClustersAreExact
PROPERTIES ChangeIsSaved ClustersSettle
CHECK_DEADLOCK FALSE
