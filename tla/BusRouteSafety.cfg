\* Two clusters, three servers, all address forms, one broken connection.
SPECIFICATION Spec
CONSTANTS
  NClusters = 2
  Servers <- MCServers
  ClusterOf <- MCClusterOf
  Groups <- MCGroups
  Traffic <- MCTraffic
  QueueCap = 1
  WireCap = 1
  MaxSend = 3
  MaxBreaks = 1
INVARIANTS Accounted RightDestination FifoPerConnection
CHECK_DEADLOCK FALSE
