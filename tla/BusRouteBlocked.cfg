\* Two servers in different clusters send to each other.
SPECIFICATION FairSpec
CONSTANTS
  NClusters = 2
  Servers <- MCServers
  ClusterOf <- MCClusterOf
  Groups <- MCGroups
  Traffic <- MCBothWays
  QueueCap = 2
  WireCap = 1
  MaxSend = 4
  MaxBreaks = 0
PROPERTIES ForwardEnds
CHECK_DEADLOCK FALSE
