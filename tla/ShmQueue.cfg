\* Two producers, a consumer and a monitoring process; one may die anywhere.
SPECIFICATION MCSpec
CONSTANTS
  p1 = p1
  p2 = p2
  c1 = c1
  i1 = i1
  NoProc = NoProc
  Producers = {p1, p2}
  Consumers = {c1}
  Peekers = {}
  Inspectors = {i1}
  Msgs <- MCMsgs
  Size = 11
  BufLen = 1
  MaxMsgs = 4
  MaxCrashes = 1
INVARIANTS TypeOK FifoDelivery PendingIntact NodesContiguous SnapshotExact
PROPERTIES EventuallyOut CallsReturn RingIsPacketQueue
