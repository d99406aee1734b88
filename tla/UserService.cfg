SPECIFICATION SvcFairSpec
CONSTANTS
  Requests = {1, 2}
  Known <- MCKnown
  Clock <- MCClock
  Friendships <- MCFriendships
  Loaders <- MCLoaders
  Writers <- MCWriters
  MaxUserNodeNum = 2
  MaxRequestNum = 2
  UserInvalidTime = 86400
  QueueLen = 1
  MaxFaults = 1
INVARIANTS SvcTypeOK OnePlace FriendOnce CopiesFaithful RegisteredKept
PROPERTY RequestEnds
CHECK_DEADLOCK FALSE
