SPECIFICATION UnitsSpec
CONSTANTS
  \* BusLink: more positions than the faults can use up
  b1 = b1
  b2 = b2
  Clusters = {b1, b2}
  PosMin = 200
  PosMax = 210
  MaxFaults = 4
  \* ByteStream: a packet of the maximal length, one that is a header only
  HeaderLen = 2
  MaxBuffLen = 5
  SockLen = 3
  PkgLens = {2, 3, 5}
  MaxPkgs = 4
  MayBreak = TRUE
  \* ConnTable: positions are reused, the counter wraps
  ListenPos = {1}
  ClientMin = 5
  ClientMax = 9
  MaxConns = 3
  \* LogFiles: only the log server writes
  Apps = {"app"}
  LogSvr = "logsvr"
  MaxFileNum = 4
  MaxFileSize = 1
  LogQueueLen = 7
  MaxLines = 7
  MaxDeaths = 2
  \* SafeTcp: the status memory has no room for the second server
  SvrNum = 2
  MaxStatus = 1
  AnswerLen = 2
  MaxReqs = 2
  \* MemPool: two of the four blocks can be used
  BlockNum = 4
  BlockDataNum = 1
  Keys = {1, 2}
  \* TimerPool: two timers, half ticks, the caller up to a tick late
  TBNum <- MCTBNum
  Parts = 2
  TicksPerSec = 3
  TimerNodes = 4
  Intervals = {27}
  MaxLag = 1
  MaxAdds = 2
  MaxTime = 40
INVARIANTS StreamWhole OnlyOldestLost AnswersMatch MapsApart TimersPunctual
PROPERTIES LinksComeBack StreamDelivers IdleReleased
CHECK_DEADLOCK FALSE
