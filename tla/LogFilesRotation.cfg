\* A process writes beside the log server once the queue is full.
SPECIFICATION LogSpec
CONSTANTS
  Apps = {"app"}
  LogSvr = "logsvr"
  MaxFileNum = 3
  MaxFileSize = 1
  LogQueueLen = 1
  MaxLines = 7
  MaxDeaths = 0
INVARIANTS OnlyOldestLost
CHECK_DEADLOCK FALSE
