\* A pipe that is full after one entry.
CONSTANTS
  PipeCap = 1
  Platforms <- MCPlatforms
  Services = {"SAFE", "CLOSE", "hung"}
  Disks = {"ok", "low"}
SPECIFICATION FairSpec
INVARIANTS NotLostWhileRunning
PROPERTIES StatusReached LowDiskLocksDown ShutdownCompletes LoggedIsWritten WatchdogFollowsServer
CHECK_DEADLOCK FALSE
