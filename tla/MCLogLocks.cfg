\* A connection, a worker and a thread that logs, without --debug.
CONSTANTS
  d1 = d1  w1 = w1  l1 = l1
  None = None  Loop = Loop  Broadcaster = Broadcaster
  Fds = {d1}
  Workers = {w1}
  Loggers = {l1}
  Debug = FALSE
SPECIFICATION FairSpec
INVARIANTS OneWalker LockOrder
PROPERTIES BroadcastsGoOn UnreachableForgotten
CHECK_DEADLOCK FALSE
