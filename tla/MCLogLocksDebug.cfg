\* One connection and one worker, with --debug.
CONSTANTS
  d1 = d1  w1 = w1  l1 = l1
  None = None  Loop = Loop  Broadcaster = Broadcaster
  Fds = {d1}
  Workers = {w1}
  Loggers = {}
  Debug = TRUE
SPECIFICATION FairSpec
PROPERTIES BroadcastsGoOn
CHECK_DEADLOCK FALSE
