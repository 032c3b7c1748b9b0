SPECIFICATION FairSpec
CONSTANTS
  Files <- MCFiles
  Env <- MCEnv
  HeartbeatSec = 2
  WatchdogSec = 4
  RestartSec = 2
  StartLimitIntervalSec = 9
  StartLimitBurst = 3
  BringUpSec = 1
  IntervalSec = 2
  HandshakeSec = 1
  KeepaliveSec = 5
  Late = 1
  Window = 3
INVARIANTS TypeOK NoSpuriousKill StalledSessionEnds
PROPERTIES FailingStartsStop LiveSessionKept
CHECK_DEADLOCK FALSE
