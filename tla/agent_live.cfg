SPECIFICATION FairSpec
CONSTANTS
  Containers = {c1, c2}
  KillsEach = 1
  RingSize = 1
  MaxConcurrentReports = 1
  ReportCooldown = 1
  MaxTime = 0
PROPERTIES ShutdownEnds BufferedIsSettled
CHECK_DEADLOCK FALSE
