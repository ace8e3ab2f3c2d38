SPECIFICATION Spec
CONSTANTS
  Pods = {p1}
  LastIncarnation = 3
  ResolveSteps = 2
  logCaptureRetries = 2
  CaptureLogs = TRUE
INVARIANTS ResolvedIsVictim CapturedIsVictims
PROPERTIES FirstKillNotDiscarded
CHECK_DEADLOCK FALSE
