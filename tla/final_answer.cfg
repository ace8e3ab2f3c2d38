SPECIFICATION Spec
CONSTANTS
  Pods = {p1, p2}
  LastIncarnation = 1
  ResolveSteps = 2
  logCaptureRetries = 2
  CaptureLogs = TRUE
SYMMETRY PodSymmetry
INVARIANTS FinalMeansOutsider
CHECK_DEADLOCK FALSE
