SPECIFICATION Spec
CONSTANTS
  Containers = {c1, c2}
  KillsEach = 2
  RingSize = 2
  MaxConcurrentReports = 1
  ReportCooldown = 2
  MaxTime = 3
SYMMETRY ContainerSymmetry
INVARIANTS PipelineTypeOK SlotsAccounted CleanDrain ReportsNotCutShort CooldownSpacing SuppressedIsRepeat CooldownEvicts
PROPERTIES NoLateAdd
CHECK_DEADLOCK FALSE
