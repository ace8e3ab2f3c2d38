SPECIFICATION RetentionSpec
CONSTANTS
  Reports = {r1, r2, r3, r4}
  LastStart = 2
  MaxTime = 3
  ttl = 1
  maxReports = 2
SYMMETRY ReportSymmetry
INVARIANTS RetentionEnforced NewestSurvive
CHECK_DEADLOCK FALSE
