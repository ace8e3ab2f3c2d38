SPECIFICATION FiguresSpec
CONSTANTS
  LastKill = 3
  Victims <- MCVictims
  Layouts = {"pre62", "percpu", "other"}
  Skew = 1
  RingSlots = 1
  WordSize = 256
  pageSize = 4
  Samples = {1, 2, 3}
  Printable <- MCPrintable
  unknownLabel <- MCUnknown
  overflowLabel <- MCOverflow
  maxLabelCardinality = 1
  maxLabelValueLength = 1
CHECK_DEADLOCK FALSE
INVARIANTS PublishedIsTrue SeriesBounded
PROPERTY NameIsKept
