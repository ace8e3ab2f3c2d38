SPECIFICATION Spec
CONSTANTS
  MaxFileSize = 12
  lines = 4
  tailChunkSize = 2
  maxLogLineBytes = 1
  MaxSize = 3
  MaxLogLines = 3
  maxLogTotalBytes = 4
  Marker = 1
  MaxText = 1
  Fields = {1}
  slackMaxTextBytes = 12
  slackTruncationMarker = 2
INVARIANTS KeepsTheTail
CHECK_DEADLOCK FALSE
