SPECIFICATION Spec
CONSTANTS
  MaxFileSize = 14
  lines = 4
  tailChunkSize = 3
  maxLogLineBytes = 1
  MaxSize = 3
  MaxLogLines = 3
  maxLogTotalBytes = 4
  Marker = 1
  MaxText = 5
  Fields = {1, 2, 4, 6, 9, 10}
  slackMaxTextBytes = 12
  slackTruncationMarker = 2
INVARIANTS TailIsExact TailIsGenuine ReadIsBounded NothingLost NoSplice FitsTheLimits OmissionsAreMarked SlackFits SlackKeepsTheEnd
CHECK_DEADLOCK FALSE
