SPECIFICATION ConfigSpec
CONSTANTS
  IntTexts <- MCIntTexts
  BoolTexts <- MCBoolTexts
  AddrTexts <- MCAddrTexts
  CredentialTexts <- MCCredentialTexts
  Defaults <- MCDefaults
  NoText <- MCNoText
  UsableURLs = {"https://hook"}
  MaxInt = 32767
  MaxGiven = 1
  Hour = 100
  maxTTLHours = 300
  MaxLogLines = 200
INVARIANTS AcceptedIsUsable AskedIsWhatRuns
CHECK_DEADLOCK FALSE
