SPECIFICATION FairSpec
CONSTANTS
  Reports = {r1}
  LastStart = 1
  MaxTime = 2
  StatusSteps = 1
  WebhookEnabled = TRUE
  WebhookIncludeLogs = FALSE
  MaxConcurrentReconciles = 1
  diagnosticsGracePeriod = 1
  webhookRetryWindow = 1
  MaxFaults = 1
  MaxRestarts = 1
PROPERTIES ProcessedEmitsEvent
CHECK_DEADLOCK FALSE
