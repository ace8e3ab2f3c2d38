SPECIFICATION FairSystemSpec
CONSTANTS
  Reports = {r1}
  LastStart = 1
  MaxTime = 3
  StatusSteps = 1
  WebhookEnabled = TRUE
  WebhookIncludeLogs = TRUE
  MaxConcurrentReconciles = 1
  diagnosticsGracePeriod = 1
  webhookRetryWindow = 1
  MaxFaults = 0
  MaxRestarts = 1
  ttl = 1
  maxReports = 1
PROPERTIES EverythingExpires
CHECK_DEADLOCK FALSE
