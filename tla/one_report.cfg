SPECIFICATION FairSpec
CONSTANTS
  Reports = {r1}
  LastStart = 1
  MaxTime = 2
  StatusSteps = 2
  WebhookEnabled = TRUE
  WebhookIncludeLogs = FALSE
  MaxConcurrentReconciles = 1
  diagnosticsGracePeriod = 1
  webhookRetryWindow = 1
  MaxFaults = 1
  MaxRestarts = 1
INVARIANTS TypeOK LifecycleInv AlertAccounted NotifiedMeansDelivered DiagnosticsFirst
PROPERTIES ProcessedIsFinal StatusNeverLost EventuallySettled DeletedIsForgotten ImplementsCrashAlert
CHECK_DEADLOCK FALSE
