------------------------------ MODULE MCConfig ------------------------------
(***************************************************************************)
(* Small instance of Config: 16-bit durations and an hour of 100 units, so *)
(* that the interesting products lie on both sides of the wrap.            *)
(***************************************************************************)
EXTENDS Config

Text(v) == [empty |-> FALSE, parses |-> TRUE, value |-> v]
Bad(v) == [empty |-> FALSE, parses |-> FALSE, value |-> v]
Empty(v, ok) == [empty |-> TRUE, parses |-> ok, value |-> v]

MCNoText == [text |-> "", spaces |-> FALSE]

\* 400 hours wrap to a negative duration.
MCIntTexts ==
  { Text(v) : v \in {-1, 0, 1, 4, 200, 201, 300, 301, 400} } \cup {Bad(77), Empty(78, FALSE)}
MCBoolTexts == { Text(TRUE), Text(FALSE), Bad("yes"), Empty("", FALSE) }
MCAddrTexts == { Text(":9000"), Empty("", TRUE) }
MCCredentialTexts ==
  { Text([text |-> t, spaces |-> b]) : t \in {"https://hook", "ftp://hook"}, b \in BOOLEAN }
  \cup { Text([text |-> "", spaces |-> TRUE]), Empty(MCNoText, TRUE) }

MCDefaults ==
  [s \in Settings |->
     CASE s = "TTLHours" -> 24
       [] s = "LogTailLines" -> 50
       [] s = "MaxConcurrentReports" -> 8
       [] s = "MaxConcurrentReconciles" -> 4
       [] s = "ReportCooldownSeconds" -> 30
       [] s = "MaxReports" -> 10000
       [] s \in {"MetricsSecure", "LeaderElect"} -> TRUE
       [] s \in {"PodOwnerReference", "CaptureLogs", "WebhookIncludeLogs"} -> FALSE
       [] s = "MetricsBindAddr" -> ":8443"
       [] s = "HealthProbeBindAddr" -> ":8081"
       [] s \in Credentials -> MCNoText]
=============================================================================
