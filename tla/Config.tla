------------------------------- MODULE Config -------------------------------
(***************************************************************************)
(* The start of either subcommand: loadConfig merges the defaults, the     *)
(* environment and the command line into a Config, and refuses to start    *)
(* on values that cannot work.                                             *)
(*                                                                         *)
(*   env, args  what the operator gave, under the name of the setting      *)
(*   pc         how far loadConfig is; "running", "rejected" and "usage"   *)
(*              are its ends                                               *)
(*   config     the Config, a value for each setting                       *)
(*   urlFromEnv, wasFlag, envErr   webhookURLFromEnv, WebhookURLWasFlag    *)
(*              and the error LoadFromEnv returned                         *)
(*                                                                         *)
(* A text the operator gave is [empty, parses, value]. A URL or a header   *)
(* is [text, spaces]: what is left when trimmed, and whether that is less. *)
(* Durations are machine words: -(MaxInt + 1)..MaxInt.                     *)
(***************************************************************************)
EXTENDS Integers, FiniteSets

CONSTANTS
  IntTexts, BoolTexts, AddrTexts, CredentialTexts,  \* the texts a setting may be given
  Defaults,                \* what NewConfig returns
  NoText,                  \* no URL, or no header
  UsableURLs,              \* the texts that are http or https URLs with a host
  MaxInt, Hour,
  maxTTLHours, MaxLogLines,
  MaxGiven                 \* bound on the variables, and on the flags, that are given

VARIABLES env, args, pc, config, urlFromEnv, wasFlag, envErr

configVars == <<env, args, pc, config, urlFromEnv, wasFlag, envErr>>

IntSettings ==
  {"TTLHours", "LogTailLines", "MaxConcurrentReports", "MaxConcurrentReconciles",
   "ReportCooldownSeconds", "MaxReports"}

BoolSettings ==
  {"PodOwnerReference", "CaptureLogs", "MetricsSecure", "WebhookIncludeLogs", "LeaderElect"}

AddrSettings == {"MetricsBindAddr", "HealthProbeBindAddr"}

Credentials == {"WebhookURL", "WebhookAuthHeader"}

Settings == IntSettings \cup BoolSettings \cup AddrSettings \cup Credentials

\* BindFlags registers these.
FlagSettings == Settings \ {"WebhookAuthHeader"}

\* LoadFromEnv looks these up: every setting but one.
EnvSettings == Settings \ {"MaxReports"}

ASSUME ConfigAssumption ==
  /\ MaxInt \in Nat /\ Hour \in Nat \ {0}
  /\ maxTTLHours \in Nat /\ MaxLogLines \in Nat /\ MaxGiven \in Nat
  /\ maxTTLHours * Hour <= MaxInt
  /\ DOMAIN Defaults = Settings
  /\ Defaults["WebhookURL"] = NoText
  /\ \A s \in IntSettings : Defaults[s] \in Int
  /\ \A t \in IntTexts : t.value \in Int

Texts(s) ==
  CASE s \in IntSettings -> IntTexts
    [] s \in BoolSettings -> BoolTexts
    [] s \in AddrSettings -> AddrTexts
    [] s \in Credentials -> CredentialTexts

\* Texts for some of the settings.
Given(names) ==
  UNION { {f \in [S -> UNION {Texts(s) : s \in S}] : \A s \in S : f[s] \in Texts(s)} :
            S \in {T \in SUBSET names : Cardinality(T) <= MaxGiven} }

ConfigInit ==
  /\ env \in Given(Settings)
  /\ args \in Given(FlagSettings)
  /\ pc = "env"
  /\ config = Defaults
  /\ urlFromEnv = NoText
  /\ wasFlag = FALSE
  /\ envErr = FALSE

-----------------------------------------------------------------------------

TrimSpace(u) == [u EXCEPT !.spaces = FALSE]

\* The variables LoadFromEnv finds: an empty one is as good as none.
Found == {s \in DOMAIN env \cap EnvSettings : ~env[s].empty}

\* The Config after LoadFromEnv, which trims the header.
FromEnv ==
  [s \in Settings |->
     IF s \notin Found \ {"WebhookURL"} \/ ~env[s].parses THEN config[s]
     ELSE IF s = "WebhookAuthHeader" THEN TrimSpace(env[s].value)
     ELSE env[s].value]

\* The URL is held aside, so that it does not become the default of its flag.
LoadFromEnv ==
  /\ pc = "env" /\ pc' = "flags"
  /\ config' = FromEnv
  /\ urlFromEnv' = IF "WebhookURL" \in Found THEN TrimSpace(env["WebhookURL"].value)
                   ELSE urlFromEnv
  /\ envErr' = (\E s \in Found : ~env[s].parses)
  /\ UNCHANGED <<env, args, wasFlag>>

\* BindFlags and flag.Parse. A flag that is not given keeps the value it was bound
\* with, which for the URL is empty; one that does not parse ends the process.
ParseFlags ==
  /\ pc = "flags"
  /\ IF \E s \in DOMAIN args : ~args[s].parses
       THEN pc' = "usage" /\ UNCHANGED config
       ELSE /\ pc' = "resolve"
            /\ config' = [s \in Settings |->
                            IF s \in DOMAIN args THEN args[s].value
                            ELSE IF s = "WebhookURL" THEN NoText
                            ELSE config[s]]
  /\ UNCHANGED <<env, args, urlFromEnv, wasFlag, envErr>>

\* Variant: the flag has to have a value to count.
ResolveSecrets_unlessEmpty ==
  /\ pc = "resolve" /\ pc' = "validate"
  /\ wasFlag' = (config["WebhookURL"] # NoText)
  /\ config' = [config EXCEPT !["WebhookURL"] = IF wasFlag' THEN @ ELSE urlFromEnv]
  /\ UNCHANGED <<env, args, urlFromEnv, envErr>>

ResolveSecrets ==
  /\ pc = "resolve" /\ pc' = "validate"
  /\ wasFlag' = ("WebhookURL" \in DOMAIN args)
  /\ config' = [config EXCEPT !["WebhookURL"] = IF wasFlag' THEN @ ELSE urlFromEnv]
  /\ UNCHANGED <<env, args, urlFromEnv, envErr>>

validateWebhookURL(u) == u = TrimSpace(u) /\ u.text \in UsableURLs

\* Variant: no upper bound on the retention.
Valid_anyTTL ==
  /\ config["TTLHours"] >= 1
  /\ config["LogTailLines"] \in 1..MaxLogLines
  /\ config["MaxConcurrentReports"] >= 1
  /\ config["MaxConcurrentReconciles"] >= 1
  /\ config["MaxReports"] >= 0
  /\ config["ReportCooldownSeconds"] >= 0
  /\ config["WebhookURL"] # NoText => validateWebhookURL(config["WebhookURL"])

\* Validate finds nothing wrong.
Valid ==
  /\ config["TTLHours"] \in 1..maxTTLHours
  /\ config["LogTailLines"] \in 1..MaxLogLines
  /\ config["MaxConcurrentReports"] >= 1
  /\ config["MaxConcurrentReconciles"] >= 1
  /\ config["MaxReports"] >= 0
  /\ config["ReportCooldownSeconds"] >= 0
  /\ config["WebhookURL"] # NoText => validateWebhookURL(config["WebhookURL"])

\* loadConfig returns, and the process starts or ends.
Validate ==
  /\ pc = "validate"
  /\ pc' = IF envErr \/ ~Valid THEN "rejected" ELSE "running"
  /\ UNCHANGED <<env, args, config, urlFromEnv, wasFlag, envErr>>

ConfigNext == LoadFromEnv \/ ParseFlags \/ ResolveSecrets \/ Validate

ConfigSpec == ConfigInit /\ [][ConfigNext]_configVars

-----------------------------------------------------------------------------

\* Multiplication of durations wraps around.
Wrapped(x) == ((x + MaxInt + 1) % (2 * (MaxInt + 1))) - (MaxInt + 1)

TTLDuration == Wrapped(config["TTLHours"] * Hour)

\* A process that starts can work with what it was given: the retention reaches the
\* collector as the hours that were asked for, although durations wrap around; a log
\* tail fits the schema, so that it cannot cost the report its status write; there
\* is a slot to report in and a worker to reconcile with; and a webhook URL is one
\* the client can use.
AcceptedIsUsable ==
  pc = "running" =>
    /\ TTLDuration = config["TTLHours"] * Hour /\ TTLDuration > 0
    /\ config["LogTailLines"] \in 1..MaxLogLines
    /\ config["MaxConcurrentReports"] >= 1 /\ config["MaxConcurrentReconciles"] >= 1
    /\ config["WebhookURL"] # NoText => validateWebhookURL(config["WebhookURL"])

\* What the operator asked of a setting: the flag, else the variable, else the default.
Asked(s) ==
  IF s \in DOMAIN args THEN args[s].value
  ELSE IF s \notin DOMAIN env \/ env[s].empty THEN Defaults[s]
  ELSE IF s \in Credentials THEN TrimSpace(env[s].value)
  ELSE env[s].value

\* A process that starts runs with what was asked of every setting LoadFromEnv knows,
\* through the detour of the webhook URL as well; a variable that does not parse is
\* never passed over, not even under a flag.
AskedIsWhatRuns ==
  pc = "running" =>
    \A s \in EnvSettings :
      config[s] = Asked(s) /\ (s \in DOMAIN env => env[s].empty \/ env[s].parses)
=============================================================================
