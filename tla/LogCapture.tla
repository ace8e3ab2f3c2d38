----------------------------- MODULE LogCapture -----------------------------
(***************************************************************************)
(* The log lines of a kill: one successful attempt of CaptureLogTail,      *)
(*   truncateLines(parseLogLines(tailFile(logFile, lines)))                *)
(* and, when the webhook is Slack's and may carry them, Send.              *)
(* Each function is given as many lines as the one before it returned; the *)
(* locals of a function are gone once it has returned.                     *)
(*                                                                         *)
(* Config.Validate keeps lines within MaxLogLines. The functions do not    *)
(* rely on it, and neither do the properties.                              *)
(***************************************************************************)
EXTENDS LogTail, LogFraming, LogTruncate, SlackText

VARIABLE stage     \* the function that is running

vars == <<stage, tailVars, framingVars, truncateVars, slackVars>>

Init == stage = "tail" /\ TailInit /\ FramingInit /\ TruncateInit /\ SlackInit

Tails == stage = "tail" /\ TailNext /\ UNCHANGED <<stage, framingVars, truncateVars, slackVars>>

CallsParse ==
  /\ stage = "tail" /\ tailDone
  /\ stage' = "parse"
  /\ Parse(Len(result))
  /\ TailReturned
  /\ UNCHANGED <<truncateVars, slackVars>>

Parses == stage = "parse" /\ FramingNext /\ UNCHANGED <<stage, tailVars, truncateVars, slackVars>>

CallsTruncate ==
  /\ stage = "parse" /\ framingDone
  /\ stage' = "truncate"
  /\ Truncate(Len(parsed))
  /\ Parse(0)
  /\ UNCHANGED <<tailVars, slackVars>>

Truncates == stage = "truncate" /\ TruncateNext /\ UNCHANGED <<stage, tailVars, framingVars, slackVars>>

\* The lines went into the report, and the controller read them back.
CallsSend ==
  /\ stage = "truncate" /\ truncateDone /\ out # <<>>
  /\ stage' = "send"
  /\ Send(Len(out))
  /\ TruncateReturned
  /\ UNCHANGED <<tailVars, framingVars>>

Sends == stage = "send" /\ Compose /\ UNCHANGED <<stage, tailVars, framingVars, truncateVars>>

Next == Tails \/ CallsParse \/ Parses \/ CallsTruncate \/ Truncates \/ CallsSend \/ Sends

Spec == Init /\ [][Next]_vars

=============================================================================
