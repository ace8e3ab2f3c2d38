----------------------------- MODULE CrashAlert -----------------------------
(***************************************************************************)
(* What the system promises about one crash report, without the agent, the *)
(* controller, the cache or the queue: a report is filed, may gain its     *)
(* diagnostics, is settled once and for all, and is not settled before its *)
(* alert is accounted for (delivered, or recorded as dropped).             *)
(***************************************************************************)
CONSTANTS Reports, Alerting

VARIABLES
  stage,       \* where each report is
  accounted    \* whether its alert was delivered or recorded as dropped

alertState == <<stage, accounted>>

Stages == {"none", "raw", "diagnosed", "settled", "gone"}

Open(r) == stage[r] \in {"raw", "diagnosed"}

AlertInit ==
  /\ stage = [r \in Reports |-> "none"]
  /\ accounted = [r \in Reports |-> FALSE]

Moves(r, s) == stage' = [stage EXCEPT ![r] = s]

File(r) == stage[r] = "none" /\ Moves(r, "raw") /\ UNCHANGED accounted

Diagnose(r) == stage[r] = "raw" /\ Moves(r, "diagnosed") /\ UNCHANGED accounted

Account(r) ==
  /\ Alerting
  /\ stage[r] # "none"
  /\ ~accounted[r]
  /\ accounted' = [accounted EXCEPT ![r] = TRUE]
  /\ UNCHANGED stage

Settle(r) ==
  /\ Open(r)
  /\ Alerting => accounted[r]
  /\ Moves(r, "settled")
  /\ UNCHANGED accounted

Remove(r) ==
  /\ Open(r) \/ stage[r] = "settled"
  /\ Moves(r, "gone")
  /\ UNCHANGED accounted

AlertNext ==
  \E r \in Reports : File(r) \/ Diagnose(r) \/ Account(r) \/ Settle(r) \/ Remove(r)

AlertSafety == AlertInit /\ [][AlertNext]_alertState

\* An open report is alerted and then settled, unless it is deleted first.
AlertSpec ==
  /\ AlertSafety
  /\ \A r \in Reports : /\ WF_alertState(Open(r) /\ Account(r))
                        /\ WF_alertState(Settle(r))

=============================================================================
