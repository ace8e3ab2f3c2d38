------------------------------ MODULE Reporter ------------------------------
(***************************************************************************)
(* The agent's two writes: Reporter.CreateCrashReport creates a report     *)
(* with an empty status and then attaches the diagnostics to it with a     *)
(* status patch that is locked on the resourceVersion Create returned.     *)
(*                                                                         *)
(* writer[r] is the worker that writes report r:                           *)
(*   pc     "create", "patch", and then how the call ended, as             *)
(*          handleCrashEvent classifies it: "ok", "create" counted under   *)
(*          StageCreate, "status" counted under StageStatus, or "dead"     *)
(*   base   the resourceVersion the patch is locked on                     *)
(*   tries  how many attempts statusWriteBackoff has left                  *)
(* cancelled is reportCtx.                                                 *)
(***************************************************************************)
EXTENDS ReportStore

CONSTANT StatusSteps     \* statusWriteBackoff.Steps

ASSUME ReporterAssumption == StatusSteps \in Nat \ {0}

VARIABLES writer, cancelled

reporterVars == <<writer, cancelled>>

WriterStates ==
  [pc    : {"create", "patch", "ok", "err_create", "err_status", "dead"},
   base  : Nat,
   tries : 0..StatusSteps]

ReporterTypeOK ==
  /\ writer \in [Reports -> WriterStates]
  /\ cancelled \in BOOLEAN

ReporterInit ==
  /\ writer = [r \in Reports |-> [pc |-> "create", base |-> 0, tries |-> StatusSteps]]
  /\ cancelled = FALSE

Ended(outcome) == [pc |-> outcome, base |-> 0, tries |-> 0]

Ends(r, outcome) == writer' = [writer EXCEPT ![r] = Ended(outcome)]

\* Variant: the attempts are counted up.
RetryStatus_countsUp(r) ==
  IF writer[r].tries = 1 THEN Ends(r, "err_status")
                         ELSE writer' = [writer EXCEPT ![r].tries = @ + 1]

\* A failed attempt that isRetryableStatusError lets through: the last one ends
\* the call with a StatusWriteError.
RetryStatus(r) ==
  IF writer[r].tries = 1 THEN Ends(r, "err_status")
                         ELSE writer' = [writer EXCEPT ![r].tries = @ - 1]

\* retryOnBackoff makes another attempt at the status write.
Attempts(r) == writer[r].pc = "patch" /\ writer[r].tries > 0

\* The diagnostics and the Pending phase, as one merge patch.
WriteStatus(r) ==
  Write(r, [server[r] EXCEPT !.rv = @ + 1, !.diag = "full", !.phase = "Pending"])

\* Variant: a plain merge patch, without the lock.
Locked_ignored(r) == Present(server[r])

\* Optimistic lock: the server still holds the version Create returned.
Locked(r) == Present(server[r]) /\ server[r].rv = writer[r].base

-----------------------------------------------------------------------------

\* Variant: the patch base is taken before Create fills in the resourceVersion.
Create_staleBase(r) ==
  /\ writer[r].pc = "create"
  /\ now <= LastStart
  /\ Write(r, FreshObject(now))
  /\ writer' = [writer EXCEPT ![r].pc = "patch"]
  /\ UNCHANGED <<now, cache, up, cancelled>>

\* client.Create succeeds.
Create(r) ==
  /\ writer[r].pc = "create"
  /\ now <= LastStart
  /\ Write(r, FreshObject(now))
  /\ writer' = [writer EXCEPT ![r].pc = "patch", ![r].base = 1]
  /\ UNCHANGED <<now, cache, up, cancelled>>

\* client.Create returns an error. It is not retried. The request may have been
\* refused, or it may have been carried out and its answer lost.
CreateFails(r) ==
  /\ writer[r].pc = "create"
  /\ now <= LastStart
  /\ Ends(r, "err_create")
  /\ \/ UNCHANGED <<server, watch>>
     \/ Write(r, FreshObject(now))
  /\ UNCHANGED <<now, cache, up, cancelled>>

\* Status().Patch succeeds.
PatchStatus(r) ==
  /\ Attempts(r)
  /\ Locked(r)
  /\ WriteStatus(r)
  /\ Ends(r, "ok")
  /\ UNCHANGED <<now, cache, up, cancelled>>

\* Status().Patch is carried out, but the connection drops before the answer.
PatchAnswerLost(r) ==
  /\ Attempts(r)
  /\ Locked(r)
  /\ WriteStatus(r)
  /\ RetryStatus(r)
  /\ UNCHANGED <<now, cache, up, cancelled>>

\* Status().Patch fails with a retryable error and has no effect.
PatchTransient(r) ==
  /\ Attempts(r)
  /\ RetryStatus(r)
  /\ UNCHANGED <<storeVars, cancelled>>

\* Status().Patch is refused for good: a conflict on the lock, the report is
\* gone, or the server rejects the content or the caller.
PatchRefused(r) ==
  /\ Attempts(r)
  /\ Ends(r, "err_status")
  /\ UNCHANGED <<storeVars, cancelled>>

\* reportCtx is done while retryOnBackoff sleeps between two attempts: the bare
\* ctx.Err() is not a StatusWriteError, so it is counted under StageCreate.
PatchCancelled(r) ==
  /\ writer[r].pc = "patch"
  /\ cancelled
  /\ writer[r].tries < StatusSteps
  /\ Ends(r, "err_create")
  /\ UNCHANGED <<storeVars, cancelled>>

\* Agent.Run returns with reports in flight, which cancels reportCtx.
CancelReports ==
  /\ ~cancelled
  /\ cancelled' = TRUE
  /\ UNCHANGED <<storeVars, writer>>

\* The agent process ends: every unfinished call ends with it.
AgentDies ==
  /\ \E r \in Reports : writer[r].pc \in {"create", "patch"}
  /\ writer' = [r \in Reports |-> IF writer[r].pc \in {"create", "patch"}
                                    THEN Ended("dead")
                                    ELSE writer[r]]
  /\ UNCHANGED <<storeVars, cancelled>>

ReporterStep(r) ==
  \/ Create(r)
  \/ CreateFails(r)
  \/ PatchStatus(r)
  \/ PatchAnswerLost(r)
  \/ PatchTransient(r)
  \/ PatchRefused(r)
  \/ PatchCancelled(r)

ReporterNext == CancelReports \/ AgentDies \/ \E r \in Reports : ReporterStep(r)

=============================================================================
