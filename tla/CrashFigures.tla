---------------------------- MODULE CrashFigures ----------------------------
(***************************************************************************)
(* The figures of the kills on their way from the kernel to the reports    *)
(* and to the metrics: OomProbe, and the controller's workers, which       *)
(* label a sample of each report with the command that set off the kill.   *)
(***************************************************************************)
EXTENDS OomProbe, LabelLimiter

ASSUME FiguresAssumption == Samples = Kills

figuresVars == <<probeVars, limiterVars>>

FiguresInit == ProbeInit /\ LimiterInit

\* The end of Reconcile: a report with a TriggerComm is counted under its label.
Observe(k) ==
  /\ diag[k] # None
  /\ diag[k].comm # <<>>
  /\ Bound(k, diag[k].comm)

FiguresNext ==
  \/ ProbeNext /\ UNCHANGED limiterVars
  \/ \E k \in Kills : (Observe(k) \/ Locked(k)) /\ UNCHANGED probeVars

FiguresSpec == FiguresInit /\ [][FiguresNext]_figuresVars

-----------------------------------------------------------------------------

Within(x, y, d) == x - y <= d /\ y - x <= d

\* What a report says of a kill is what the kernel knew of that kill: never a byte
\* of an earlier record left in the ring, never a negative or wrapped figure. A
\* counter is within Skew pages of the truth, the resident ones add up to the RSS,
\* and the breakdown is there exactly when the kernel's counters could be read.
PublishedIsTrue ==
  \A k \in Kills : diag[k] # None =>
    LET v == victim[k]
        d == diag[k]
    IN  /\ d.comm = v.comm /\ d.score = k /\ d.scope = scopeOf(k) * pageSize
        /\ d.context = IF v.memcg THEN "ContainerLimit" ELSE "NodeExhaustion"
        /\ d.adj = IF v.sig THEN adjOf(k) ELSE 0
        /\ event[k].container = IF v.chain = 5 THEN k ELSE 0
        /\ IF v.mm /\ layout # "other"
             THEN LET rss == d.dissection[1]
                  IN  /\ d.dissection[2] = k
                      /\ d.victimRSS = rss["anon"] + rss["file"] + rss["shmem"]
                      /\ \A c \in Counters :
                           /\ rss[c] >= 0
                           /\ Within(rss[c], trueCount(k, v, c) * pageSize, Skew * pageSize)
             ELSE d.dissection = <<>> /\ d.victimRSS = 0
=============================================================================
