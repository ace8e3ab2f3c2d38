---------------------------- MODULE LabelLimiter ----------------------------
(***************************************************************************)
(* The labelLimiter of the controller's metrics: workers label their       *)
(* samples with names that come from the workloads, and the series of a    *)
(* metric must stay bounded. A name is a sequence of characters.           *)
(*                                                                         *)
(*   call[c]   the bound call of sample c: "idle", then the sanitized      *)
(*             value "waiting" for the lock, then the label it "returned"  *)
(*   seen      the map the lock protects                                   *)
(*   exported  the label values that have a series                         *)
(***************************************************************************)
EXTENDS Integers, Sequences, FiniteSets

CONSTANTS
  Samples,              \* the samples, each labelled once, concurrently
  Printable,            \* the characters that are printed as they are
  unknownLabel,
  overflowLabel,
  maxLabelCardinality,
  maxLabelValueLength

ASSUME LimiterAssumption ==
  /\ maxLabelCardinality \in Nat /\ maxLabelValueLength \in Nat \ {0}
  /\ unknownLabel # overflowLabel

VARIABLES call, seen, exported

limiterVars == <<call, seen, exported>>

LimiterInit ==
  /\ call = [c \in Samples |-> [pc |-> "idle", value |-> <<>>, label |-> <<>>]]
  /\ seen = {}
  /\ exported = {}

\* A name cut to its first bytes, with "_" for what is not printable.
sanitizeLabelValue(value) ==
  IF value = <<>> THEN unknownLabel
  ELSE [i \in 1..(IF Len(value) > maxLabelValueLength
                    THEN maxLabelValueLength ELSE Len(value)) |->
          IF value[i] \in Printable THEN value[i] ELSE "_"]

\* The call returns label, and the sample is added to its series.
Returns(c, value, label) ==
  /\ call' = [call EXCEPT ![c] = [pc |-> "returned", value |-> value, label |-> label]]
  /\ exported' = exported \cup {label}

\* bound(value), up to the lock.
Bound(c, value) ==
  LET clean == sanitizeLabelValue(value)
  IN  /\ call[c].pc = "idle"
      /\ IF clean = unknownLabel
           THEN Returns(c, clean, clean)
           ELSE /\ call' = [call EXCEPT ![c] =
                              [pc |-> "waiting", value |-> clean, label |-> <<>>]]
                /\ UNCHANGED exported
      /\ UNCHANGED seen

\* Variant: a full limiter no longer knows the names it admitted.
Locked_forgets(c) ==
  LET value == call[c].value
  IN  /\ call[c].pc = "waiting"
      /\ IF Cardinality(seen) >= maxLabelCardinality
           THEN Returns(c, value, overflowLabel) /\ UNCHANGED seen
           ELSE Returns(c, value, value) /\ seen' = seen \cup {value}

\* Variant: one name too many is admitted.
Locked_late(c) ==
  LET value == call[c].value
  IN  /\ call[c].pc = "waiting"
      /\ IF value \notin seen /\ Cardinality(seen) > maxLabelCardinality
           THEN Returns(c, value, overflowLabel) /\ UNCHANGED seen
           ELSE Returns(c, value, value) /\ seen' = seen \cup {value}

\* The critical section.
Locked(c) ==
  LET value == call[c].value
  IN  /\ call[c].pc = "waiting"
      /\ IF value \notin seen /\ Cardinality(seen) >= maxLabelCardinality
           THEN Returns(c, value, overflowLabel) /\ UNCHANGED seen
           ELSE Returns(c, value, value) /\ seen' = seen \cup {value}

-----------------------------------------------------------------------------

\* However many names the workloads make up, and however the workers interleave,
\* a metric has at most maxLabelCardinality series besides "unknown" and "other".
SeriesBounded ==
  /\ IsFiniteSet(exported)
  /\ Cardinality(exported \ {unknownLabel, overflowLabel}) <= maxLabelCardinality

\* A name that has a series of its own keeps it: no later sample under that name
\* is folded into "other", so a series once started stays complete.
NameIsKept ==
  [][\A c \in Samples :
       /\ call'[c].pc = "returned" /\ call[c].pc # "returned"
       /\ call'[c].value \in exported
       => call'[c].label = call'[c].value]_limiterVars
=============================================================================
