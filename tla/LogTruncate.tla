----------------------------- MODULE LogTruncate -----------------------------
(***************************************************************************)
(* truncateLines: what is left of the captured lines so that the report    *)
(* fits the CRD's list limit and etcd's object limit.                      *)
(*                                                                         *)
(* sizes[i] is the length in bytes of captured line i, oldest first. An    *)
(* output entry is [line, size]; line 0 is the truncation marker.          *)
(***************************************************************************)
EXTENDS LogLimits, LineOrder

CONSTANTS
  MaxSize,             \* bound on the length of a line
  MaxLogLines,
  maxLogTotalBytes,
  Marker               \* len(truncationMarker)

ASSUME TruncateAssumption ==
  /\ MaxSize \in Nat /\ MaxLogLines \in Nat \ {0}
  /\ maxLogTotalBytes \in Nat /\ Marker \in 0..maxLogTotalBytes

VARIABLES sizes, nextLine, out, total, truncateDone

truncateVars == <<sizes, nextLine, out, total, truncateDone>>

MarkerEntry == [line |-> 0, size |-> Marker]

\* More lines than the CRD allows: one entry is given to the marker in front.
Dropped == Len(sizes) > MaxLogLines

\* Variant: no entry is set aside for the marker.
FirstKept_noRoom == IF Dropped THEN Len(sizes) - MaxLogLines + 1 ELSE 1

FirstKept == IF Dropped THEN Len(sizes) - (MaxLogLines - 1) + 1 ELSE 1

TruncateInit ==
  /\ sizes = <<>> /\ nextLine = 1
  /\ out = <<>> /\ total = 0 /\ truncateDone = FALSE

\* truncateLines is called with n lines, of any lengths.
Truncate(n) ==
  /\ sizes' \in [1..n -> 0..MaxSize]
  /\ nextLine' = FirstKept'
  /\ out' = <<>> /\ total' = 0 /\ truncateDone' = FALSE

\* What is left of its locals when it has returned.
TruncateReturned ==
  /\ sizes' = <<>> /\ nextLine' = 1
  /\ out' = <<>> /\ total' = 0 /\ truncateDone' = FALSE

budget == IF Dropped THEN maxLogTotalBytes - Marker ELSE maxLogTotalBytes

\* The line as it would be stored: an over-long one is marked, and cut at the last byte
\* within the limit that may start a rune. In a line that is not UTF-8 that can be
\* anywhere.
Shortened(size) ==
  IF size <= maxLogLineBytes THEN {size}
  ELSE {n + Marker : n \in 0..maxLogLineBytes}

KeepLine ==
  /\ ~truncateDone /\ nextLine <= Len(sizes)
  /\ \E size \in Shortened(sizes[nextLine]) :
       /\ total + size <= budget
       /\ out' = Append(out, [line |-> nextLine, size |-> size])
       /\ total' = total + size
  /\ nextLine' = nextLine + 1
  /\ UNCHANGED <<sizes, truncateDone>>

Finish(entries) ==
  /\ out' = (IF Dropped THEN <<MarkerEntry>> ELSE <<>>) \o entries
  /\ truncateDone' = TRUE
  /\ UNCHANGED <<sizes, nextLine, total>>

\* Variant: the rest is left out without a marker.
CutOff_silent ==
  /\ ~truncateDone /\ nextLine <= Len(sizes)
  /\ \E size \in Shortened(sizes[nextLine]) : total + size > budget
  /\ Finish(out)

\* The budget is used up: the rest is replaced by a marker.
CutOff ==
  /\ ~truncateDone /\ nextLine <= Len(sizes)
  /\ \E size \in Shortened(sizes[nextLine]) : total + size > budget
  /\ Finish(Append(out, MarkerEntry))

AllKept == ~truncateDone /\ nextLine > Len(sizes) /\ Finish(out)

TruncateNext == KeepLine \/ CutOff \/ AllKept

-----------------------------------------------------------------------------

\* The bytes of the entries, each with the entry it is of.
EntryBytes(entries) == UNION { {i} \X (1..entries[i].size) : i \in 1..Len(entries) }

\* The status write cannot be refused for the log lines: the entries fit the CRD's
\* list limit with the markers included, and their bytes exceed the cap by no more
\* than the last marker (truncateLines; the tests allow that marker).
FitsTheLimits ==
  truncateDone =>
    /\ Len(out) <= MaxLogLines
    /\ Cardinality(EntryBytes(out)) <= maxLogTotalBytes + Marker

\* Nothing is dropped silently: lines that are missing at either end are announced
\* by a marker at that end, and none is missing in between (truncateLines).
OmissionsAreMarked ==
  truncateDone /\ sizes # <<>> =>
    /\ out # <<>> /\ out[1].line \in {0, 1} /\ Last(out).line \in {0, Len(sizes)}
    /\ \A i \in 2..(Len(out) - 1) : out[i].line # 0
    /\ \A i \in 1..(Len(out) - 1) :
         out[i].line # 0 /\ out[i + 1].line # 0 => out[i + 1].line = out[i].line + 1

\* The comment says the tail is kept, the lines closest to the kill.
KeepsTheTail ==
  truncateDone /\ sizes # <<>> => Last(out).line = Len(sizes)

=============================================================================
