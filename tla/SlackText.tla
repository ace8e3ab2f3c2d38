------------------------------ MODULE SlackText ------------------------------
(***************************************************************************)
(* The log block of a Slack message, which Slack refuses as a whole when   *)
(* it is too long: escapeSlackText and slackLogBlock in Send.              *)
(*                                                                         *)
(* text is the joined log lines, by the kind of each character: "plain",   *)
(* "markup" (escaped to five bytes), "wide" (three bytes) or "newline".    *)
(* A byte is [char, start, newline]: the character it is of, whether a     *)
(* rune starts with it, and whether it is a line break.                    *)
(***************************************************************************)
EXTENDS Integers, Sequences, FiniteSetsExt

CONSTANTS
  MaxText,               \* bound on the characters of the log lines
  Fields,                \* the lengths the rest of the message may have, fence included
  slackMaxTextBytes,
  slackTruncationMarker  \* its length

ASSUME SlackAssumption ==
  /\ MaxText \in Nat /\ slackMaxTextBytes \in Nat /\ slackTruncationMarker \in Nat
  /\ Fields \subseteq Nat

VARIABLES text, fields, block, slackDone

slackVars == <<text, fields, block, slackDone>>

NoBlock == [marked |-> FALSE, bytes |-> <<>>]

SlackInit == text = <<>> /\ fields = 0 /\ block = NoBlock /\ slackDone = FALSE

\* Send is called for a report with n log lines, which hold any characters.
Send(n) ==
  /\ text' \in UNION { [1..m -> {"plain", "markup", "wide", "newline"}] : m \in 0..MaxText }
  /\ Cardinality({i \in 1..Len(text') : text'[i] = "newline"}) = n - 1
  /\ fields' \in Fields
  /\ block' = NoBlock /\ slackDone' = FALSE

Width(c) == CASE c = "markup" -> 5 [] c = "wide" -> 3 [] OTHER -> 1

\* The bytes of the first n characters, escaped: <<i, j>> is the j-th of character i.
CharBytes(t, n) == UNION { {i} \X (1..Width(t[i])) : i \in 1..n }

\* The index at which a byte stands.
Index(t, b) == Cardinality(CharBytes(t, b[1] - 1)) + b[2]

\* The bytes of the text, escaped.
escapeSlackText(t) ==
  [k \in 1..Cardinality(CharBytes(t, Len(t))) |->
     LET b == CHOOSE b \in CharBytes(t, Len(t)) : Index(t, b) = k
     IN  [char |-> b[1], start |-> t[b[1]] # "wide" \/ b[2] = 1, newline |-> t[b[1]] = "newline"]]

\* Variant: the cut is not moved to the start of a rune.
RuneBoundary_skipped(bytes, cut) == cut

\* The walk from a cut to the next byte that starts a rune.
RuneBoundary(bytes, cut) ==
  CHOOSE i \in cut..(Len(bytes) + 1) :
    /\ i > Len(bytes) \/ bytes[i].start
    /\ \A j \in cut..(i - 1) : ~bytes[j].start

\* What follows the first line break, unless nothing does.
FromNextLine(bytes) ==
  LET breaks == {i \in 1..Len(bytes) : bytes[i].newline}
  IN  IF breaks # {} /\ Min(breaks) < Len(bytes)
        THEN SubSeq(bytes, Min(breaks) + 1, Len(bytes)) ELSE bytes

\* Variant: the marker is not counted.
slackLogBlock_overlong(escaped, room) ==
  IF room <= slackTruncationMarker THEN NoBlock
  ELSE IF Len(escaped) <= room THEN [marked |-> FALSE, bytes |-> escaped]
  ELSE LET cut == RuneBoundary(escaped, Len(escaped) - room + 1)
       IN  [marked |-> TRUE, bytes |-> FromNextLine(SubSeq(escaped, cut, Len(escaped)))]

slackLogBlock(escaped, room) ==
  IF room <= slackTruncationMarker THEN NoBlock
  ELSE IF Len(escaped) <= room THEN [marked |-> FALSE, bytes |-> escaped]
  ELSE LET keep == room - slackTruncationMarker
           cut == RuneBoundary(escaped, Len(escaped) - keep + 1)
       IN  [marked |-> TRUE, bytes |-> FromNextLine(SubSeq(escaped, cut, Len(escaped)))]

\* The end of Send's Slack branch.
Compose ==
  /\ ~slackDone
  /\ block' = slackLogBlock(escapeSlackText(text), slackMaxTextBytes - fields)
  /\ slackDone' = TRUE
  /\ UNCHANGED <<text, fields>>

-----------------------------------------------------------------------------

BlockBytes == Len(block.bytes) + (IF block.marked THEN slackTruncationMarker ELSE 0)

\* The log lines never cost the message: with the block, escaped and marked, it is
\* within Slack's limit, however the lines expand when they are escaped (Send and
\* slackLogBlock).
SlackFits ==
  slackDone /\ block # NoBlock => fields + BlockBytes <= slackMaxTextBytes

\* A block that had to be cut is marked and keeps the end of the log: whole
\* runes, from the start of a line if a line starts in what could be kept, and
\* as many lines as fit, but for one. A log that fits is left alone (slackLogBlock).
SlackKeepsTheEnd ==
  slackDone =>
    LET escaped == escapeSlackText(text)
        room == slackMaxTextBytes - fields
        kept == Len(block.bytes)
        first == Len(escaped) - kept + 1
        starts == {i \in 2..Len(escaped) : escaped[i - 1].newline}
        could == {i \in starts : i >= Len(escaped) - (room - slackTruncationMarker) + 2}
    IN  /\ block.bytes = SubSeq(escaped, first, Len(escaped))
        /\ Len(escaped) <= room /\ room > slackTruncationMarker =>
             kept = Len(escaped) /\ ~block.marked
        /\ block.marked =>
             /\ kept > 0 => escaped[first].start
             /\ could # {} => first \in could /\ \A i \in could : first <= i
=============================================================================
