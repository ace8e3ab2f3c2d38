------------------------------- MODULE LogTail -------------------------------
(***************************************************************************)
(* tailFile: the last lines of a log file, read backwards in chunks.       *)
(*                                                                         *)
(* file is the file as it was when its size was taken, a sequence of bytes *)
(* of which only the newline matters; what is read of it, collected, is a  *)
(* sequence of positions in file, so that every byte can be told from      *)
(* every other.                                                            *)
(***************************************************************************)
EXTENDS LogLimits, LineOrder, FiniteSetsExt

CONSTANTS
  MaxFileSize,      \* bound on the files
  lines,            \* how many lines are asked for
  tailChunkSize

ASSUME TailAssumption ==
  /\ MaxFileSize \in Nat /\ lines \in Nat \ {0}
  /\ tailChunkSize \in Nat \ {0}

VARIABLES file, collected, remaining, read, lineCount, result, tailDone

tailVars == <<file, collected, remaining, read, lineCount, result, tailDone>>

Bytes == {"x", "nl"}

maxReadBytes == lines * maxLogLineBytes * 2 + tailChunkSize

TailInit ==
  /\ file \in UNION {[1..n -> Bytes] : n \in 0..MaxFileSize}
  /\ collected = <<>> /\ remaining = Len(file) /\ read = 0 /\ lineCount = 0
  /\ result = <<>> /\ tailDone = FALSE

\* Its locals are gone once tailFile has returned.
TailReturned ==
  /\ file' = <<>> /\ collected' = <<>> /\ remaining' = 0 /\ read' = 0 /\ lineCount' = 0
  /\ result' = <<>> /\ tailDone' = FALSE

\* Variant: the newline before the first wanted line is not looked for.
WantsMore_early == remaining > 0 /\ lineCount < lines /\ read < maxReadBytes

\* Variant: only the newlines end the scan.
WantsMore_uncapped == remaining > 0 /\ lineCount <= lines

WantsMore == remaining > 0 /\ lineCount <= lines /\ read < maxReadBytes

\* One chunk further back, in front of the ones read before: the chunks are kept in
\* the order they were read in and joined backwards once the scan is over.
ReadChunk ==
  LET readSize == IF tailChunkSize > remaining THEN remaining ELSE tailChunkSize
      offset == remaining - readSize
      chunk == [i \in 1..readSize |-> offset + i]
  IN  /\ ~tailDone /\ WantsMore
      /\ collected' = chunk \o collected
      /\ lineCount' = lineCount + Cardinality({i \in 1..readSize : file[chunk[i]] = "nl"})
      /\ remaining' = offset
      /\ read' = read + readSize
      /\ UNCHANGED <<file, result, tailDone>>

\* strings.Split at the newlines: a piece starts at the beginning and after every
\* newline, and goes on to the next newline.
Breaks(bytes) == {i \in 1..Len(bytes) : file[bytes[i]] = "nl"}

Piece(bytes, start) ==
  LET ends == {i \in Breaks(bytes) : i >= start} \cup {Len(bytes) + 1}
  IN  SubSeq(bytes, start, Min(ends) - 1)

Split(bytes) ==
  LET starts == InOrder({1} \cup {i + 1 : i \in Breaks(bytes)})
  IN  [k \in 1..Len(starts) |-> Piece(bytes, starts[k])]

\* Variant: the line the scan stopped in is kept.
AllLines_fragment ==
  LET pieces == Split(collected)
  IN  IF Last(pieces) = <<>> THEN Front(pieces) ELSE pieces

\* What was read, split, without the empty piece after a final newline
\* and without the line the scan may have stopped in.
AllLines ==
  LET pieces == Split(collected)
      whole == IF Last(pieces) = <<>> THEN Front(pieces) ELSE pieces
  IN  IF remaining > 0 /\ Len(whole) > 1 THEN Tail(whole) ELSE whole

LastLines(s) == IF Len(s) <= lines THEN s ELSE SubSeq(s, Len(s) - lines + 1, Len(s))

Return ==
  /\ ~tailDone /\ ~WantsMore
  /\ result' = IF file = <<>> THEN <<>> ELSE LastLines(AllLines)
  /\ tailDone' = TRUE
  /\ UNCHANGED <<file, collected, remaining, read, lineCount>>

TailNext == ReadChunk \/ Return

-----------------------------------------------------------------------------
\* The reference: the lines of the file, each with its positions.

LineFrom(s) == InOrder({p \in s..Len(file) : \A q \in s..p : file[q] # "nl"})

LineStarts == {s \in 1..Len(file) : s = 1 \/ file[s - 1] = "nl"}

Lines == [k \in 1..Cardinality(LineStarts) |-> LineFrom(InOrder(LineStarts)[k])]

\* Unless the read cap cuts the scan short, the result is exactly the last lines of
\* the file, wherever the newlines fall on the chunk boundaries (tailFile).
TailIsExact ==
  tailDone /\ (remaining = 0 \/ lineCount > lines \/ read < maxReadBytes) =>
    result = LastLines(Lines)

\* Even then nothing is made up: the result consists of whole lines from the end of
\* the file, or is the end of its last line (the leading fragment in tailFile).
TailIsGenuine ==
  tailDone =>
    \/ result = <<>> /\ file = <<>>
    \/ result \in Suffixes(LastLines(Lines)) /\ result # <<>>
    \/ Len(result) = 1 /\ result[1] \in Suffixes(Last(Lines))

\* A file without newlines costs no more than the cap and one chunk (maxReadBytes).
ReadIsBounded ==
  Len(collected) < maxReadBytes + tailChunkSize

=============================================================================
