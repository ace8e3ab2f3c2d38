----------------------------- MODULE LogFraming -----------------------------
(***************************************************************************)
(* parseLogLines: the runtime's framing is taken off the raw lines, and    *)
(* lines the runtime split are put together again, stream by stream.       *)
(*                                                                         *)
(* A raw line is what parseDockerLogLine and parseCRILogLine make of it: a *)
(* stream and whether it is partial. Docker entries and lines in an        *)
(* unknown format have no stream. A message is the index of its raw line,  *)
(* so a completed line is a sequence of indices.                           *)
(***************************************************************************)
EXTENDS LineOrder

VARIABLES raw, nextRaw, partials, parsed, framingDone

framingVars == <<raw, nextRaw, partials, parsed, framingDone>>

Streams == {"stdout", "stderr"}

unframed == "unframed"

RawLines ==
  [stream : Streams, partial : BOOLEAN] \cup [stream : {unframed}, partial : {FALSE}]

\* An empty sequence in partials stands for no open partial.
NoPartials == [s \in Streams \cup {unframed} |-> <<>>]

FramingInit ==
  /\ raw = <<>> /\ nextRaw = 1 /\ partials = NoPartials
  /\ parsed = <<>> /\ framingDone = FALSE

\* parseLogLines is called with n lines, whatever they are.
Parse(n) ==
  /\ raw' \in [1..n -> RawLines]
  /\ nextRaw' = 1 /\ partials' = NoPartials
  /\ parsed' = <<>> /\ framingDone' = FALSE

Reading == nextRaw <= Len(raw)

Stream == raw[nextRaw].stream

\* Variant: one buffer for all streams.
Hold_shared ==
  /\ Reading /\ raw[nextRaw].partial
  /\ partials' = [s \in DOMAIN partials |-> Append(partials[s], nextRaw)]
  /\ nextRaw' = nextRaw + 1
  /\ UNCHANGED <<raw, parsed, framingDone>>

\* A partial line is kept back.
Hold ==
  /\ Reading /\ raw[nextRaw].partial
  /\ partials' = [partials EXCEPT ![Stream] = Append(@, nextRaw)]
  /\ nextRaw' = nextRaw + 1
  /\ UNCHANGED <<raw, parsed, framingDone>>

\* flush: a full line completes the partial open on its stream, if any.
Flush ==
  /\ Reading /\ ~raw[nextRaw].partial
  /\ parsed' = Append(parsed, Append(partials[Stream], nextRaw))
  /\ partials' = [partials EXCEPT ![Stream] = <<>>]
  /\ nextRaw' = nextRaw + 1
  /\ UNCHANGED <<raw, framingDone>>

Open(stream) == IF partials[stream] = <<>> THEN <<>> ELSE <<partials[stream]>>

\* Variant: a line without its end is dropped.
EmitOpen_drops ==
  /\ ~Reading /\ ~framingDone
  /\ framingDone' = TRUE
  /\ UNCHANGED <<raw, nextRaw, partials, parsed>>

\* What is still open at the end is emitted as it is, in the order of the stream names.
EmitOpen ==
  /\ ~Reading /\ ~framingDone
  /\ parsed' = parsed \o Open("stderr") \o Open("stdout")
  /\ framingDone' = TRUE
  /\ UNCHANGED <<raw, nextRaw, partials>>

FramingNext == Hold \/ Flush \/ EmitOpen

-----------------------------------------------------------------------------
\* The reference: raw line i belongs to the line that the next full line of its
\* stream completes.

Before(i, j) ==
  /\ i <= j /\ raw[i].stream = raw[j].stream
  /\ \A k \in i..(j - 1) : raw[k].stream = raw[i].stream => raw[k].partial

LineOf(j) == InOrder({i \in 1..j : Before(i, j)})

\* Every message comes parsed exactly once: no interleaving of the streams loses,
\* repeats or splices one, not even when the container dies in the middle of a line
\* (parseLogLines).
NothingLost ==
  framingDone =>
    /\ \A i \in 1..Len(raw) : \E l \in 1..Len(parsed) : Contains(parsed[l], i)
    /\ \A l, m \in 1..Len(parsed) : \A i \in 1..Len(parsed[l]), j \in 1..Len(parsed[m]) :
         /\ parsed[l][i] \in 1..Len(raw)
         /\ parsed[l][i] = parsed[m][j] => l = m /\ i = j

\* A line is put together from one stream only, in order and complete, and lines
\* come parsed in the order in which they were completed (flush).
NoSplice ==
  \A l \in 1..Len(parsed) :
    /\ parsed[l] = LineOf(Last(parsed[l]))
    /\ l > 1 /\ ~raw[Last(parsed[l])].partial => Last(parsed[l - 1]) < Last(parsed[l])

=============================================================================
