# kube-autopsy in TLA+

kube-autopsy is an agent on every node that turns OOM kills into
`PodCrashReport` objects, and a controller that notifies about each report,
marks it and eventually deletes it. This directory holds TLA+ models of the two
programs, TLC configurations that check them on small instances, and TLAPS proofs
of the safety properties for every value of the constants.
`PROJECT.json` is the index: it maps each definition to its source lines and lists
the runs, the hazards and the theorems.

## The system and its parts

| Part | Source (under `src/`) | Model |
| --- | --- | --- |
| eBPF probe | `internal/agent/bpf/oom.c` | `OomProbe`; in `AgentPipeline` only whether it gets a slot |
| agent pipeline: reader, cooldown, workers, drain | `internal/agent/agent.go`, `tracer.go` | `AgentPipeline` |
| pod resolution | `internal/agent/reporter.go` | `PodResolution` |
| choice of the log file, capture retries | `internal/agent/logcapture.go` | `PodResolution` |
| reading, parsing and limiting a log tail | `internal/agent/logcapture.go` | `LogTail`, `LogFraming`, `LogTruncate`, `LogCapture` |
| report writer | `internal/agent/reporter.go` | `Reporter` |
| report object, API server, informer | `api/v1alpha1/types.go` | `ReportStore` |
| reconciler and webhook | `internal/controller/reconciler.go`, `webhook.go` | `Reconciler` |
| log block of a Slack message | `internal/controller/webhook.go` | `SlackText` |
| label limiter | `internal/controller/metrics.go` | `LabelLimiter`, `CrashFigures` |
| configuration | `internal/config/config.go`, `cmd/kube-autopsy/main.go` | `Config` |
| garbage collector | `internal/controller/gc.go` | `GarbageCollector` |
| processes, signals, restarts | `cmd/kube-autopsy/main.go` | `AgentPipeline`, `Reconciler`, `KubeAutopsy` |
| what a user is promised about a report | the above | `CrashAlert` |
| names and labels, symlink checks, generated code, version | | not modelled |

The kernel puts kills in a ring buffer. The agent's reader takes them out, drops
repeats within the cooldown and starts a worker for each of the others, at most
`MaxConcurrentReports` at a time. A worker looks the container up in a pod cache,
reads the end of its log, creates a report and then attaches the diagnostics in a
second, locked write. The controller sees reports through a watch and a cache. It
waits for the diagnostics, sends the webhook, marks the report Processed and emits
an event, in that order. Inside the same process the collector deletes old reports
and those over a cap.

## The modules

**ReportStore** is the API server's copy of each report, the watch, the cache and
the clock. A stored object keeps the fields the protocol depends on: existence,
resourceVersion, phase, how complete the diagnostics are, notifiedAt, creation time.
The phase that Go writes as the empty string is `"unset"`. The API server and the
informer are external; they are modelled from how the two programs use them: status
is a subresource, a patch with the optimistic lock fails on another version, a merge
patch changes only the fields it carries, a watch delivers the versions of one
object in order and late.

**Reporter** is `CreateCrashReport`. Every request may fail, or take effect and lose
its answer. **Reconciler** is `Reconcile`, cut where another process can act: after
reading the cache, after the uncached read, after the webhook, after the patch.
Stopping the controller loses the queue, the cache and every reconcile under way. The
next process to hold the lease may have been set up long before, as a standby or waiting
for the lease, and `startedAt` is the time of its set-up: `ControllerStarts` lets it be
any earlier time.
**ReportLifecycle** composes the two and states the properties. **CrashAlert** is the
abstract specification. **GarbageCollector** is one retention pass, delete by delete;
**KubeAutopsy** adds it to ReportLifecycle.

**AgentPipeline** is `Agent.Run`, with one action per step of each goroutine. The
deferred calls of `Run` are one action: nothing observable happens between them.
**PodResolution** is one worker's lookup and capture against a kubelet that starts,
restarts and removes containers, and against a cache that is late or frozen. The cache
may not have the pod yet, or have it without container statuses; a status may lack the ID
of a running container and may still carry the restart count 0 (`StatusesOf`).

**LogTail**, **LogFraming** and **LogTruncate** are `tailFile`, `parseLogLines` and
`truncateLines`, and **LogCapture** calls one after the other as `CaptureLogTail` does.
Bytes and messages are positions in the input, so the results can be compared with a
reference definition of what they should be; **LineOrder** puts such positions in order.
**SlackText** is `escapeSlackText` and
`slackLogBlock` as `Send` calls them: LogCapture hands it a text of as many lines as the
capture returned, with any characters in them.

**OomProbe** follows the figures of a kill. `kprobe__oom_kill_process` fills a slot of a
ring that still holds the bytes of an earlier record, reading what the victim's pointers
allow and one of three layouts of `mm_struct`; the reader converts the record, and
`CreateCrashReport` decides what is published. Figures are machine words and wrap. The
probe's early return, when no victim was chosen, is a stutter. **LabelLimiter** is
`labelLimiter.bound` cut at its lock, and **CrashFigures** connects the two: the
reconciler labels a sample with the command a report carries. The limiter of container
names is another instance of the same code.

**Config** is `loadConfig`: defaults, environment, flags, the detour of the webhook URL
(which is not a flag's default, so that `-h` does not print it) and `Validate`. What a
text parses to is external: a text has a value or does not parse.

Definitions named `X_suffix` with a comment that begins with *Variant* are plausible
mistakes in the code that `X` models. No specification uses them. `PROJECT.json`
pairs each with a property that fails when `X` is replaced by it.

## The runs

Runs that pass:

| Run | Question |
| --- | --- |
| `one_report` | Do the agent's writes, the cache, the workers, lost answers, a crash of either process and a deletion ever break the safety of a report; is every report settled, and a deleted one forgotten; does the protocol implement `CrashAlert`, liveness included? |
| `retention` | Does a pass enforce the age and the cap, over stale lists, failures, lost answers and equal timestamps, without deleting too much? |
| `system` | Is every report deleted in the end, over stale lists, failed deletes and a change of the leader in the middle of a pass? |
| `pipeline` | Are slots, wait group, cooldown and drain right in every interleaving? |
| `agent_live` | Does a signal end the process even if the reader and the workers hang, and if they do not, is every buffered kill settled? |
| `resolution` | Is a report about the incarnation that was killed, and is the log its own? |
| `log_capture` | Do the log algorithms and the Slack block agree with their references on every bounded input? |
| `figures` | Is what a report says of a kill what the kernel knew of it, and do the labels made of it stay bounded and keep their series? |
| `startup` | Has a process that starts a usable configuration, and the one that was asked for? |

Runs that violate a sentence of the documentation or of a comment (the findings in
`PROJECT.json` quote each sentence):

| Run | What the code does |
| --- | --- |
| `lost_event` | A crash, or a lost answer, between the mark and the event means the event is never emitted. |
| `final_answer` | A container killed before its pod, or after a restart its new status, reaches the cache is discarded as nobody's, without a retry. |
| `newest_dropped` | When the byte budget runs out, the lines nearest the kill are dropped. |

The models also show smaller differences between words and code, for which no run is
kept:

- a status write that took effect and lost its answer is counted as an orphan, though
  its diagnostics are there (`reporter.go:193`, `agent/metrics.go:90`);
- a reconcile that reads a stale cache delivers again after `notifiedAt` was recorded
  (`api/v1alpha1/types.go:84`);
- after a restart, retries go on past ten minutes from creation
  (`docs/configuration.md:93`; the comment on `webhookDeadline` explains why), and a
  report is always attempted once (`reconciler.go:265` speaks of ones that are not);
- a process that waited for the lease may have used up its retry window before it leads,
  and then drops a backlog at the first failed delivery, which the comment on
  `webhookDeadline` means to prevent (`reconciler.go:253`, `reconciler.go:219`);
- a message that the receiver accepted after the client's timeout counts as failed: it is
  sent again, or recorded as dropped although it arrived (`webhook.go:170`);
- while the restart count of a status is old, the log of another incarnation may be
  attached: an unknown index means the newest file (`reporter.go:78`,
  `logcapture.go:314`), though the comments there warn of the replacement's log;
- the last marker may exceed the byte limit of the log, which the documentation gives as
  64KiB flat (`docs/configuration.md:11`);
- a delete whose answer is lost is not counted as a trim (`docs/configuration.md:74`);
- readiness stays up during the drain, with the ring closed (`agent.go:147`);
- a kill is suppressed as a repeat of one whose report failed (`docs/configuration.md:12`);
- a lookup cut short by the shutdown is counted under `no_pod` (`agent/metrics.go:82`);
- a victim without an mm on a supported kernel is counted as an unrecognised layout
  (`agent/metrics.go:75`, `docs/troubleshooting.md:36`);
- a Slack block may open inside an escaped character or, where no line break follows,
  inside a line (`webhook.go:207`);
- `Send` returns the errors its comment says it does not (`webhook.go:78`);
- `MaxReports` has a flag and no environment variable (`docs/configuration.md:3`);
- the cooldown has no upper bound, so its product with a second can wrap
  (`config.go:337`).

### Bounds

Reports are independent of each other except for the worker pool and the collector,
so the lifecycle runs have one report and the proofs cover any number. `retention`
has four reports and a cap of two, so a pass can expire some, trim more than one and
keep several. One failed patch and one restart of the controller can fall between any
two steps; `LastStart` and `MaxTime` are such that every deadline is passed within the
run. `pipeline` has one slot, a ring of two and two containers with two kills each:
the reader blocks on the slot, the ring overflows, and the cooldown of one container
is evaluated while the other's entry ages. `resolution` has one pod with
four incarnations, so a status can have forgotten the victim, and an old restart count can
name a file that is not the newest either; the proofs cover any number of pods. `log_capture` enumerates every input up to the
bound, with files of up to fourteen bytes, a read cap shorter than that and no multiple of
the chunk, and more lines than `MaxLogLines`; the Slack
texts have up to five characters of every width, and the rest of the message leaves a
budget on both sides of the marker's length. `figures` has three kills and a ring of one
slot, so every record after the first is written over an old one, counters that stray one page
either way from zero and from more, victims whose counters differ, and a limiter with room for one name, where the
names include an empty one, one that is cut to another and the literal `other`.
`startup` sets at most one variable and one flag (`MaxGiven`), each to any text, with 16-bit durations and an hour of
a hundred units: the largest admitted TTL fits, and the next texts wrap.

`CHECK_DEADLOCK FALSE` is set throughout, because every model really ends: the clock
stops, the process exits, or the algorithm returns.

### Fairness

`one_report` assumes that the controller process is restarted and its goroutines and the
informer run, and that time passes. It assumes nothing of the agent, which may die, or
of the webhook, which may never answer. Failed status patches of the controller are
bounded by `MaxFaults`: a server that refuses them for ever leaves reports open, and
the code intends that. `agent_live` assumes only the main goroutine and the drain
timer; `BufferedIsSettled` says under which further assumption it holds: the reader and
the workers run, and a worker's calls return, because its retries are bounded. `system`
assumes that a controller is started again, the informer runs, time passes and the loop in
the collector's `Start` goes on (weak fairness), and that a delete tried in pass after pass
does not fail every time (strong fairness): a server that refuses every delete keeps its
reports, whatever the collector does.

## The proofs

Every safety property of the passing runs is proved: each invariant, each action property
and the safety part of the refinement. The proofs hold for any number of reports,
workers, pods, containers, kills, log lines and bytes, and any bounds and periods. They
assume only what the `ASSUME`s of the modules state: the constants are numbers, Booleans
or finite sets, there is at least one attempt, slot, worker, wanted line and byte of a
chunk, a truncation marker is no longer than the bytes it has to fit into, the clock can pass
every deadline and, in `KubeAutopsy`, every expiry, the memory of a kill is less than half a machine word (a positive int64 in
Go), and in `Config` the largest TTL fits into a duration and every setting has a default.

No step of a proof is an induction over data. Where an algorithm loops, the loop is a
sequence of actions and its invariant says what has been done so far; the reference
definitions are stated with finite sets and their cardinality, and the lemmas about these
(that the members of a set can be listed in order, that the upper part of a set is listed
as the end of the list) come from the theorems on finite sets.

| Module | What it proves |
| --- | --- |
| `ReportLifecycleProofs` | reports: types, the safety properties, the refinement of `CrashAlert` |
| `RetentionProofs` | the collector, alone and inside the system; the configuration |
| `PodResolutionProofs` | whose container and whose log a report is about |
| `AgentPipelineProofs` | slots, wait group, cooldown, drain, types |
| `LogTailProofs` | `tailFile` |
| `LogFramingProofs` | `parseLogLines` |
| `LogCaptureProofs` | `truncateLines`, the Slack block |
| `CrashFiguresProofs` | the figures of a report, the label limiter |

### Reports

The properties are not inductive. That a report marked inside the grace period has
its diagnostics, for instance, depends on the version a worker holds, which came from the cache,
which came from the watch. `LifecycleInv` therefore says of every report

- `VersionsSound`: every version that the server, the watch or the cache holds agrees
  with the server on the creation time, has notifiedAt only if the receiver was told,
  and inside the grace period has a phase only if the diagnostics have landed;
- `LockSound`: the agent's patch is locked on version 1, and version 1 has no status,
  so a patch that gets through undoes nobody's write;
- `WorkSound`: what a reconcile under way may rely on at each of its steps;
- `OutcomeSound`: a processed report is accounted for, an event follows a mark.

Each action has a lemma that it keeps `ReportSound` of the report it touches; `Untouched`
covers the other reports. `LifecycleSafe` combines them, and the invariants and the
action properties follow from it. `LifecycleImplementsAlert` shows that every step
maps to a step of `CrashAlert` or to a stutter.

### Retention

`RetentionProofs` shows that the complete system is a ReportLifecycle
(`SystemIsLifecycle`), so what is proved of reports holds next to the collector. For a
pass of its own, the two properties speak of its end; `RetentionInv` says what holds
after each delete. `CountInv`: the allowance left is the allowance at the start less the
live reports passed so far, and passed reports are older than the ones to come.
`KeepInv`: as long as there is allowance left every live report passed is gone, and a
trimmed report is no newer than one that was kept. The rest is counting: a report that
somebody else deleted has used up one of the allowance too, which is why the pass
neither stops short of the cap nor goes below it.

### Pod resolution

A cached status is one the kubelet could publish of an earlier state of its pod, never of a
later one and never of another pod (`SeenInv`). Container IDs are not reused, so an ID found
in a status, or its predecessor, determines the pod and the incarnation. The log file is
named by the restart count, so `NamesTheVictim` and `LogIsTheVictims` hold of lookups whose
status had the right count (`StatusFacts`, `IndexIsVictims`); `CountBehind` says which had
not. `JobInv` carries this through the steps of the worker. `FirstKillIsFound` is about a
step: while the cache has a status of a pod whose first container was killed and that has
neither been removed nor restarted twice, that status holds the ID or makes the lookup wait
for one, so no attempt ends it as nobody's.

### Agent pipeline

`PipelineInv` puts three arguments together.

- Where each kill is (`FateInv`): in the ring once, or with the reader, or with its own
  worker; kills of one container are decided in the order in which they happened.
- The cooldown (`CoolInv`): an admitted kill is remembered, or a window old by the time
  of the next decision. So forgetting an entry never admits a kill too soon, and an entry
  never suppresses one that is no repeat.
- Counting (`CountsInv`, `DrainInv`): slots and wait group are the numbers of workers in
  the steps between taking and giving back, and once the group is waited for the reader has stopped
  or the drain is over. Nothing is added to a group being waited for, and a return
  without the timeout leaves no worker behind.

`PipelineIsTyped` adds the clock, the flags and the control state of each goroutine.

### Reading a log

`TailInv` says that what the scan has collected is the end of the file from `remaining` on,
with as many newlines as were counted. Everything else is about the reference. The pieces
that `strings.Split` makes of the end of a file are the lines that start there
(`SplitIsLines`), the first perhaps without its beginning; without that one they are the
last lines of the file (`LaterLinesAreEnd`, an instance of `InOrderCut`). A scan that
stopped because it had counted a newline more than the lines wanted has read enough of
them (`LaterLinesCounted`), one that read the whole file has read them all. If the cap
stopped it before the first newline, what remains is the end of the last line
(`FragmentIsEnd`).

### Parsing and limiting it

`FramingInv`: the partials of a stream are the raw lines that no full line of that stream
has followed yet, and what is parsed so far is, for each full line read, the line it
completes. Two full lines complete disjoint sets of raw lines, the open ones are disjoint
from all of these, and together they are everything: that gives `NothingLost`; that each
set is of one stream and is listed in order gives `NoSplice`.

`TruncateInv`: while the loop runs, its output is an unbroken run of lines from the first
one that can be kept, its bytes are the running total and within the budget; at the end
the same run stands between its markers. The limits follow by counting bytes
(`BytesAppended`, `BytesPrepended`).

### The Slack block

Escaping is modelled by the place of each byte, so the proof first shows that the places
of the bytes are exactly 1 to their number (`EveryIndexHasAByte`, from the injection theorem on
finite sets), and from that, that the byte after a line break starts a rune
(`EscapedBytes`). The cut then falls on a rune (`RuneBoundaryIs`) or behind a line break,
and no line break that could have been found lies before it (`BlockIsCut`).

### Figures

`FiguresInv`: whatever a slot of the ring holds is the record of a kill that happened,
made from a zeroed record whatever the slot held before, and the event and the report of
a kill are made from its own record. `PublishedIsTrue` then is arithmetic on words: a
counter that strayed below zero is published as zero, and nothing else wraps because the
memory of a machine fits into an int64.

### Label limiter and configuration

`LimiterInv`: the map is within the cap, and every series is in it or is one of the two
labels that need no admission. A label once returned for a name of its own stays that
name's. `ConfigInv` says for each step of `loadConfig` which source every setting has
come from so far; that an accepted TTL survives the multiplication follows from the
bound of `Validate` and arithmetic on the width.

### Only model-checked

All liveness (`EventuallySettled`, `DeletedIsForgotten`, `EverythingExpires`, `ShutdownEnds`,
`BufferedIsSettled`), and so the
fairness part of `ImplementsCrashAlert`, because fairness is out of the prover's reach.

## Not modelled

- The wording of events, webhooks and log messages, and the redaction of URLs in them.
- `reportNamePrefix`, `labelValue` and `sanitizeName`: string functions of one call each,
  which the unit tests cover.
- Symlink and file-type checks and the other file-system calls of the capture, and a log
  that shrinks while `tailFile` reads it (a short read with `io.EOF`, `logcapture.go:453`).
- The subcommand switch, the logger, the wiring of servers and managers, and the registration of
  metrics.
- Version strings, the generated eBPF loader and deep copies, and the manifests.
  `vmlinux.h` is a generated header of kernel types and holds no code.

Hazards in `PROJECT.json` that no property covers have a note that says why. The first
one to take up would be the pool of workers with several reports (that a dead webhook
delays other reports and does not starve them).
