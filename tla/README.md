# Verification of observant-agent

`observant-agent` runs on a host, reads host and container metrics once per
interval, encodes them as line protocol and pushes one batch per cycle to an
ingest server. This directory holds TLA+ models of the parts of the program
that decide what happens to a batch from its first sample to the server, to a stuck
system call, to a dead mount and to a container that moves while it is read; the TLC runs that check them on
small instances; and TLAPS proofs of the properties that matter most, for every
value of the constants. `PROJECT.json` maps every definition to the lines of
the source it stands for.

Run things inside this directory:

    tlc -workers 2 -config MCPusher.cfg MCPusher
    tlapm PusherProofs.tla

## 1. The system

| Component | Source | State it keeps | Operations | Model |
| --- | --- | --- | --- | --- |
| Pusher | `internal/push/push.go` | buffer of at most 4 batches, counters | `Send`, `SendOnce`, `Flush`, `Stats`, `Pending` | `Pusher`, `Outbox` |
| Agent loop and stop | `cmd/observant-agent/main.go` | the phase of the main goroutine, the signal context, the ticker | `prime`, `loop`, `cycle`, `shutdown` | `Agent` |
| Start, modes, socket watch | `cmd/observant-agent/main.go`, `internal/docker/docker.go` | settings, client or none, count of cycles, text and time of the last report | `run`, `startDocker`, `Detect`, `probe`, `redetectDocker`, `logDockerFailure`, `once`, `selfCheck` | `DockerWatch` |
| Configuration | `internal/config/config.go` | none | `Parse`, `Validate` | `Config` |
| Deadline guard | `internal/collect/collect.go` | flag per name, goroutines and channels of calls under way | `deadline`, `begin`, `end` | `Deadline` |
| Mounts and their reads | `internal/collect/collect.go` | mounts reported, timeouts counted, reads still hanging | `collectDisks` | `Mounts`, `DiskReads` |
| Host collectors and batch | `internal/collect/collect.go` | CPU sample, time of the last report of each collector | `Prime`, `Collect`, `note`, `collectCPU`, `Encode` | `Batch` |
| Line protocol encoder | `internal/lineproto/lineproto.go` | one buffer, the base tags | `New`, `Reset`, `Point` | `LineProto` |
| Container client | `internal/docker/docker.go` | kept CPU samples, kept restart counts, cycle number | `Collect` and everything it calls | `DockerClient` |
| Container statistics | `internal/docker/docker.go` | one CPU sample per container | `stats` | `ContainerStats` |
| Build, install and CI | shell scripts, `.github` | none | building, installing | not modelled |

How they interact. `run` reads the settings, looks for a container socket and
enters one of three modes. In the loop the main goroutine does everything in
sequence: it collects (the guard of `Deadline` around every host call, the
goroutines of `DockerClient` for the containers), encodes, and calls `Send`. A
signal cancels the context from which the contexts of the collectors and of
`Send` descend; the stop runs under a context of its own. Concurrency comes from
the goroutine of each guarded call, which outlives the call when the system call
hangs, from one goroutine per container, and from the surroundings: the server
acts on requests the agent gave up, containers move between a list and a call,
the signal and the clock strike at any step.

What makes each part hard, and what makes it correct:

- *Pusher.* Five assignments in three functions move a batch; a transport error
  does not say whether the server stored it; the flush, the attempts and the
  waits share a deadline and race the signal. Correct means: no batch is lost
  silently or kept twice, what is counted is what happened, the buffer keeps
  the order, loss needs a long outage, what is settled is not posted again, and
  every call comes back.
- *Agent.* The signal falls into any step. Correct means: calls never overlap,
  nothing is posted behind the goodbye, which is left out only when the one deadline
  of the stop is used up, and the stop ends.
- *Start and configuration.* Each setting comes from up to four places that may
  be missing, empty or white space. Correct means: the points of a host carry a
  name.
- *Socket watch.* Correct means: a socket that appears late is found, and a
  failure is not hidden by the quiet period of another one.
- *Deadline guard.* Flag, value and cancel are three steps of a goroutine that
  race the collector. Correct means: one stuck call costs one goroutine, an
  answered call is neither reported as a timeout nor blocks the next one, and
  nobody waits for ever.
- *Mounts.* Timeouts, errors, answers, tables that change or fail to list, and
  reads that hang across all of it. Correct means: a mount is given up exactly
  with its report, a dead one is given up in time, nothing is remembered of
  mounts that are gone, and a cycle ends.
- *Host collectors.* Values, timeouts and errors alternate. Correct means: what
  a batch of the loop lacks is explained in the log, a stuck collector does not flood it,
  and the CPU windows follow each other without a gap.
- *Line protocol.* Names hold delimiters, quotes and backslashes. Correct means:
  the text can be read back.
- *Container client.* Every answer is about another moment. Correct means: the
  restart counter falls only when the runtime set it to 0, a failed inspect call
  costs neither it nor the sample, the cache is refreshed in
  time and forgets what does not run, and `Collect` comes back.
- *Container statistics.* Counters start again with each run, wrap, or are
  zeros. Correct means: no CPU time is invented, none is hidden within one run,
  and garbage from the memory controller does not reach a point.

## 2. The modules

| Module | What it is |
| --- | --- |
| `Outbox` | abstract specification: a bounded delivery box for numbered batches |
| `Pusher` | `push.go` against a server that stores, answers, rejects or loses; implements `Outbox` |
| `Agent` | the process around the pusher (EXTENDS `Pusher`) |
| `Deadline` | the guard around one system call, with its goroutines |
| `Mounts` | `collectDisks`; the guard shows as the outcome of a read |
| `DiskReads` | `collectDisks` with every read a call of `Deadline` (EXTENDS it); implements `Mounts` |
| `Batch` | one batch after the other: `Prime`, `Collect`, `note`, `collectCPU`, the sections of `Encode` |
| `LineProto` | the encoder as operators, and a reader of line protocol as its reference |
| `Config` | `Parse` and `Validate` as operators |
| `DockerWatch` | from the command line to the loop; detection and failure reports of the socket (EXTENDS `Config`) |
| `DockerClient` | `Collect` against a runtime whose containers move |
| `ContainerStats` | the CPU share and the memory numbers of one container |
| `MCPusher`, `MCAgent`, `MCBatch`, `MCDockerWatch`, `MCDockerClient` | values for TLC; `MCBatch` joins `Batch` and `LineProto` |
| `PusherProofs`, `AgentProofs`, `MountsProofs`, `DiskReadsProofs`, `BatchProofs`, `WatchProofs`, `DockerClientProofs`, `StatsProofs` | theorems; `DiskReadsProofs` holds those about `Deadline` too, `BatchProofs` those about `LineProto` |

Definitions introduced by a comment "Fault: ..." are plausible mistakes in the
definition that follows them. Nothing uses them; they are there to show that a
property notices when they take the place of the real definition
(`PROJECT.json`, "mutants").

**Pusher.** The program counter `pc` walks through a call. A post is two steps,
the request and its outcome after `d` ticks, so that in between the server can
store the batch, time can pass and the signal can come. A batch is the number
of the call that brought it: no decision of the code looks at its bytes or
points. `left` is what remains of the deadline of the call's context.
`wire` holds requests the server may still act on, given up ones included, so
late storing and duplicates are possible. `Redirects` says whether the endpoint may
answer a POST with 301, 302 or 303: the client follows these with a GET that has no
body, and a 2xx of that GET is taken for a delivery behind which nothing is stored
(`Accepted`). The histories `acked`, `recovered`,
`refused`, `evicted`, `givenUp` say how a batch ended. The code keeps no such
record, which is what makes "no batch is lost silently" a statement about it.

**Agent.** `phase` is the place of the main goroutine; the steps inside a call
are the steps of `Pusher`. A batch is never empty here, because each cycle
writes an `obs_agent` point; `Pusher` alone has the empty `Send` too. The time
the last collection takes is any part of what is left of the deadline of the
stop. The context of `Flush` is the one `SendOnce` gets: `Final` hands on what is
left of it and whether it was cancelled. The endpoint does not redirect here. A crash may come at any step; nothing is kept on disk, so there is no
recovery.

**Deadline.** Each goroutine has the places "running", "returned" (flag set),
"ended" (flag cleared), "sent" and "done" (context cancelled): the order of the
three steps in `collect.go` 295-299 is what the properties rest on. `select`
takes either case when both are ready, and the second look into the channel is
a step of its own.

**Mounts.** One step per entry of the mount table. A read answers, fails, times
out leaving its goroutine behind (`inflight`), or is refused because an older
one still hangs, which the code counts as a timeout too. Sizes, devices and the
dropping of repeated devices do not touch the memory and are left out.

**DiskReads.** The same loop, with the call taken apart: the collector and the
goroutines are those of `Deadline`, and the outcome of a read is what their race
leaves behind. A call that was left behind goes on while the loop and later
cycles do. The refinement mapping hides the flag of the name the loop waits for,
because in `Mounts` a read is one step. So the two abstractions meet: what is
checked and proved of the memory in `Mounts` holds with the real calls, and what
is proved of the guard in `Deadline` holds of the calls the loop makes.

**Batch.** One step per snapshot: `Cycle` logs what `collectBatch` returns,
`Shutdown` throws it away and is the last. Every collector ends with a value, a timeout
or another error. `window` is the time that the last `obs_cpu` point covers;
`logged`, `heard` and `good` are what a reader of the log and of the batches knows. A
section is one that is a single point (cpu, load, memory, host); disks, disk
I/O and network write one point each per device, which the model does not
follow.

**LineProto.** A text is a sequence of characters over an alphabet that holds
every character the encoder treats specially and one it does not. The reader is
written from the format, not from the encoder. It is one automaton that goes
through the text character by character and collects lines of words of items of
parts: a backslash takes the meaning from the next character, a quote opens a
string only where the value of a field begins, a comma, an equals sign, a space
and a newline end an item, a part, a word and a line. `MCBatch` encodes the points of every batch that `Batch` reaches,
with every pair of names.

**Config.** An input holds a text or `Unset` for every flag and variable that
the agent reads. What a text means as a duration, a number or a URL is given for
the texts in use. The order of the checks is the code's: a bad
`OBSERVANT_INSPECT_EVERY` is refused before the flags are parsed.

**DockerWatch.** The start is one step from an input: it ends the process with
its code, or opens a client or not and goes on. Then one step per cycle, with
any gap between two cycles, any answer of the sockets and any failure text. An
old Docker is one that `probe` has to ask one request at a time. `usable` counts
the cycles in a row in which a socket would have answered.

**DockerClient.** The runtime is part of the model: a container is running,
exited, between two runs (restarting or paused), or gone. `List` is one step
because the code does not wait between the list answer and the start of the
goroutines. A list call that fails changes nothing and is no step. Each goroutine then takes a slot of the semaphore, makes its call or
calls, and leaves. `Put` is `putRestart` with the report that follows it in the
same goroutine. Of the sample only what the properties tell apart is kept:
whether stats were read, whether it claims to run, its restart count. A reading of
that count has beside the number how often the runtime had set it back to 0, a
history that the client does not see.

**ContainerStats.** One container that starts and stops between the list and the
stats call too, and uses any amount of CPU in a tick; a runtime with or without
a system counter, which tells the true number of cores or one. Differences wrap
as those of `uint64` do. A share is a fraction, so that it can be compared
exactly; the rounding of the printed value is left out. The memory numbers are
operators, checked on all combinations of usage, cache keys and limit around
`maxPlausibleMemory`.

### Assumptions about what is outside

- The server answers 2xx to a POST only for a batch it has stored. It may store a
  batch at any time after the request, or never. Where it redirects, the GET that
  follows may be answered with 2xx although nothing is stored.
- A guarded system call may never return (no fairness on `FnReturns`).
- Container IDs are not used again. `RestartCount` belongs to an ID, grows by one
  with each restart of the restart policy, and is set to 0 when somebody starts or
  restarts the container (`docker start`, `docker restart`, and the same in Podman).
  `State.Running` of a
  container that is restarting or paused may be either.
- The CPU counter of a container starts at 0 with each run; a stats call for a
  container that has stopped is answered with zeros.
- Every call to the container socket ends: its HTTP client has a timeout.

## 3. The runs

| Run | Instance | States | Shows |
| --- | --- | --- | --- |
| `pusher` | 3 calls, buffer of 2, 1 backoff, 1 retry of `SendOnce`, with fairness | 134,000 | all properties of the pusher, redirects included, that it implements `Outbox`, that every call comes back |
| `agent` | buffer of 1, 4 calls, signal and crash anywhere | 73,000 | composition, the goodbye and when it is left out, one deadline, stop |
| `agent_goodbye` | delays of the code | violation | see section 4 |
| `disks` | 2 mounts, stacked twice, 3 goroutines, ban after 2, 2 cycles | 308,000 | the guard under the loop, that the loop implements `Mounts`, that a cycle ends |
| `mounts` | 2 mounts, stacked twice, ban after 2, 3 cycles | 125,000 | the ban, its report, the bounded memory |
| `mounts_read_again` | 1 mount, ban after 3, 9 cycles | violation | see section 4 |
| `batch` | 2 sections, quiet time of 3, gaps of 1 and 2, 5 batches, 7 characters | 568,000 | what the log explains, the CPU windows, the text |
| `docker_watch` | all inputs that differ from the usual one in two settings, 2 sockets, 5 cycles, 2 texts | 233,000 | the host name, detection and reports |
| `docker_on` | the same | violation | see section 4 |
| `docker_client` | 2 containers, one starts twice, 4 cycles, 1 slot | 837,000 | restart counts, maps, refresh, liveness |
| `docker_zeros` | 1 container, 6 cycles | violation | see section 4 |
| `container_stats` | 2 cores, 5 ticks | 246,000 | the CPU share and the memory numbers |

**Bounds.** Each is a constant with a name.
`MaxCalls` (pusher, agent): three calls fill a buffer of two and push a batch
out. That a call still flushes afterwards is in the agent's run, with four calls
and a buffer of one; the agent keeps two of its calls for the stop (`TakeTick`),
so that two cycles, the flush and the goodbye fit. The theorems of section 5
cover every number. `MaxCalls` (disks): three goroutines
are the least in which a stuck call, a later one of its name and one of another
name occur together; a table lists no more entries than the goroutines that are
left could read. `MaxCycles` (mounts): a ban
after two timeouts needs one cycle with a stacked mount or two without, one more
for the return.
`MaxListed`: a mount point is stacked at most twice. `MaxCycles` and `Gaps`
(batch): five snapshots, at most two apart, hold a report, the quiet time of 3,
the second report and a value between; two sections are the CPU, which has a
memory of its own, and one that has none. The names are of one character, or of
two with a backslash among them, because the encoder looks at one character at
a time and the reader at one more. `Inputs` (watch): two settings that meet are
what precedence and trimming are about. `MaxCycles` (watch): five cycles are two
attempts to detect and, with gaps of 1 and 2, two quiet periods. `MaxCycles` and
`MaxRuns` (docker): with `inspectEvery` 2, four cycles hold two rounds; one
container starts twice, by its restart policy or by hand, which moves its count or
sets it to 0 and takes it through "stopped" and back; the second one is there to share the slot, to fill the cut of the
stopped containers (`maxStoppedInspect` 1) and to interleave. `MaxTime` (stats):
five ticks hold a reading, a restart, a second and a third reading; `Wrap` is
large against every counter, as 2^64 is, so that a difference wraps only when a
counter went back.
The scaled delays of the pusher keep what decides: a `Send` has time for one
full request and a little more. The violation of timing uses the delays of the
code, so that the counterexample is one the program can run.

**Deadlock checking** is off in every configuration: at its bound each model
stops, and the pusher between calls with nothing left to do is not stuck.
What a deadlock would hide is stated as liveness instead (`CallReturns`,
`StopsAfterSignal`, `NoGoroutineLeaks`, `CycleEnds`, `CollectReturns`).

**Fairness.** `Pusher`: weak fairness of the goroutine's own steps; every wait
in the code is a timer or a request with a timeout, so its end cannot be put
off. Nothing is assumed of the server. `Agent`: the same for the main
goroutine, and strong fairness of taking the signal, because `select` picks at
random among ready cases and cannot prefer the tick for ever. (In the bounded
run the ticks run out as well, so the run alone does not show the need for it.)
`DiskReads`: while the loop, a goroutine of a call or the timer can take a step,
such steps are taken; each of them stays possible until it is taken, so this one
weak fairness asks less than one for each, and it asks nothing of the system
call or the signal. `DockerClient`: the goroutines and the end of `Collect`.

**Hazards.** `PROJECT.json` lists for each place in the source what can go wrong
there and which property would notice. Without a property: the loss of the
buffer in a crash (by design), a `Send` longer than the interval, the points of
a device that is mounted twice, a swap call that fails alone, and an open client
whose socket moves.

## 4. Where the code and its text disagree

Each is a run that TLC ends with a counterexample.

- `GoodbyeIsPosted`: the flush and the last collection can use up the deadline
  of the stop, and the process ends without posting `up=0`, against METRICS.md
  249-250; to an alert that looks like a host that vanished.
- `ReadsAgain`: a mount that leaves and returns while its old read hangs is
  given up again after three refusals, without one new read, against
  collect.go 513-514.
- `NoInventedZeros`: a container that is listed as not running but claims to run
  when it is inspected is encoded with stats fields that nobody read, against
  METRICS.md 296-297.
- `OnReportsAnError`: with docker=on and no socket the loop runs on and reports
  nothing, against config.go 26-27; `-once` and `-selfcheck` do report it.

Noticed while reading, without a run of its own:

- push.go 78-86: the HTTP client has no `CheckRedirect`, so a 301, 302 or 303 is
  followed with a GET without a body, and a 2xx of that GET passes line 258: the
  batch is counted as delivered (push.go 98 "delivers one batch") although the server
  never saw it. `NothingLost` and the counters then hold of what the code takes for
  an acknowledgement. 307 and 308 are followed with the body.
- main.go 287: the stop throws away the errors of its `collectBatch`, although
  `note` takes a timeout among them as reported. What the goodbye batch lacks is never
  explained in the log.
- A request that the flush of the stop gave up may be stored after the goodbye, so
  that `up=0` need not be the last value the server has. The agent can do no
  more than post it last (`GoodbyeIsLast`).
- METRICS.md 284, "Restarts since creation": a start or restart by hand sets the
  runtime's count to 0, and the reported one with it (`CountFallsByResetOnly`).
- METRICS.md 311 and docker.go 40-41, an inspect call every 10 cycles: the first one
  after a container appears starts a gap of up to 2 * `inspectEvery` - 2 cycles,
  because the next falls into the slot of the container (`RefreshedInTime`); and each
  failed stats call in a slot cycle costs a round more.
- push.go 165-166: a flush of two slow but *successful* posts uses up
  `SendDeadline` as well; the new batch is then buffered without one attempt. No
  batch is lost by it.
- push.go: `Send` also buffers its batch after a final rejection, so one more
  post of it follows.
- METRICS.md 140, "3 timeouts in a row": an error that is not a timeout leaves
  the count, so the three need not be in a row.
- The CPU percentages cover the time since the last good sample, which is longer
  than a cycle when calls time out; and the first cycle has one, because of
  `prime`.
- collect.go 428: when only the swap call fails, the point says that there is no
  swap.
- A mount point that is listed twice, for two devices, gives two `obs_disk`
  points for one mount.
- config.go 3-4: a bad `OBSERVANT_INSPECT_EVERY` is refused although the flag
  that goes before it is given.
- lineproto.go 193: a newline in a name becomes a space that is not escaped and
  ends the key early. lineproto_test.go 91-95 expects that text. No measurement and
  no key of the agent holds a newline; that no mount point, device or host name
  does is an assumption.
- METRICS.md 303-305 says that a running container is never inspected, 311-312
  and the code say otherwise; a container that waits for its restart is not
  "running" in the list, so it does reach the stopped list (METRICS.md 315-316,
  docker.go 327-329).
- main.go 35-36: two failures of the container source that alternate are both
  logged in every cycle, because only the last text is remembered.
- main.go 241-245: after the signal one more cycle can begin when its timer is
  ready at the same moment.

## 5. What is proved

All theorems hold for every value of the constants under the assumptions named
in the modules (`PusherAssumption`, `AgentAssumption`, `DeadlineAssumption`,
`MountsAssumption`, `DiskReadsAssumption`, `BatchAssumption`, `WatchAssumption`,
`DockerAssumption`, `StatsAssumption`): any buffer size above zero, any delays,
any backoff schedule, any numbers of calls, cycles, mounts and containers, any
number of cores. `StatsAssumption` asks that the counters are wide enough for
the CPU time they count (`Wrap`), as 64 bits are.

**PusherProofs.** The inductive invariant `IInv` is `TypeOK`, `Control` and
`OldestFirst`. `Control` is what makes it inductive: a batch is in hand exactly
in a call that brought one, it is the youngest, and `flushPending` has a batch
to judge when the answer comes. `EveryStepMoves` reduces the actions of the
model to seven moves of batches (quiet, taken, acknowledged, recovered,
refused, buffered, given up); the theorems about batches are then proved by
seven cases each instead of one per action:

- `TypeCorrect`, `BufferInOrder`: the conjuncts of `IInv`;
- `NoSilentLoss`: the places of a batch are disjoint and cover all batches;
- `CountersTruthful`: the counters are the cardinalities of the histories; it
  needs that a buffer in order has as many elements as its length
  (`BufferCounts`);
- `LossIsLate`: a batch pushed out is followed by `MaxBuffered` younger ones,
  because a full buffer in order is exactly that many;
- `RefinesOutbox`: each move is a step of `Outbox` or leaves it alone;
- `SettledStaysSettled`: a batch that was acknowledged, refused, pushed out or given
  up is neither in the buffer nor in hand, and a post takes its batch from one of
  the two (`PostsFromHere`);
- `CallsAreShort`: `StepsLeft` says how many steps a call still has at most. It
  lies between 0 and `Longest`, is 0 exactly between calls, falls with every
  step of the goroutine, and is raised by nothing the server, the clock or the
  signal does. It needs that the attempts are counted from 0 in each call
  (`AttemptCounted`). This is the safety half of `CallReturns`, for every buffer
  and backoff schedule; what is left to TLC is that the goroutine does take its
  steps, each of which waits only for a timer.

**AgentProofs.** `AgentIInv` is `IInv` with `ATypeOK` and `Composition`.
`AgentUsesPusher` (`AgentSpec => Spec`) shows that every step of the process is a
step of the pusher or leaves its variables alone, which carries the theorems of the pusher over to
the process (`AgentLosesNothingSilently`, and `AgentKeepsPromises` with the
others and the refinement of `Outbox`). `GoodbyeLast` and
`StopSharesBudget` are action properties proved from the same invariant with
two lemmas about the steps of a call (`StepSpends`, `OnceStaysOnce`).
`GoodbyeSentInTime` needs that no step cancels the context of the stop (`StopUncut`,
`StepKeepsContext`): before its first attempt `SendOnce` is stopped by the deadline
alone.
`StopIsShort` puts the rank of a call to use: `StopLeft` adds up the flush, the
last collection and the goodbye, so that the stop has at most 2 * `Longest` + 1
steps of the main goroutine, each of which brings the end nearer, and no tick,
second signal or late request takes it back.

**DiskReadsProofs, the guard.** Its four safety properties are inductive only
together with three facts about the channel: a result is in it only after its
goroutine has sent it and stays until the collector takes it (`ChannelInv`), the
goroutine the collector waits for is the only running one of its name
(`WaitInv`), and the second look is taken only for a reason (`LateInv`).

**MountsProofs.** `BanNeverSilent`, `MemoryBounded` and `DeadMountDropped`. The
last one is about a history, the timeouts in a row; `RowIsCounted` ties it to
the counter: a row of timeouts is never longer than the count.

**DiskReadsProofs, the reads.** `ReadsUseGuard`: every step of the loop is one of
`Deadline` or leaves it alone, so its five invariants hold here by citation.
`ReadsImplementMounts`: every step is one of `Mounts` under the mapping or a
stutter. It uses what is proved of the guard (only one call of a name runs, an
answered call has cleared its flag) and `AtRead`: while the loop waits, it stands
at an entry of that mount, which is not given up. `ReadsKeepMemory` then cites
`MountsProofs` through the mapping: the memory keeps its three promises with the
real calls, the left-behind ones included, without a second proof.
`LoopIsNeverStuck`: `MaxCalls` never stops a loop within a cycle, because
the entries that are left are never more than the goroutines that are left to
start (`CountInv`). `CycleIsShort`: `CycleLeft` counts eight steps for each entry
of the table that is left, less what the call in progress has done, and the steps
left to goroutines that have returned from the system, three at most. Every step
of the loop and of a goroutine lowers it, and nothing else raises it in a cycle,
whether a mount answers late or never. That a table has finitely many mount
points is an assumption on `Name`.

**BatchProofs.** `GapsAreExplained`, `StuckIsQuiet`, `WindowsMeet`. The
invariant adds that what `note` remembers is the last report and is younger than
any value, until the stop throws a report away (`MemoryOfReports`), that the kept sample is the end of the last
window (`SampleEndsWindow`), and that nothing is collected before `prime`.

**BatchProofs, the text.** `BatchTextReadsBack`: the reader finds in the text of
any number of lines these lines, with any names, values and times. It is proved
upwards from what one written character does to the reader (`CharIsRead`) to
names, strings, values, tags, fields, a line and the whole text; each level says
in which state the reader is before and after. `EncodedReadsBack` says the same
of the operator that `MCBatch` checks: for any base tags and points the points
that write something are read back in order and counted, the others leave no
trace. What is asked of the data is what the code gives: the text of a number is
one `strconv` can make, and no name or tag value holds a newline (section 4). The theorems of the
library about induction take an operator and cannot be used; each induction here
is over the set of numbers or sequences for which a statement holds, by the least
number or length that is not in it. `SelectSeq` and the sorting in `Tags` are opaque to the
prover: that they give sequences of tags and of valid fields is a hypothesis
(`Readable`), which TLC found true of the points of `MCBatch` outside the runs; *which* tags they
give is what `BatchReadsBack` adds.

**WatchProofs.** `HostNamed` for any input, because trimming twice is trimming
once. `SocketFound` rests on `Missed`: a socket that is not opened has been
there for at most as many cycles as have passed since the last multiple of
`redetectEvery`, with four lemmas on remainders. `FailureHeard` rests on the
text last reported being the latest of all reports. `SettingsFit` and
`ClientAlwaysFits` close the gap between the modules: what `Parse` accepts is
what the others assume of their constants (`inspectEvery` is no zero, the ticker
can tick, the mode is one of three), and every client that is ever in use has a
slot for at least one call, as `DockerClient` assumes of `batch`.

**DockerClientProofs.** `MapsBounded`, `ReportsComeInOrder`, `SeriesKept`,
`RefreshInTime`. The invariant says, of every container and at every place of
its goroutine: what was listed (`ReadAsListed`), that the kept count
lies between the one last reported and the runtime's, resets counted
(`CountsInOrder`), that a
sample carries a count when one is kept (`SamplesCarryCounts`), and that no cycle
in which a steady container was due has gone by without its inspect call
(`NoneMissed`), from which a lemma on multiples yields the bound.
`SlotsTaken`, an invariant of its own, says that the count of the semaphore is
the number of goroutines in a call. With it `CallsAreBounded`: the runtime is
never asked more than `batch` things at a time; and `NobodyWaitsInVain`: no way
out of a goroutine loses its slot, so that until `Collect` is through somebody
makes a call or somebody finds a slot free. `CollectIsShort`: once listed, a
`Collect` has at most three steps for each container and one more, and what
happens to the containers meanwhile adds none. `TypeCorrect` has the facts about
the runtime it needs (`RuntimeOK`).

**StatsProofs.** `NoCpuInvented` and `SteadyShare`. The invariant says where a
kept sample comes from: it is a reading of an earlier moment from which on the
container used no more than its cores could (`SampleIsOld`); within one run it
shows where the counters stood (`SampleOfThisRun`); and a later run began after
it (`RunAfterSample`), so that a counter that has not gone back grew by at most
what was used since. With `Wrap` above the CPU time there can be
(`CountersFit`), the guards of `Share` are just enough that no difference
wraps.
The solver does not multiply variables by itself: a lemma on products in order
(`ProductsInOrder`) and one on remainders carry the arithmetic.
`EveryMemoryIsSound` is about the memory operators alone, for every usage, limit
and choice of cache keys; `MemorySound` cites it for the sizes the run tries.

**Model-checked only.** The liveness properties: `CallReturns`,
`StopsAfterSignal`, `CycleEnds`, `NoGoroutineLeaks`, `CollectReturns`. The prover
has no ENABLED and so no fairness. For each of them the ranks above show that there
are only so many steps to take (for `NoGoroutineLeaks` the three that a returned
goroutine has), for the last one also that no slot is lost; what is left to TLC is
that the steps are taken. And one invariant, `BatchReadsBack`, for what `Tags`
and `SelectSeq` select: the empty tag dropped, the later value of a key kept,
the keys sorted, the fields without a value left out.

## 6. Not modelled

- The bytes: bodies, gzip, byte counters, the number formats of `strconv`.
- The conversions of the fields of the load, memory, disk I/O, network and host
  collectors: each is one guarded call and shows as an outcome. Nor which points
  a batch holds for devices that are mounted twice.
- Of a container: names, images, ages, the sums of network and block counters,
  the rounding of the CPU share.
- What `-once` and `-selfcheck` print, and the summary line of the loop.
- In `Config`, the meaning of texts other than the ones in use; in
  `candidateSockets`, the `unix://` prefix of `DOCKER_HOST` and the two paths
  below `XDG_RUNTIME_DIR`.
- A clock shared by the loop and the pusher: that one bad `Send` outlasts a
  short interval does not show.
- The shell scripts; the ingest server, the container runtime and the system
  library are present only as the environment of the models.

## 7. Plan

Done: `Outbox`, `Pusher`, `Agent`, `Deadline`, `Mounts`, `DiskReads`, `Batch`,
`LineProto`, `Config`, `DockerWatch`, `DockerClient`, `ContainerStats`, and
proofs for all of them. What is left:

1. A timed loop: the ticker, a `Send` of up to 12 s and the collectors on one
   clock, for intervals below the deadline.
2. The points per device of `collectDisks`, with the dropping of repeated
   devices.
3. A proof of what `Tags` selects, which needs a sort the prover can see into.
