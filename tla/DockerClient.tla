---------------------------- MODULE DockerClient ----------------------------
(***************************************************************************)
(* The container client: Collect in internal/docker/docker.go and what it  *)
(* remembers from one cycle to the next, against a runtime (Docker or      *)
(* Podman, external) whose containers move while the client reads them.    *)
(*                                                                         *)
(* A cycle lists the containers, forgets those that do not run, plans the  *)
(* inspect calls, and reads every container in a goroutine of its own      *)
(* under a semaphore.  The list is a snapshot: by the time of the stats or *)
(* inspect call the container may have stopped, started or gone.           *)
(***************************************************************************)
EXTENDS Integers, FiniteSets

CONSTANTS
    Container,          \* container IDs; a removed ID never comes back
    created,            \* creation time of each
    batch,              \* concurrent calls: 5, or 1 on an old Docker
    inspectEvery,       \* cycles between two inspect calls of a running container
    slot,               \* the offset of each container, from the hash of its ID
    maxStoppedInspect,  \* stopped containers read in one cycle
    MaxCycles,          \* bound of the model: Collect calls that find a container
    MaxRuns             \* bound of the model: starts of each container

ASSUME DockerAssumption ==
    /\ created \in [Container -> Nat]
    /\ batch \in Nat \ {0} /\ maxStoppedInspect \in Nat
    /\ inspectEvery \in Nat \ {0}
    /\ slot \in [Container -> 0 .. inspectEvery - 1]
    /\ MaxCycles \in Nat /\ MaxRuns \in [Container -> Nat]

VARIABLES
    state,      \* of the runtime: "absent", "running", "between" (restarting or
                \* paused), "exited", "removed"
    runs,       \* of the runtime: starts of each container
    count,      \* of the runtime: the reading of RestartCount of each container
    cycle,      \* Collect calls that planned their inspects
    prev,       \* a CPU sample is kept
    restart,    \* the restartSample kept, NoEntry for none
    inspect,    \* the running containers planned for an inspect call in this cycle
    go,         \* where the goroutine of each container is
    sem,        \* slots of the semaphore in use
    out,        \* what the goroutines have put out in this cycle
    ran,        \* history: listed as running at the last list
    lastCount,  \* history: the reading last reported, NoCount for none
    known,      \* history: reported with a count in every cycle of this run
    steady      \* history: no stats call failed since the last inspect

runtime == <<state, runs, count>>
client == <<cycle, prev, restart, inspect, go, sem, out>>
histories == <<ran, lastCount, known, steady>>
vars == <<runtime, client, histories>>

\* A reading is the number n the runtime gives.  That the runtime has set the
\* number back to 0 so many times before is not in it: resets is a history, which
\* tells an old 2 from a new one.
NoCount == [resets |-> 0, n |-> 0]
NoEntry == [have |-> FALSE, count |-> NoCount, cycle |-> 0]
NoReport == [listed |-> "no", running |-> FALSE, read |-> FALSE,
             has |-> FALSE, count |-> NoCount]

GoLabels == {"none", "stats", "statsCall", "inspectCall", "stopped", "stoppedCall", "done"}

Init ==
    /\ state = [c \in Container |-> "absent"]
    /\ runs = [c \in Container |-> 0] /\ count = [c \in Container |-> NoCount]
    /\ cycle = 0
    /\ prev = [c \in Container |-> FALSE]
    /\ restart = [c \in Container |-> NoEntry]
    /\ inspect = {}
    /\ go = [c \in Container |-> "none"]
    /\ sem = 0
    /\ out = [c \in Container |-> NoReport]
    /\ ran = {}
    /\ lastCount = [c \in Container |-> NoCount]
    /\ known = {} /\ steady = Container

-----------------------------------------------------------------------------
(* The runtime *)

Changes(c, from, to) ==
    /\ state[c] \in from
    /\ state' = [state EXCEPT ![c] = to]
    /\ UNCHANGED <<client, histories>>

\* docker run, docker start, and the end of the wait of a restart.  Docker and
\* Podman count the restarts of the restart policy: a start that somebody asks for,
\* docker restart included, sets RestartCount to 0.
Starts(c) ==
    /\ Changes(c, {"absent", "exited", "between"}, "running")
    /\ runs[c] < MaxRuns[c]
    /\ runs' = [runs EXCEPT ![c] = @ + 1]
    /\ count' = [count EXCEPT ![c] =
                   IF state[c] = "exited" THEN [resets |-> @.resets + 1, n |-> 0] ELSE @]

\* It crashed and its restart policy brings it back.
Restarts(c) ==
    /\ Changes(c, {"running"}, "between")
    /\ count' = [count EXCEPT ![c].n = @ + 1]
    /\ UNCHANGED runs

Exits(c) == Changes(c, {"running", "between"}, "exited") /\ UNCHANGED <<runs, count>>

Removed(c) == Changes(c, {"exited"}, "removed") /\ UNCHANGED <<runs, count>>

\* What State.Running of an inspect call may say.
Claims(c) ==
    CASE state[c] = "running" -> {TRUE}
      [] state[c] = "between" -> BOOLEAN
      [] OTHER -> {FALSE}

Exists(c) == state[c] \notin {"absent", "removed"}

-----------------------------------------------------------------------------
(* The start of Collect *)

Collecting == \E c \in Container : go[c] # "none"
HasEntry(c) == restart[c] # NoEntry

\* recentFirst and the cut: sort.Slice leaves the order of equals open.
Recent(S, T) ==
    /\ T \subseteq S
    /\ Cardinality(T) = IF Cardinality(S) < maxStoppedInspect
                        THEN Cardinality(S) ELSE maxStoppedInspect
    /\ \A t \in T, s \in S \ T : created[t] >= created[s]

\* Fault: the slot of a container is missed by one cycle.
DueLate(entry, c, n) ==
    \/ entry = NoEntry
    \/ /\ n - entry.cycle > inspectEvery
       /\ (n + slot[c]) % inspectEvery = 0

\* needsInspect in the cycle n
Due(entry, c, n) ==
    \/ entry = NoEntry
    \/ /\ n - entry.cycle >= inspectEvery
       /\ (n + slot[c]) % inspectEvery = 0

\* Fault: nothing is pruned when no container runs.
PrunedUnlessEmpty(f, none, running) ==
    [c \in Container |-> IF c \in running \/ running = {} THEN f[c] ELSE none]

\* Fault: only removed containers are pruned.
PrunedWhenRemoved(f, none, running) ==
    [c \in Container |-> IF c \in running \/ Exists(c) THEN f[c] ELSE none]

\* pruneDead: only what is listed as running is remembered.
Pruned(f, none, running) == [c \in Container |-> IF c \in running THEN f[c] ELSE none]

\* The list, pruneDead, the split and the cut, and plan.  With no container at
\* all Collect returns after pruneDead.  When the list call fails Collect returns
\* the error and touches nothing, which is no step of the model.
List(stopped) ==
    /\ ~Collecting /\ cycle < MaxCycles
    /\ LET listed == {c \in Container : Exists(c)}
           running == {c \in listed : state[c] = "running"}
       IN  /\ Recent(listed \ running, stopped)
           /\ prev' = Pruned(prev, FALSE, running)
           /\ restart' = Pruned(restart, NoEntry, running)
           /\ cycle' = IF listed = {} THEN cycle ELSE cycle + 1
           /\ inspect' = {c \in running : Due(restart'[c], c, cycle')}
           /\ go' = [c \in Container |-> IF c \in running THEN "stats"
                                         ELSE IF c \in stopped THEN "stopped" ELSE "none"]
           /\ out' = [c \in Container |-> NoReport]
           /\ ran' = running
           /\ known' = known \intersect running
           /\ steady' = steady \union (Container \ running)
    /\ UNCHANGED <<runtime, sem, lastCount>>

-----------------------------------------------------------------------------
(* The goroutines *)

Acquire(c) ==
    /\ go[c] \in {"stats", "stopped"}
    /\ sem < batch
    /\ sem' = sem + 1
    /\ go' = [go EXCEPT ![c] = IF @ = "stats" THEN "statsCall" ELSE "stoppedCall"]
    /\ UNCHANGED <<runtime, cycle, prev, restart, inspect, out, histories>>

\* Fault: an early return keeps its slot of the semaphore.
LeavesHolding(c) ==
    /\ go' = [go EXCEPT ![c] = "done"]
    /\ sem' = IF go[c] = "statsCall" THEN sem ELSE sem - 1

\* The deferred release and Done, on every path.
Leaves(c) ==
    /\ go' = [go EXCEPT ![c] = "done"]
    /\ sem' = sem - 1

Fails(c) ==
    /\ Leaves(c)
    /\ UNCHANGED <<runtime, cycle, prev, restart, inspect, out, ran, lastCount, known>>

Reports(c, report) ==
    /\ out' = [out EXCEPT ![c] = report]
    /\ lastCount' = IF report.has THEN [lastCount EXCEPT ![c] = report.count] ELSE lastCount
    /\ known' = IF report.has /\ report.listed = "running" THEN known \union {c} ELSE known

\* stats: a container that does not run any more may still answer.
Sample == [NoReport EXCEPT !.listed = "running", !.running = TRUE, !.read = TRUE]

\* getRestart
Counted(report, entry) ==
    IF entry.have THEN [report EXCEPT !.has = TRUE, !.count = entry.count] ELSE report

StatsAnswers(c) ==
    /\ go[c] = "statsCall" /\ Exists(c)
    /\ prev' = [prev EXCEPT ![c] = TRUE]
    /\ IF c \in inspect
       THEN /\ go' = [go EXCEPT ![c] = "inspectCall"]
            /\ out' = [out EXCEPT ![c] = Sample]
            /\ UNCHANGED <<sem, lastCount, known>>
       ELSE Leaves(c) /\ Reports(c, Counted(Sample, restart[c]))
    /\ UNCHANGED <<runtime, cycle, restart, inspect, ran, steady>>

\* Without the sample there is no inspect call either, planned or not.
StatsFails(c) ==
    /\ go[c] = "statsCall"
    /\ Fails(c)
    /\ steady' = steady \ {c}

\* putRestart: a failed call moves the stamp only.
Put(c, entry) ==
    /\ restart' = [restart EXCEPT ![c] = entry]
    /\ Reports(c, Counted(out[c], entry))
    /\ Leaves(c)
    /\ steady' = steady \union {c}
    /\ UNCHANGED <<runtime, cycle, prev, inspect, ran>>

InspectAnswers(c) ==
    /\ go[c] = "inspectCall" /\ Exists(c)
    /\ Put(c, [have |-> TRUE, count |-> count[c], cycle |-> cycle])

\* Fault: a failed call overwrites the count.
InspectFailsBlank(c) ==
    /\ go[c] = "inspectCall"
    /\ Put(c, [have |-> FALSE, count |-> NoCount, cycle |-> cycle])

InspectFails(c) ==
    /\ go[c] = "inspectCall"
    /\ Put(c, [restart[c] EXCEPT !.cycle = cycle])

\* It stopped less than an hour ago.
StoppedAnswers(c) ==
    /\ go[c] = "stoppedCall" /\ Exists(c)
    /\ \E claim \in Claims(c) :
         Reports(c, [NoReport EXCEPT !.listed = "stopped", !.running = claim,
                                     !.has = TRUE, !.count = count[c]])
    /\ Leaves(c)
    /\ UNCHANGED <<runtime, cycle, prev, restart, inspect, ran, steady>>

\* The call failed, or the container stopped longer ago.
StoppedSkipped(c) ==
    /\ go[c] = "stoppedCall"
    /\ Fails(c)
    /\ UNCHANGED steady

\* wg.Wait and the return: the samples that came go to the caller, and the plan
\* and the slice end with the call.
Assemble ==
    /\ Collecting
    /\ \A c \in Container : go[c] \in {"none", "done"}
    /\ go' = [c \in Container |-> "none"]
    /\ inspect' = {}
    /\ out' = [c \in Container |-> NoReport]
    /\ UNCHANGED <<runtime, cycle, prev, restart, sem, histories>>

Read(c) ==
    \/ Acquire(c)
    \/ StatsAnswers(c) \/ StatsFails(c)
    \/ InspectAnswers(c) \/ InspectFails(c)
    \/ StoppedAnswers(c) \/ StoppedSkipped(c)

Next ==
    \/ \E c \in Container : Starts(c) \/ Restarts(c) \/ Exits(c) \/ Removed(c)
    \/ \E stopped \in SUBSET Container : List(stopped)
    \/ \E c \in Container : Read(c)
    \/ Assemble

Spec == Init /\ [][Next]_vars

\* Every call to the socket ends: the HTTP client of the socket has a timeout.
FairSpec == Spec /\ WF_vars(Assemble \/ \E c \in Container : Read(c))

-----------------------------------------------------------------------------
(* Encode *)

\* The groups of fields written for a sample.
Fields(s) ==
    {"running"} \union (IF s.has THEN {"restart_count"} ELSE {})
                \union (IF s.running THEN {"stats"} ELSE {})

-----------------------------------------------------------------------------
(* Properties *)

Readings == [resets : Nat, n : Nat]
Entries == [have : BOOLEAN, count : Readings, cycle : Nat]

TypeOK ==
    /\ state \in [Container -> {"absent", "running", "between", "exited", "removed"}]
    /\ runs \in [Container -> Nat] /\ count \in [Container -> Readings]
    /\ \A c \in Container :
        count[c].resets + count[c].n <= runs[c] /\ runs[c] <= MaxRuns[c]
    /\ cycle \in 0 .. MaxCycles
    /\ prev \in [Container -> BOOLEAN]
    /\ restart \in [Container -> Entries]
    /\ inspect \subseteq Container
    /\ go \in [Container -> GoLabels]
    /\ sem \in 0 .. batch
    /\ sem = Cardinality({c \in Container : go[c] \in {"statsCall", "inspectCall", "stoppedCall"}})
    /\ ran \subseteq Container /\ known \subseteq Container /\ steady \subseteq Container
    /\ lastCount \in [Container -> Readings]

\* The runtime gave x no later than y.
NotAfter(x, y) == x.resets < y.resets \/ (x.resets = y.resets /\ x.n <= y.n)

\* What is reported of a container never goes back in time: restart_count falls
\* only because the runtime set it to 0, and never because the cache of a running
\* container (docker.go 465-484) is behind the fresh call for a stopped one
\* (docker.go 502-516), through stops, starts, failed calls and cycles without a
\* list.  A server that reads a fall as a start sees no start that was not there.
CountFallsByResetOnly ==
    [][\A c \in Container : NotAfter(lastCount[c], lastCount'[c])]_vars

\* A failed inspect call neither blanks the series nor costs the sample (docker.go
\* 369-377 and 465-466): as long as a container is listed as running, a count
\* reported once is reported with every later sample, and the sample is there
\* unless a stats call failed.
SeriesKeepsCount ==
    \A c \in known : go[c] = "done" =>
        /\ c \in steady => out[c].read
        /\ out[c].read => out[c].has

\* The maps do not grow with containers that are gone (docker.go 629-653), also
\* when the last container goes.
MapsAreBounded ==
    {c \in Container : prev[c] \/ HasEntry(c)} \subseteq ran

\* The cached count is never too old: unless a stats call fails, a running
\* container is inspected again before two rounds are over, whatever cycle its
\* first inspect fell into (docker.go 451-454).
RefreshedInTime ==
    \A c \in steady : ~Collecting /\ HasEntry(c) =>
        cycle - restart[c].cycle <= 2 * inspectEvery - 2

\* Collect comes back: no path of a goroutine keeps its slot.
CollectReturns == Collecting ~> ~Collecting

\* METRICS.md 296-297: "A stopped container carries no stats fields. The agent does
\* not send zeros for values it did not read."
NoInventedZeros == \A c \in Container : "stats" \in Fields(out[c]) => out[c].read
=============================================================================
