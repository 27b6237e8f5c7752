--------------------------- MODULE ContainerStats ---------------------------
(***************************************************************************)
(* The numbers of one container: what stats in internal/docker/docker.go   *)
(* makes of two readings of a counter that starts again with every run of  *)
(* the container, and of a reading of its memory.                          *)
(*                                                                         *)
(* Time goes in ticks.  A running container uses up to Cores units of CPU  *)
(* in a tick, and the runtime counts them since the start of the run; the  *)
(* system counter grows by Cores in a tick.  Differences are those of      *)
(* uint64: they wrap.  The runtime is external.                            *)
(***************************************************************************)
EXTENDS Integers, FiniteSetsExt

CONSTANTS
    Cores,      \* of the host
    Wrap,       \* 2^64 of the code
    Plausible,  \* maxPlausibleMemory
    MaxTime     \* bound of the model: ticks

ASSUME StatsAssumption ==
    /\ Plausible \in Nat /\ Plausible < Wrap
    /\ Cores \in Nat \ {0}
    /\ MaxTime \in Nat
    /\ Wrap \in Nat /\ Wrap > Cores * Cores * (MaxTime + 1)

VARIABLES
    now,        \* the clock
    kind,       \* of the runtime: it counts the system time; the cores it reports
    up,         \* of the runtime: the container runs
    used,       \* of the runtime: CPU the container has used in all its runs
    base,       \* of the runtime: used when the last run began
    pc,         \* "idle", or "stats" between the list and the stats call
    prev,       \* the sample kept for the container, NoSample for none
    usedThen,   \* history: used when the kept sample was taken
    current,    \* history: it was taken in the run that goes on
    report      \* history: the CPU share of the last stats call

vars == <<now, kind, up, used, base, pc, prev, usedThen, current, report>>

NoSample == [total |-> 0, system |-> 0, seen |-> -1]
NoReport == [part |-> 0, whole |-> 1, spent |-> 0, elapsed |-> 0, steady |-> FALSE]

Init ==
    /\ now = 1
    /\ kind \in [system : BOOLEAN, cores : {1, Cores}]
    /\ up = FALSE /\ used = 0 /\ base = 0
    /\ pc = "idle"
    /\ prev = NoSample /\ usedThen = 0 /\ current = FALSE
    /\ report = NoReport

-----------------------------------------------------------------------------
(* The runtime *)

Ticks(u) ==
    /\ now < MaxTime
    /\ now' = now + 1
    /\ used' = used + u
    /\ u > 0 => up
    /\ UNCHANGED <<kind, up, base, pc, prev, usedThen, current, report>>

Starts ==
    /\ ~up
    /\ up' = TRUE
    /\ base' = used /\ current' = FALSE
    /\ UNCHANGED <<now, kind, used, pc, prev, usedThen, report>>

Stops ==
    /\ up
    /\ up' = FALSE
    /\ UNCHANGED <<now, kind, used, base, pc, prev, usedThen, current, report>>

\* A stats call of a container that does not run any more is answered with zeros.
Reading ==
    [total  |-> IF up THEN used - base ELSE 0,
     system |-> IF up /\ kind.system THEN Cores * now ELSE 0,
     seen   |-> now]

-----------------------------------------------------------------------------
(* The client *)

\* The list, and pruneDead for a container that is not listed as running.
List ==
    /\ pc = "idle"
    /\ IF up THEN pc' = "stats" /\ UNCHANGED prev
             ELSE prev' = NoSample /\ UNCHANGED pc
    /\ UNCHANGED <<now, kind, up, used, base, usedThen, current, report>>

Minus(a, b) == (a - b) % Wrap

\* Fault: one core is taken for all of them.
ClampedToOne(part, whole) ==
    IF part > whole THEN [part |-> 1, whole |-> 1] ELSE [part |-> part, whole |-> whole]

\* clampPercent: no container uses more than all the cores it is said to have.
Clamped(part, whole) ==
    IF part > kind.cores * whole THEN [part |-> kind.cores, whole |-> 1]
                                 ELSE [part |-> part, whole |-> whole]

\* Fault: a counter that went back is not told from one that grew.
ShareUnguarded(r) ==
    IF prev # NoSample /\ r.system > prev.system
    THEN Clamped(Minus(r.total, prev.total) * kind.cores, Minus(r.system, prev.system))
    ELSE IF prev # NoSample /\ r.seen > prev.seen
         THEN Clamped(Minus(r.total, prev.total), r.seen - prev.seen)
         ELSE [part |-> 0, whole |-> 1]

\* Cores used on average since the kept sample: by the system counter where it
\* moves, by the clock where it does not.
Share(r) ==
    IF prev = NoSample \/ r.total < prev.total THEN [part |-> 0, whole |-> 1]
    ELSE IF r.system > prev.system
         THEN Clamped(Minus(r.total, prev.total) * kind.cores, Minus(r.system, prev.system))
    ELSE IF r.seen > prev.seen
         THEN Clamped(Minus(r.total, prev.total), r.seen - prev.seen)
    ELSE [part |-> 0, whole |-> 1]

StatsAnswers ==
    /\ pc = "stats"
    /\ prev' = Reading /\ usedThen' = used /\ current' = up
    /\ report' = [part    |-> Share(Reading).part,
                  whole   |-> Share(Reading).whole,
                  spent   |-> used - usedThen,
                  elapsed |-> IF prev = NoSample THEN 0 ELSE now - prev.seen,
                  steady  |-> up /\ current]
    /\ pc' = "idle"
    /\ UNCHANGED <<now, kind, up, used, base>>

StatsFails ==
    /\ pc = "stats"
    /\ pc' = "idle"
    /\ UNCHANGED <<now, kind, up, used, base, prev, usedThen, current, report>>

-----------------------------------------------------------------------------
(* The memory of one reading *)

Keys == <<"inactive_file", "total_inactive_file", "cache">>

\* What may be subtracted: the value under the first of the keys that is there.
Cache(stats) ==
    IF \E i \in 1 .. 3 : Keys[i] \in DOMAIN stats
    THEN stats[Keys[Min({i \in 1 .. 3 : Keys[i] \in DOMAIN stats})]]
    ELSE 0

\* Fault: the cache is subtracted though it is larger than the usage.
WithoutCacheUnguarded(usage, stats) == Minus(usage, Cache(stats))

WithoutCache(usage, stats) ==
    IF Cache(stats) <= usage THEN Minus(usage, Cache(stats)) ELSE usage

\* What is reported; the percentage in hundredths, rounded.
Memory(usage, stats, bound) ==
    LET size  == WithoutCache(usage, stats)
        limit == IF bound > Plausible THEN 0 ELSE bound
        ok    == size <= Plausible
        value == IF ~ok THEN 0 ELSE IF limit > 0 THEN Min({size, limit}) ELSE size
    IN [ok      |-> ok,
        value   |-> value,
        limit   |-> limit,
        percent |-> IF ok /\ limit > 0 THEN (20000 * value + limit) \div (2 * limit) ELSE 0]

-----------------------------------------------------------------------------
Next ==
    \/ \E u \in 0 .. Cores : Ticks(u)
    \/ Starts \/ Stops
    \/ List \/ StatsAnswers \/ StatsFails

Spec == Init /\ [][Next]_vars

-----------------------------------------------------------------------------
(* Properties *)

\* No restart, and no reading that falls between two runs, makes the agent invent
\* CPU time: the share is never more than what the container has used since the
\* kept sample, over the time since then.
NothingInvented == report.part * report.elapsed <= report.spent * report.whole

\* Nothing is hidden either: between two readings of one run the share is exact,
\* if the runtime tells the cores.
SteadyIsExact ==
    report.steady /\ kind.cores = Cores =>
        report.part * report.elapsed = report.spent * report.whole

\* Bounded inputs for the next property: sizes around Plausible, any choice of keys.
Size == 0 .. Plausible + 1
Statistics == UNION {[K -> Size] : K \in SUBSET {Keys[i] : i \in 1 .. 3}}

SoundMemory(usage, bound, stats) ==
    LET m == Memory(usage, stats, bound)
    IN /\ usage <= Plausible => m.ok
       /\ m.ok => m.value <= usage
       /\ m.limit > 0 => m.value <= m.limit /\ m.percent <= 10000

MemoryVerdicts == {SoundMemory(x[1], x[2], x[3]) : x \in Size \X Size \X Statistics}

\* Whatever memory numbers come with a stats answer, a plausible usage is reported,
\* and what is reported is at most the usage, at most a limit that is reported
\* too, and at most 100 %: a cache beyond the usage, a limit of 2^63 or none makes
\* no garbage (docker.go 584 to 615).
MemoryIsSound == prev # NoSample => FALSE \notin MemoryVerdicts
=============================================================================
