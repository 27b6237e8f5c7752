------------------------------- MODULE Batch -------------------------------
(***************************************************************************)
(* One batch after the other, and what the host collector remembers from   *)
(* one to the next: collectBatch and encodeAgent in                        *)
(* cmd/observant-agent/main.go, and Prime, Collect, note, collectCPU and   *)
(* Encode in internal/collect/collect.go.                                  *)
(*                                                                         *)
(* Every collector ends with a value, a timeout or another error, which is *)
(* up to Deadline.tla and the system.  A collector without a value leaves  *)
(* its section out of the batch, and note decides whether the log says so. *)
(* The CPU percentages are differences to the sample that was kept.        *)
(***************************************************************************)
EXTENDS Integers

CONSTANTS
    Section,            \* the sections of a snapshot that are one point: "cpu", "load", "mem", "host"
    timeoutLogEvery,    \* quiet time after the report of a timeout
    Gaps,               \* time between two snapshots
    MaxCycles           \* bound of the model: batches

ASSUME BatchAssumption ==
    /\ "cpu" \in Section
    /\ timeoutLogEvery \in Nat
    /\ Gaps \subseteq Nat \ {0}
    /\ MaxCycles \in Nat

VARIABLES
    now,        \* Time of the last snapshot
    cycles,     \* batches so far
    primed,     \* Prime has run
    prevCPU,    \* when the kept CPU sample was taken; Boot for haveCPU = FALSE
    cores,      \* the number of cores has been read
    timeoutAt,  \* time of the last report of each collector, Never for none
    batch,      \* the points of the last batch, by the section they come from
    logged,     \* the collectors that the log names with the last batch
    stopped,    \* the last batch was that of the stop
    window,     \* history: the time that the last obs_cpu point covers
    heard,      \* history: when a timeout of each collector was last logged
    good        \* history: when each collector last had a value

vars == <<now, cycles, primed, prevCPU, cores, timeoutAt, batch, logged, stopped, window, heard, good>>

Boot == 0
Never == -1
Outcomes == {"value", "timeout", "error"}

Init ==
    /\ now = timeoutLogEvery + 1
    /\ cycles = 0
    /\ primed = FALSE
    /\ prevCPU = Boot /\ cores = FALSE
    /\ timeoutAt = [s \in Section |-> Never]
    /\ batch = {} /\ logged = {} /\ stopped = FALSE
    /\ window = [from |-> Boot, to |-> Boot]
    /\ heard = [s \in Section |-> Never]
    /\ good = [s \in Section |-> Never]

-----------------------------------------------------------------------------

\* The first sample, so that the first batch does not cover the time since boot.
\* The calls of prime may take time themselves.
Prime(outcome, gap) ==
    /\ ~primed
    /\ primed' = TRUE
    /\ now' = now + gap
    /\ prevCPU' = IF outcome = "value" THEN now ELSE Boot
    /\ UNCHANGED <<cycles, cores, timeoutAt, batch, logged, stopped, window, heard, good>>

\* Fault: without an answer the kept sample is given up.
collectCPUForgets(outcome, counted) ==
    IF outcome = "value"
    THEN /\ prevCPU' = now'
         /\ window' = [from |-> prevCPU, to |-> now']
         /\ cores' = (cores \/ counted)
    ELSE prevCPU' = Boot /\ UNCHANGED <<window, cores>>

\* The second call, for the number of cores, is made until it has an answer.
collectCPU(outcome, counted) ==
    IF outcome = "value"
    THEN /\ prevCPU' = now'
         /\ window' = [from |-> prevCPU, to |-> now']
         /\ cores' = (cores \/ counted)
    ELSE UNCHANGED <<prevCPU, window, cores>>

\* Fault: another error starts the quiet time over.
NotedAny(s, outcome) ==
    CASE outcome = "value" -> Never
      [] outcome = "error" -> now'
      [] OTHER -> IF timeoutAt[s] # Never /\ now' - timeoutAt[s] < timeoutLogEvery
                  THEN timeoutAt[s] ELSE now'

\* Fault: another error ends the quiet time.
NotedAnew(s, outcome) ==
    IF outcome # "timeout" THEN Never
    ELSE IF timeoutAt[s] # Never /\ now' - timeoutAt[s] < timeoutLogEvery
         THEN timeoutAt[s] ELSE now'

\* What note makes of timeoutAt[s].
Noted(s, outcome) ==
    CASE outcome = "value" -> Never
      [] outcome = "error" -> timeoutAt[s]
      [] OTHER -> IF timeoutAt[s] # Never /\ now' - timeoutAt[s] < timeoutLogEvery
                  THEN timeoutAt[s] ELSE now'

TimeoutReported(s, outcome) == outcome = "timeout" /\ timeoutAt'[s] # timeoutAt[s]

\* A section without a value is nil and writes no point.
Encode(outcome) == {s \in Section : outcome[s] = "value"}

\* The obs_agent point is written whatever the collectors say.
encodeAgent == {"agent"}

\* The collectors whose errors collectBatch returns.
Errs(outcome) == {s \in Section : outcome[s] = "error" \/ TimeoutReported(s, outcome[s])}

collectBatch(outcome, counted, gap) ==
    /\ primed /\ ~stopped
    /\ cycles < MaxCycles
    /\ cycles' = cycles + 1
    /\ now' = now + gap
    /\ collectCPU(outcome["cpu"], counted)
    /\ timeoutAt' = [s \in Section |-> Noted(s, outcome[s])]
    /\ batch' = Encode(outcome) \union encodeAgent
    /\ good' = [s \in Section |-> IF outcome[s] = "value" THEN now' ELSE good[s]]
    /\ UNCHANGED primed

\* A cycle logs every error of a host collector.
Cycle(outcome, counted, gap) ==
    /\ collectBatch(outcome, counted, gap)
    /\ logged' = Errs(outcome)
    /\ heard' = [s \in Section |-> IF TimeoutReported(s, outcome[s]) THEN now' ELSE heard[s]]
    /\ UNCHANGED stopped

\* The stop throws away what collectBatch returns, and so the report that note has
\* counted as made.
Shutdown(outcome, counted, gap) ==
    /\ collectBatch(outcome, counted, gap)
    /\ logged' = {}
    /\ stopped' = TRUE
    /\ UNCHANGED heard

Next ==
    \E gap \in Gaps :
        \/ \E outcome \in Outcomes : Prime(outcome, gap)
        \/ \E outcome \in [Section -> Outcomes], counted \in BOOLEAN :
             \/ Cycle(outcome, counted, gap)
             \/ Shutdown(outcome, counted, gap)

Spec == Init /\ [][Next]_vars

-----------------------------------------------------------------------------
(* Properties *)

TypeOK ==
    /\ now \in Nat /\ cycles \in 0 .. MaxCycles
    /\ primed \in BOOLEAN /\ cores \in BOOLEAN
    /\ prevCPU \in 0 .. now
    /\ timeoutAt \in [Section -> Nat \union {Never}]
    /\ batch \subseteq Section \union {"agent"}
    /\ logged \subseteq Section /\ stopped \in BOOLEAN
    /\ window \in [from : 0 .. now, to : 0 .. now]
    /\ heard \in [Section -> Nat \union {Never}]
    /\ good \in [Section -> Nat \union {Never}]

\* A section that is missing in a batch of the loop is explained in the log: this
\* cycle logged the error, or a timeout of this collector was logged less than
\* timeoutLogEvery ago, and no value has come since that report.  The batch of the
\* stop is left out: its errors are never logged (main.go 287).
MissingIsExplained ==
    cycles > 0 /\ ~stopped => \A s \in Section \ batch :
        \/ s \in logged
        \/ now - heard[s] < timeoutLogEvery /\ heard[s] > good[s]

\* A stuck collector does not flood the log (collect.go 152-154), also when other
\* errors fall between its timeouts: two reports without a value in between are
\* at least timeoutLogEvery apart.
StuckStaysQuiet ==
    [][\A s \in Section : heard[s] # Never /\ heard'[s] # heard[s] =>
        \/ good'[s] >= heard[s]
        \/ heard'[s] - heard[s] >= timeoutLogEvery]_vars

\* However many cycles have no CPU sample, the obs_cpu points cover the time
\* without a gap and none of it twice: each one starts where the one before
\* ended.
UsageIsSeamless ==
    [][window' # window /\ window.to # Boot => window'.from = window.to]_vars
=============================================================================
