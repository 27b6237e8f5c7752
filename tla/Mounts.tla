------------------------------- MODULE Mounts -------------------------------
(***************************************************************************)
(* The memory the collector keeps about mounts: collectDisks in            *)
(* internal/collect/collect.go.                                            *)
(*                                                                         *)
(* Every cycle lists the mount table and reads each mount under the        *)
(* deadline of Deadline.tla, which shows here as the outcome of a read: an *)
(* answer, an error, or a timeout that leaves the call running.  A mount   *)
(* that keeps timing out is not read any more.                             *)
(***************************************************************************)
EXTENDS Integers, FiniteSets

CONSTANTS
    Mount,              \* the mounts that SkipFstype and SkipMount let pass
    maxMountTimeouts,   \* timeouts after which a mount is not read any more
    MaxListed,          \* bound: how often the table may list one mount point
    MaxCycles           \* bound of the model: cycles

ASSUME MountsAssumption ==
    /\ maxMountTimeouts \in Nat \ {0}
    /\ MaxListed \in Nat \ {0}
    /\ MaxCycles \in Nat

VARIABLES
    pc,             \* "idle" between cycles, "read" in the loop over the table
    cycles,         \* cycles so far
    live,           \* the mounts of the last table that could be listed
    todo,           \* entries of the table the loop has not come to yet
    inflight,       \* mounts with a read that has not come back
    mountErr,       \* mounts reported as unreadable
    mountTimeouts,  \* timeouts counted for each mount, 0 for no entry
    reports,        \* history: "no answer" reports while the entry lives
    streak,         \* history: timeouts since the last other outcome
    reads           \* history: reads started since the mount last appeared

memory == <<mountErr, mountTimeouts>>
history == <<reports, streak, reads>>
vars == <<pc, cycles, live, todo, inflight, memory, history>>

Zero == [m \in Mount |-> 0]

Init ==
    /\ pc = "idle" /\ cycles = 0
    /\ live = {} /\ todo = Zero
    /\ inflight = {}
    /\ mountErr = {} /\ mountTimeouts = Zero
    /\ reports = Zero /\ streak = Zero /\ reads = Zero

\* Fault: one timeout too few.
BannedEarly(m) == mountTimeouts[m] >= maxMountTimeouts - 1

Banned(m) == mountTimeouts[m] >= maxMountTimeouts

-----------------------------------------------------------------------------

\* The table may list a mount point several times: mounts can be stacked.
List(table) ==
    /\ pc = "idle" /\ cycles < MaxCycles
    /\ cycles' = cycles + 1
    /\ live' = {m \in Mount : table[m] > 0}
    /\ todo' = table
    /\ pc' = "read"
    /\ LET fresh == live' \ live
           Reset(f) == [m \in Mount |-> IF m \in fresh THEN 0 ELSE f[m]]
       IN  streak' = Reset(streak) /\ reads' = Reset(reads)
    /\ UNCHANGED <<inflight, memory, reports>>

\* No table: the whole call returns, nothing is read and nothing is forgotten.
ListFails ==
    /\ pc = "idle" /\ cycles < MaxCycles
    /\ cycles' = cycles + 1
    /\ UNCHANGED <<pc, live, todo, inflight, memory, history>>

ComesTo(m) ==
    /\ pc = "read" /\ todo[m] > 0
    /\ todo' = [todo EXCEPT ![m] = @ - 1]
    /\ UNCHANGED <<pc, cycles, live>>

Skip(m) ==
    /\ ComesTo(m)
    /\ Banned(m)
    /\ UNCHANGED <<inflight, memory, history>>

\* The read of an earlier entry still runs, so deadline() starts none and
\* answers ErrTimeout at once.
Refused(m) == m \in inflight /\ UNCHANGED <<inflight, reads>>

Starts(m) == m \notin inflight /\ reads' = [reads EXCEPT ![m] = @ + 1]

LeftBehind(m) == Starts(m) /\ inflight' = inflight \union {m}

ComesBack(m) == Starts(m) /\ UNCHANGED inflight

\* What the loop makes of ErrTimeout: the count, and at the limit the report.
Counts(m) ==
    /\ mountTimeouts' = [mountTimeouts EXCEPT ![m] = @ + 1]
    /\ reports' = IF mountTimeouts'[m] = maxMountTimeouts
                  THEN [reports EXCEPT ![m] = @ + 1] ELSE reports
    /\ streak' = [streak EXCEPT ![m] = @ + 1]
    /\ UNCHANGED mountErr

\* ... of any other error, which leaves the count alone.
Remembers(m) ==
    /\ mountErr' = mountErr \union {m}
    /\ streak' = [streak EXCEPT ![m] = 0]
    /\ UNCHANGED <<mountTimeouts, reports>>

\* ... and of an answer.
Clears(m) ==
    /\ mountTimeouts' = [mountTimeouts EXCEPT ![m] = 0]
    /\ streak' = [streak EXCEPT ![m] = 0]
    /\ UNCHANGED <<mountErr, reports>>

\* Fault: only a call that was started can time out.
TimesOutIfStarted(m) ==
    /\ ComesTo(m)
    /\ ~Banned(m)
    /\ Refused(m) \/ LeftBehind(m)
    /\ IF m \in inflight
       THEN streak' = [streak EXCEPT ![m] = @ + 1] /\ UNCHANGED <<memory, reports>>
       ELSE Counts(m)

\* The call may still return between the timeout and the verdict on it.
TimesOut(m) ==
    /\ ComesTo(m)
    /\ ~Banned(m)
    /\ Refused(m) \/ LeftBehind(m) \/ ComesBack(m)
    /\ Counts(m)

\* An error of the system call, or the stop of the agent during the read.
Fails(m) ==
    /\ ComesTo(m)
    /\ ~Banned(m)
    /\ ComesBack(m) \/ LeftBehind(m)
    /\ Remembers(m)

Answers(m) ==
    /\ ComesTo(m)
    /\ ~Banned(m)
    /\ ComesBack(m)
    /\ Clears(m)

\* Fault: the timeout counts of mounts that are gone stay.
PruneErrorsOnly ==
    /\ pc = "read" /\ todo = Zero
    /\ mountErr' = mountErr \intersect live
    /\ pc' = "idle"
    /\ UNCHANGED <<cycles, live, todo, inflight, mountTimeouts, reports, streak, reads>>

\* What is not in the table any more is forgotten.
Prune ==
    /\ pc = "read" /\ todo = Zero
    /\ mountErr' = mountErr \intersect live
    /\ mountTimeouts' = [m \in Mount |-> IF m \in live THEN mountTimeouts[m] ELSE 0]
    /\ reports' = [m \in Mount |-> IF m \in live THEN reports[m] ELSE 0]
    /\ pc' = "idle"
    /\ UNCHANGED <<cycles, live, todo, inflight, streak, reads>>

\* A read that was left behind comes back, its result is dropped.
ReadReturns(m) ==
    /\ m \in inflight
    /\ inflight' = inflight \ {m}
    /\ UNCHANGED <<pc, cycles, live, todo, memory, history>>

Next ==
    \/ \E table \in [Mount -> 0 .. MaxListed] : List(table)
    \/ ListFails
    \/ \E m \in Mount : Skip(m) \/ TimesOut(m) \/ Fails(m) \/ Answers(m) \/ ReadReturns(m)
    \/ Prune

Spec == Init /\ [][Next]_vars

-----------------------------------------------------------------------------
(* Properties *)

TypeOK ==
    /\ pc \in {"idle", "read"} /\ cycles \in 0 .. MaxCycles
    /\ live \subseteq Mount /\ inflight \subseteq Mount /\ mountErr \subseteq Mount
    /\ todo \in [Mount -> 0 .. MaxListed]
    /\ mountTimeouts \in [Mount -> 0 .. maxMountTimeouts]
    /\ reports \in [Mount -> Nat] /\ streak \in [Mount -> Nat] /\ reads \in [Mount -> Nat]

\* The agent never stops reading a mount in silence, and says so only once: the
\* count and the report move together through timeouts, answers, errors, mounts
\* that come and go, and cycles whose table could not be listed.
BanIsReported ==
    \A m \in Mount : reports[m] = IF Banned(m) THEN 1 ELSE 0

\* The maps do not grow with mounts that are gone (collect.go 450-453, 513-514):
\* between two cycles they know only mounts of the last table.
MemoryIsBounded ==
    pc = "idle" => mountErr \union {m \in Mount : mountTimeouts[m] > 0} \subseteq live

\* A dead mount has a price: however its timeouts come about, a mount that gives
\* no other sign of life is tried at most maxMountTimeouts times.
DeadMountIsDropped == \A m \in Mount : m \in live => streak[m] <= maxMountTimeouts

\* collect.go 513-514: a mount that disappears loses its timeout count, "so the
\* collector reads it again if it comes back".
ReadsAgain == \A m \in live : Banned(m) => reads[m] > 0
=============================================================================
