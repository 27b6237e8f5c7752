----------------------------- MODULE DiskReads -----------------------------
(***************************************************************************)
(* collectDisks with its reads taken apart: the loop over the mount table  *)
(* in internal/collect/collect.go, each read a call under deadline().      *)
(*                                                                         *)
(* The collector and the goroutines are those of Deadline.tla, the memory  *)
(* about mounts is the one of Mounts.tla, where a read is one step with an *)
(* outcome.  Here the outcome comes from the race of the call, the timer   *)
(* and the signal, and a call that was left behind goes on while the loop  *)
(* and later cycles do.                                                    *)
(***************************************************************************)
EXTENDS Deadline

CONSTANTS
    maxMountTimeouts,   \* timeouts after which a mount is not read any more
    MaxListed,          \* bound: how often the table may list one mount point
    MaxCycles           \* bound of the model: cycles

ASSUME DiskReadsAssumption ==
    /\ IsFiniteSet(Name)
    /\ maxMountTimeouts \in Nat \ {0}
    /\ MaxListed \in Nat \ {0}
    /\ MaxCycles \in Nat

VARIABLES pc, cycles, live, todo, mountErr, mountTimeouts, reports, streak, reads

\* The name the collector waits for
Awaited == IF worker = "idle" THEN {} ELSE {name[waits]}

\* In Mounts.tla a read is under way only when nobody waits for it.
M == INSTANCE Mounts WITH Mount <- Name, inflight <- inflight \ Awaited

loop == <<pc, cycles, live, todo>>
memory == <<mountErr, mountTimeouts, reports, streak, reads>>
dvars == <<vars, loop, memory>>

DInit == Init /\ M!Init

-----------------------------------------------------------------------------
(* The loop *)

\* The entries of a table.  In the model it lists no more than the goroutines that
\* are left could read.
Entries(table) == UNION {{m} \X (1 .. table[m]) : m \in Name}

List(table) ==
    /\ worker = "idle"
    /\ pc = "idle" /\ cycles < MaxCycles
    /\ started + Cardinality(Entries(table)) <= MaxCalls
    /\ cycles' = cycles + 1
    /\ live' = {m \in Name : table[m] > 0}
    /\ todo' = table
    /\ pc' = "read"
    /\ streak' = [m \in Name |-> IF m \in live' \ live THEN 0 ELSE streak[m]]
    /\ reads' = [m \in Name |-> IF m \in live' \ live THEN 0 ELSE reads[m]]
    /\ UNCHANGED <<vars, mountErr, mountTimeouts, reports>>

ListFails ==
    /\ worker = "idle"
    /\ pc = "idle" /\ cycles < MaxCycles
    /\ cycles' = cycles + 1
    /\ UNCHANGED <<vars, pc, live, todo, memory>>

\* An entry of the table the loop is done with
Past(m) ==
    /\ todo' = [todo EXCEPT ![m] = @ - 1]
    /\ UNCHANGED <<pc, cycles, live>>

AtEntry(m) == worker = "idle" /\ pc = "read" /\ todo[m] > 0

Skip(m) ==
    /\ AtEntry(m) /\ M!Banned(m)
    /\ Past(m)
    /\ UNCHANGED <<vars, memory>>

\* Fault: the refusal is not marked as a timeout.
ReadRefusedAsError(m) ==
    /\ AtEntry(m) /\ ~M!Banned(m)
    /\ Refuse(m)
    /\ Past(m) /\ M!Remembers(m)
    /\ UNCHANGED reads

\* deadline() refuses: ErrTimeout at once
ReadRefused(m) ==
    /\ AtEntry(m) /\ ~M!Banned(m)
    /\ Refuse(m)
    /\ Past(m) /\ M!Counts(m)
    /\ UNCHANGED reads

ReadStarts(m) ==
    /\ AtEntry(m) /\ ~M!Banned(m)
    /\ Start(m)
    /\ UNCHANGED <<loop, memory>>

\* deadline() is back with what came of the call.
ReadEnds(m) ==
    /\ Past(m)
    /\ reads' = [reads EXCEPT ![m] = @ + 1]

\* The result of the system call, an answer or an error
ReadAnswered ==
    /\ Receive \/ ReceiveLate
    /\ ReadEnds(name[waits])
    /\ M!Clears(name[waits]) \/ M!Remembers(name[waits])

ReadGivenUp ==
    /\ Verdict
    /\ ReadEnds(name[waits])
    /\ IF cancelled THEN M!Remembers(name[waits]) ELSE M!Counts(name[waits])

\* The steps inside deadline() that the loop does not see
Inside ==
    /\ \/ SeeDone \/ GiveUp
       \/ \E k \in Calls : End(k) \/ Send(k) \/ Leave(k)
       \/ TimerFires
    /\ UNCHANGED <<loop, memory>>

\* What the agent has no hold on: the system call and the signal
Outside ==
    /\ (\E k \in Calls : FnReturns(k)) \/ Cancel
    /\ UNCHANGED <<loop, memory>>

Prune ==
    /\ worker = "idle"
    /\ pc = "read" /\ todo = M!Zero
    /\ mountErr' = mountErr \intersect live
    /\ mountTimeouts' = [m \in Name |-> IF m \in live THEN mountTimeouts[m] ELSE 0]
    /\ reports' = [m \in Name |-> IF m \in live THEN reports[m] ELSE 0]
    /\ pc' = "idle"
    /\ UNCHANGED <<vars, cycles, live, todo, streak, reads>>

Loop ==
    \/ \E m \in Name : Skip(m) \/ ReadRefused(m) \/ ReadStarts(m)
    \/ ReadAnswered \/ ReadGivenUp
    \/ Prune

DNext ==
    \/ \E table \in [Name -> 0 .. MaxListed] : List(table)
    \/ ListFails
    \/ Loop
    \/ Inside
    \/ Outside

DSpec == DInit /\ [][DNext]_dvars

\* The Go scheduler runs every goroutine that can move, and timers fire: while one
\* of them can take a step, steps are taken.  (Each of these steps stays possible
\* until it is taken, so this asks less than fairness for each one.)  Nothing
\* says that fn returns or that a signal comes.
FairDSpec == DSpec /\ WF_dvars(Loop \/ Inside)

-----------------------------------------------------------------------------
(* Properties *)

\* Mounts.tla is what collectDisks promises: with the calls taken apart, every
\* outcome of a read is one that Mounts.tla has, a call that returns late is
\* seen as that and as nothing else, and the memory moves along.  What holds of
\* the memory in Mounts.tla therefore holds with the real calls.
ImplementsMounts == M!Spec

\* A cycle ends, whatever the mounts do: no mount that hangs, and no number of
\* calls that were left behind, holds the loop up (METRICS.md 137-139).
CycleEnds == pc = "read" ~> pc = "idle"
=============================================================================
