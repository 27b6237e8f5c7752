------------------------------ MODULE Deadline ------------------------------
(***************************************************************************)
(* The guard around every call of the host collector:                      *)
(* internal/collect/collect.go, deadline, begin and end.                   *)
(*                                                                         *)
(* A system call may block for ever, so each one runs in a goroutine of    *)
(* its own and hands its result over in a channel.  The collector, one     *)
(* goroutine, waits for the result, the timeout, or the stop of the agent, *)
(* and leaves a late call behind.  The flag of the name keeps a second     *)
(* call from starting while the first one still runs.                      *)
(***************************************************************************)
EXTENDS Integers, FiniteSets

CONSTANTS
    Name,       \* the names of the calls: "cpu", "disk:/home", ...
    MaxCalls    \* bound of the model: goroutines ever started

ASSUME DeadlineAssumption == MaxCalls \in Nat /\ Name # {}

VARIABLES
    inflight,   \* the names whose flag is set, guarded by mu
    started,    \* goroutines started so far
    name,       \* the name each goroutine runs for
    go,         \* where each goroutine is
    ch,         \* the channel of each goroutine: one slot
    worker,     \* where the collector is in deadline()
    waits,      \* the goroutine the collector waits for
    expired,    \* the timeout of the current call has fired
    cancelled,  \* the context of the agent is cancelled
    last        \* history: the name and the outcome of the last finished call

vars == <<inflight, started, name, go, ch, worker, waits, expired, cancelled, last>>

Calls == 1 .. started

\* "running": in fn; "returned": fn is back, the flag still set; "ended": the
\* flag is cleared, the result not sent yet; "sent": the result is in the
\* channel; "done": the deferred cancel has run and the goroutine is gone.
GoLabels == {"running", "returned", "ended", "sent", "done"}
WorkerLabels == {"idle", "select", "late", "verdict"}
Outcomes == {"none", "value", "busy", "timeout", "stopped"}

Init ==
    /\ inflight = {}
    /\ started = 0
    /\ name = [k \in {} |-> 0]
    /\ go = [k \in {} |-> 0]
    /\ ch = [k \in {} |-> 0]
    /\ worker = "idle" /\ waits = 0
    /\ expired = FALSE /\ cancelled = FALSE
    /\ last = [name |-> CHOOSE n \in Name : TRUE, outcome |-> "none"]

With(f, v) == [k \in 1 .. started + 1 |-> IF k \in Calls THEN f[k] ELSE v]

Finish(n, outcome) ==
    /\ worker' = "idle"
    /\ last' = [name |-> n, outcome |-> outcome]

-----------------------------------------------------------------------------
(* The collector *)

\* Fault: begin() lets every call through.
FreeAnyway(n) == n \in Name

\* No call of this name still runs.
Free(n) == n \notin inflight

\* Fault: the collector waits for the call before.
NewestOff == started

\* The goroutine about to start.
Newest == started + 1

\* begin() refuses: the call of an earlier cycle has not returned yet.
Refuse(n) ==
    /\ worker = "idle"
    /\ ~Free(n)
    /\ Finish(n, "busy")
    /\ UNCHANGED <<inflight, started, name, go, ch, waits, expired, cancelled>>

Start(n) ==
    /\ worker = "idle"
    /\ Free(n)
    /\ started < MaxCalls
    /\ inflight' = inflight \union {n}
    /\ started' = started + 1
    /\ name' = With(name, n)
    /\ go' = With(go, "running")
    /\ ch' = With(ch, "empty")
    /\ worker' = "select" /\ waits' = Newest
    /\ expired' = FALSE
    /\ UNCHANGED <<cancelled, last>>

Take ==
    /\ ch[waits] = "full"
    /\ ch' = [ch EXCEPT ![waits] = "empty"]
    /\ Finish(name[waits], "value")
    /\ UNCHANGED <<inflight, started, name, go, waits, expired, cancelled>>

\* With both channels ready, select picks either one.
Receive == worker = "select" /\ Take

\* Fault: there is no timeout.
DoneWithoutTimer == cancelled \/ go[waits] = "done"

\* The context of the call is over by its timeout, by the stop of the agent, or
\* because the goroutine has cancelled it after sending the result.
Done == expired \/ cancelled \/ go[waits] = "done"

\* Fault: no second look into the channel.
SeeDoneAndGiveUp ==
    /\ worker = "select"
    /\ Done
    /\ worker' = "verdict"
    /\ UNCHANGED <<inflight, started, name, go, ch, waits, expired, cancelled, last>>

SeeDone ==
    /\ worker = "select"
    /\ Done
    /\ worker' = "late"
    /\ UNCHANGED <<inflight, started, name, go, ch, waits, expired, cancelled, last>>

\* The answer was there, or came at the same moment as the deadline.
ReceiveLate == worker = "late" /\ Take

GiveUp ==
    /\ worker = "late"
    /\ ch[waits] # "full"
    /\ worker' = "verdict"
    /\ UNCHANGED <<inflight, started, name, go, ch, waits, expired, cancelled, last>>

Verdict ==
    /\ worker = "verdict"
    /\ Finish(name[waits], IF cancelled THEN "stopped" ELSE "timeout")
    /\ UNCHANGED <<inflight, started, name, go, ch, waits, expired, cancelled>>

-----------------------------------------------------------------------------
(* The goroutine of one call, and the clock and the signal *)

Moves(k, from, to) ==
    /\ go[k] = from
    /\ go' = [go EXCEPT ![k] = to]

FnReturns(k) ==
    /\ Moves(k, "running", "returned")
    /\ UNCHANGED <<inflight, started, name, ch, worker, waits, expired, cancelled, last>>

\* Fault: only a call that somebody waits for clears its flag.
EndIfAwaited(k) ==
    /\ Moves(k, "returned", "ended")
    /\ inflight' = IF worker # "idle" /\ waits = k THEN inflight \ {name[k]} ELSE inflight
    /\ UNCHANGED <<started, name, ch, worker, waits, expired, cancelled, last>>

End(k) ==
    /\ Moves(k, "returned", "ended")
    /\ inflight' = inflight \ {name[k]}
    /\ UNCHANGED <<started, name, ch, worker, waits, expired, cancelled, last>>

\* Fault: the value is handed over before the flag is cleared.
SendBeforeEnd(k) ==
    /\ go[k] \in {"returned", "ended"}
    /\ go' = [go EXCEPT ![k] = IF @ = "ended" THEN "sent" ELSE "returned"]
    /\ ch[k] = "empty"
    /\ ch' = [ch EXCEPT ![k] = "full"]
    /\ UNCHANGED <<inflight, started, name, worker, waits, expired, cancelled, last>>

\* Fault: the channel has no slot, so that the send needs a receiver.
SendUnbuffered(k) ==
    /\ Moves(k, "ended", "sent")
    /\ worker = "select" /\ waits = k
    /\ ch' = [ch EXCEPT ![k] = "full"]
    /\ UNCHANGED <<inflight, started, name, worker, waits, expired, cancelled, last>>

\* The slot makes the send succeed whether or not anyone waits.
Send(k) ==
    /\ Moves(k, "ended", "sent")
    /\ ch[k] = "empty"
    /\ ch' = [ch EXCEPT ![k] = "full"]
    /\ UNCHANGED <<inflight, started, name, worker, waits, expired, cancelled, last>>

Leave(k) ==
    /\ Moves(k, "sent", "done")
    /\ UNCHANGED <<inflight, started, name, ch, worker, waits, expired, cancelled, last>>

TimerFires ==
    /\ worker = "select" /\ ~expired
    /\ expired' = TRUE
    /\ UNCHANGED <<inflight, started, name, go, ch, worker, waits, cancelled, last>>

Cancel ==
    /\ ~cancelled
    /\ cancelled' = TRUE
    /\ UNCHANGED <<inflight, started, name, go, ch, worker, waits, expired, last>>

Wait == Receive \/ SeeDone \/ ReceiveLate \/ GiveUp \/ Verdict

Next ==
    \/ \E n \in Name : Start(n) \/ Refuse(n)
    \/ Wait
    \/ \E k \in Calls : FnReturns(k) \/ End(k) \/ Send(k) \/ Leave(k)
    \/ TimerFires
    \/ Cancel

Spec == Init /\ [][Next]_vars

-----------------------------------------------------------------------------
(* Properties *)

TypeOK ==
    /\ inflight \subseteq Name
    /\ started \in Nat
    /\ name \in [Calls -> Name]
    /\ go \in [Calls -> GoLabels]
    /\ ch \in [Calls -> {"empty", "full"}]
    /\ worker \in WorkerLabels
    /\ waits \in 0 .. started
    /\ worker # "idle" => waits # 0
    /\ expired \in BOOLEAN /\ cancelled \in BOOLEAN
    /\ last \in [name : Name, outcome : Outcomes]

Running(k) == go[k] \in {"running", "returned"}

\* One stuck system call costs one goroutine and not one per cycle: two calls
\* of one name never run at the same time (collect.go 275-278).
OneCallAtATime ==
    \A j, k \in Calls : Running(j) /\ Running(k) /\ name[j] = name[k] => j = k

\* The flag tells the truth about a call, also about one that was left behind
\* long ago: set when the call runs, cleared when it is over.
FlagIsTruthful ==
    \A n \in Name : n \in inflight <=> \E k \in Calls : Running(k) /\ name[k] = n

\* "A caller that receives the value can start the next call at once"
\* (collect.go 293-294): the flag is cleared before the value is handed over,
\* so that a call that was answered is never refused as still running.
NextCanStart ==
    worker = "idle" /\ last.outcome = "value" => last.name \notin inflight

\* A call that was answered in time is not reported as a timeout: a call that was
\* started returns ErrTimeout or the error of the stopped agent only when the time
\* was up or the agent stops (one that begin() refuses returns ErrTimeout at once,
\* see Refuse).  The goroutine cancels the very context the collector waits on,
\* so this hangs on the second look into the channel (collect.go 303-309) and on
\* the cancel that comes after the send (collect.go 295-298).
NoFalseTimeout == worker = "verdict" => expired \/ cancelled

\* A goroutine that was left behind goes away when its system call returns,
\* although nobody receives its result.
NoGoroutineLeaks == \A k \in 1 .. MaxCalls :
    (k \in Calls /\ go[k] = "returned") ~> (k \in Calls /\ go[k] = "done")
=============================================================================
