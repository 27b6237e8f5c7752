------------------------------- MODULE Agent -------------------------------
(***************************************************************************)
(* The life of the agent process: loop, cycle, shutdown and the signal     *)
(* context of cmd/observant-agent/main.go, composed with the pusher.       *)
(*                                                                         *)
(* The main goroutine primes the collectors, sleeps the jitter, and then   *)
(* runs a cycle (collect, Send) per tick until the signal context ends.    *)
(* The stop flushes the buffer, collects one more batch, the goodbye with  *)
(* up=0, and hands it to SendOnce; all of it shares one deadline.  The     *)
(* steps inside a call are those of Pusher.tla.  A batch is never empty:   *)
(* every cycle writes an obs_agent point.                                  *)
(***************************************************************************)
EXTENDS Pusher

CONSTANT ShutdownBudget     \* RequestTimeout + 2 s

ASSUME AgentAssumption ==
    /\ ShutdownBudget \in Nat
    /\ 0 .. ShutdownBudget \subseteq Budgets

VARIABLES
    phase,      \* where the main goroutine is
    signalled,  \* SIGTERM or SIGINT came: the context of run() is cancelled
    tick,       \* the ticker has a tick nobody took
    goodbye     \* the number of the batch with up=0, 0 before it is made

pusher == vars
process == <<phase, signalled, tick, goodbye>>
avars == <<pusher, process>>

Phases == {"prime", "jitter", "cycle", "push", "wait",
           "flush", "final", "goodbye", "stopped", "dead"}
Gone == {"stopped", "dead"}

AInit ==
    /\ Init
    /\ phase = "prime"
    /\ signalled = FALSE /\ tick = FALSE
    /\ goodbye = 0

-----------------------------------------------------------------------------
(* The loop *)

Prime ==
    /\ phase = "prime"
    /\ phase' = "jitter"
    /\ UNCHANGED <<pusher, signalled, tick, goodbye>>

BeginsCycle ==
    /\ phase' = "cycle"
    /\ UNCHANGED <<pusher, signalled, goodbye>>

\* Fault: the context of the stop descends from the context of the signal.
BeginsStopCancelled ==
    /\ CallFlush(ShutdownBudget, signalled)
    /\ phase' = "flush"
    /\ UNCHANGED <<signalled, tick, goodbye>>

\* The stop starts with Flush, under a context of its own that the signal does
\* not cancel.
BeginsStop ==
    /\ CallFlush(ShutdownBudget, FALSE)
    /\ phase' = "flush"
    /\ UNCHANGED <<signalled, tick, goodbye>>

\* The jitter may end at the very moment of the signal, or be zero.
JitterEnds == phase = "jitter" /\ BeginsCycle /\ UNCHANGED tick

\* Fault: the end of the sleep is not told from its interruption.
JitterCutBlind == phase = "jitter" /\ BeginsStop

JitterCut == phase = "jitter" /\ signalled /\ BeginsStop

\* Two calls of the bound are kept for the stop.
TakeTick ==
    /\ phase = "wait" /\ tick
    /\ calls + 3 <= MaxCalls
    /\ tick' = FALSE
    /\ BeginsCycle

\* With the tick and the signal both there, select picks either one.
TakeSignal == phase = "wait" /\ signalled /\ BeginsStop

\* Collect and hand over: the context of Send descends from the signal context.
Cycle ==
    /\ phase = "cycle"
    /\ CallSend(signalled)
    /\ phase' = "push"
    /\ UNCHANGED <<signalled, tick, goodbye>>

\* Fault: the goodbye gets a deadline of its own.
FinalWithOwnBudget(d) ==
    /\ phase = "final"
    /\ d <= left
    /\ CallSendOnce(ShutdownBudget, cancelled)
    /\ goodbye' = made'
    /\ phase' = "goodbye"
    /\ UNCHANGED <<signalled, tick>>

\* Fault: the stop waits until the buffer is empty.
FinalWhenEmpty(d) ==
    /\ phase = "final" /\ pending = <<>>
    /\ d <= left
    /\ CallSendOnce(left - d, cancelled)
    /\ goodbye' = made'
    /\ phase' = "goodbye"
    /\ UNCHANGED <<signalled, tick>>

\* Collecting the goodbye takes a part of the deadline of the stop; SendOnce gets
\* the context that Flush had.
Final(d) ==
    /\ phase = "final"
    /\ d <= left
    /\ CallSendOnce(left - d, cancelled)
    /\ goodbye' = made'
    /\ phase' = "goodbye"
    /\ UNCHANGED <<signalled, tick>>

\* Fault: the loop goes on after the stop.
AfterWithoutReturn == [push |-> "wait", flush |-> "final", goodbye |-> "wait"]

\* What follows each call of the pusher.
After == [push |-> "wait", flush |-> "final", goodbye |-> "stopped"]

InCall ==
    /\ phase \in DOMAIN After
    /\ Step
    /\ phase' = IF pc' = "idle" THEN After[phase] ELSE phase
    /\ UNCHANGED <<signalled, tick, goodbye>>

-----------------------------------------------------------------------------
(* The surroundings: the ticker, the signal, the server, and the end of the *)
(* process without a stop (kill -9, out of memory, a host that vanishes).   *)

TickerFires ==
    /\ phase \in {"cycle", "push", "wait"} /\ ~tick
    /\ tick' = TRUE
    /\ UNCHANGED <<pusher, phase, signalled, goodbye>>

Signal ==
    /\ phase \notin Gone /\ ~signalled
    /\ signalled' = TRUE
    /\ IF phase = "push" THEN Cancel ELSE UNCHANGED pusher
    /\ UNCHANGED <<phase, tick, goodbye>>

Serve == (\E b \in wire : ServerStores(b)) /\ UNCHANGED process

Crash ==
    /\ phase \notin Gone
    /\ phase' = "dead"
    /\ UNCHANGED <<pusher, signalled, tick, goodbye>>

AgentStep ==
    \/ Prime \/ JitterEnds \/ JitterCut \/ TakeTick \/ TakeSignal
    \/ Cycle
    \/ \E d \in 0 .. ShutdownBudget : Final(d)
    \/ InCall

ANext ==
    \/ AgentStep
    \/ TickerFires
    \/ Signal
    \/ Serve
    \/ Crash

AgentSpec == AInit /\ [][ANext]_avars

\* The main goroutine runs when it can; select does not pass the signal over
\* for ever, for Go chooses at random among the cases that are ready.
FairAgentSpec ==
    /\ AgentSpec
    /\ WF_avars(AgentStep)
    /\ SF_avars(TakeSignal)

-----------------------------------------------------------------------------
(* Properties *)

\* Type invariant of the process and of the pusher in it.
ATypeOK ==
    /\ TypeOK
    /\ phase \in Phases
    /\ signalled \in BOOLEAN /\ tick \in BOOLEAN
    /\ goodbye \in 0 .. made

\* The main goroutine and the pusher agree on who is at work: a call is under
\* way exactly in the phases that wait for one, unless the process died; the
\* stop has been asked for; and only its last batch, which is in the hands of
\* SendOnce, carries up=0.
Composition ==
    /\ phase # "dead" => (pc # "idle" <=> phase \in DOMAIN After)
    /\ phase \in {"flush", "final", "goodbye", "stopped"} => signalled
    /\ phase \in {"flush", "final"} => left <= ShutdownBudget
    /\ phase = "goodbye" => pc \in {"once", "oncePost", "onceWait"}
    /\ goodbye # 0 => goodbye = made /\ phase \in {"goodbye", "stopped", "dead"}

\* The goodbye is the last thing the agent does: once it is made nothing more is
\* collected and no request leaves for another batch, so no cycle and no
\* buffered batch with up=1 is posted behind it (main.go 282-298).  Of what the
\* server stores last this says nothing: a request of an earlier batch that the
\* flush gave up may still be stored after it.
GoodbyeIsLast ==
    [][goodbye # 0 => made' = made /\ (Posts => Posted = goodbye)]_avars

\* A stop ends without having posted the goodbye only when its deadline is used
\* up.  The signal that asks for the stop does not cut it: the flush, the last
\* collection and every attempt of SendOnce run under a context of their own
\* (main.go 228, 243 and 283), and neither a rejection nor a failure of the
\* flush ends the stop before the first attempt of the goodbye.
GoodbyeUnlessLate == phase = "stopped" /\ left > 0 => goodbye \in wire \union stored

\* Flush, the last collection and SendOnce share the one deadline of the stop
\* (main.go 283): no part of it gets time of its own.
OneBudget ==
    [][(phase \in {"flush", "final", "goodbye"}) => left' <= left]_avars

\* After the signal the process ends, whatever the server does.
StopsAfterSignal == signalled ~> phase \in Gone

\* METRICS.md 249-250: "On SIGTERM or SIGINT the agent sends one last batch with
\* up=0."  Read as: when the process has stopped, the goodbye was posted.
GoodbyeIsPosted == phase = "stopped" => goodbye \in wire \union stored
=============================================================================
