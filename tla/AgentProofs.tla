---------------------------- MODULE AgentProofs ----------------------------
(***************************************************************************)
(* Theorems about Agent.tla: the process uses the pusher as Pusher.tla     *)
(* assumes, so that what PusherProofs.tla proves of the pusher holds in    *)
(* the process, and the stop keeps its order and its deadline.             *)
(***************************************************************************)
EXTENDS Agent, PusherProofs

\* The context of the stop is never cancelled, and as long as it has time left the
\* goodbye is posted before the first outcome of SendOnce.
StopUncut ==
    /\ phase \in {"flush", "final", "goodbye"} => ~cancelled
    /\ phase = "goodbye" => goodbye = made
    /\ phase = "goodbye" /\ pc # "once" /\ left > 0 => goodbye \in wire \union stored
    /\ phase = "stopped" /\ left > 0 => goodbye \in wire \union stored

AgentIInv == IInv /\ ATypeOK /\ Composition /\ StopUncut

(***************************************************************************)
(* What the steps of a call leave alone                                    *)
(***************************************************************************)

\* The steps inside a call make no batch and spend, at most, the time left.
LEMMA StepSpends == IInv /\ Step => made' = made /\ left' <= left
<1> SUFFICES ASSUME IInv, Step PROVE made' = made /\ left' <= left
  OBVIOUS
<1> USE DEF caller, context, server, fates
<1>1. /\ left \in Nat /\ attempt \in Nat
      /\ OnceRetryDelay \in Nat /\ RequestTimeout \in Nat
      /\ pc = "backoff" => backoff[attempt + 1] \in Nat
  BY PusherAssumption, ElementOfSeq DEF IInv, TypeOK, Control
<1>2. ASSUME NEW d \in Ticks, Outcome(d) PROVE made' = made /\ left' <= left
  <2>1. left' = left - d /\ d \in Nat
    BY <1>1, <1>2 DEF Outcome, Spend, Ticks, FlushAccepted, FlushRejected, FlushFailed,
       SendAccepted, SendRejected, SendFailed, OnceAccepted, OnceRejected, OnceFailed
  <2>2. made' = made
    BY <1>2 DEF Outcome, FlushAccepted, FlushRejected, FlushFailed,
       SendAccepted, SendRejected, SendFailed, OnceAccepted, OnceRejected, OnceFailed
  <2>3. QED
    BY <1>1, <2>1, <2>2
<1>3. CASE SendWakes \/ OnceWakes
  BY <1>1, <1>3 DEF SendWakes, OnceWakes, Spend
<1>4. CASE SendCut \/ OnceCut
  BY <1>1, <1>4 DEF SendCut, OnceCut
<1>5. CASE FlushDone \/ FlushPost \/ SendPost \/ SendExpired \/ OncePost \/ OnceExpired
  BY <1>1, <1>5 DEF FlushDone, FlushPost, SendPost, SendExpired, OncePost, OnceExpired
<1>6. QED
  BY <1>2, <1>3, <1>4, <1>5 DEF Step

OnceLabels == {"once", "oncePost", "onceWait"}

\* SendOnce stays SendOnce until it returns; it leaves its first place only with a
\* request, or because its context has ended.
LEMMA OnceStaysOnce ==
    Step /\ pc \in OnceLabels =>
        /\ pc' \in OnceLabels \union {"idle"}
        /\ wire \subseteq wire' /\ stored' = stored
        /\ pc = "once" => Over \/ cur \in wire'
<1> SUFFICES ASSUME Step, pc \in OnceLabels
             PROVE  /\ pc' \in OnceLabels \union {"idle"}
                    /\ wire \subseteq wire' /\ stored' = stored
                    /\ pc = "once" => Over \/ cur \in wire'
  OBVIOUS
<1> USE DEF OnceLabels, server, Return, OnceGivesUp, OnceAgain
<1>1. ~(FlushDone \/ FlushPost \/ SendPost \/ SendExpired \/ SendWakes \/ SendCut)
  BY DEF FlushDone, FlushPost, SendPost, SendExpired, SendWakes, SendCut
<1>2. CASE OncePost \/ OnceExpired \/ OnceWakes \/ OnceCut
  BY <1>2 DEF OncePost, OnceExpired, OnceWakes, OnceCut, Request
<1>3. ASSUME NEW d \in Ticks, Outcome(d)
      PROVE  /\ pc' \in OnceLabels \union {"idle"}
             /\ wire \subseteq wire' /\ stored' = stored
             /\ pc # "once"
  <2>1. ~(FlushAccepted(d) \/ FlushRejected(d) \/ FlushFailed(d)
            \/ SendAccepted(d) \/ SendRejected(d) \/ SendFailed(d))
    BY DEF FlushAccepted, FlushRejected, FlushFailed,
           SendAccepted, SendRejected, SendFailed
  <2>2. OnceAccepted(d) \/ OnceRejected(d) \/ OnceFailed(d)
    BY <1>3, <2>1 DEF Outcome
  <2>3. QED
    BY <2>2 DEF OnceAccepted, OnceRejected, OnceFailed
<1>4. QED
  BY <1>1, <1>2, <1>3 DEF Step

\* The context is cancelled from outside only.
LEMMA StepKeepsContext == Step => cancelled' = cancelled
<1> SUFFICES ASSUME Step PROVE cancelled' = cancelled
  OBVIOUS
<1> USE DEF context
<1>1. ASSUME NEW d \in Ticks, Outcome(d) PROVE cancelled' = cancelled
  BY <1>1 DEF Outcome, FlushAccepted, FlushRejected, FlushFailed,
     SendAccepted, SendRejected, SendFailed, OnceAccepted, OnceRejected, OnceFailed
<1>2. QED
  BY <1>1 DEF Step, FlushDone, FlushPost, SendPost, SendExpired, SendWakes, SendCut,
     OncePost, OnceExpired, OnceWakes, OnceCut

(***************************************************************************)
(* The agent takes steps of the pusher                                     *)
(***************************************************************************)

\* Every step of the process is a step of the pusher or does not touch it.
LEMMA AgentStepsPusher == AgentIInv /\ [ANext]_avars => [Next]_vars
<1> SUFFICES ASSUME AgentIInv, [ANext]_avars PROVE [Next]_vars
  OBVIOUS
<1> USE DEF pusher
<1>1. CASE JitterCut \/ TakeSignal
  <2>1. ShutdownBudget \in Budgets
    BY AgentAssumption
  <2>2. CallFlush(ShutdownBudget, FALSE)
    BY <1>1 DEF JitterCut, TakeSignal, BeginsStop
  <2>3. QED
    BY <2>1, <2>2 DEF Next, Call
<1>2. CASE Cycle
  BY <1>2 DEF Cycle, Next, Call, ATypeOK, AgentIInv
<1>3. ASSUME NEW d \in 0 .. ShutdownBudget, Final(d) PROVE [Next]_vars
  <2>1. left - d \in Budgets /\ cancelled \in BOOLEAN
    BY <1>3, AgentAssumption DEF Final, AgentIInv, IInv, TypeOK, Composition
  <2>2. QED
    BY <1>3, <2>1 DEF Final, Next, Call
<1>4. CASE InCall
  BY <1>4 DEF InCall, Next
<1>5. CASE Signal
  BY <1>5 DEF Signal, Next
<1>6. CASE Serve
  BY <1>6 DEF Serve, Next
<1>7. CASE Prime \/ JitterEnds \/ TakeTick \/ TickerFires \/ Crash
  BY <1>7 DEF Prime, JitterEnds, TakeTick, BeginsCycle, TickerFires, Crash
<1>8. CASE UNCHANGED avars
  BY <1>8 DEF avars
<1>9. QED
  BY <1>1, <1>2, <1>3, <1>4, <1>5, <1>6, <1>7, <1>8 DEF ANext, AgentStep

(***************************************************************************)
(* The inductive invariant of the process                                  *)
(***************************************************************************)

LEMMA InitAgent == AInit => AgentIInv
<1> SUFFICES ASSUME AInit PROVE AgentIInv
  OBVIOUS
<1>1. IInv
  BY InitIInv DEF AInit
<1>2. phase = "prime" /\ pc = "idle" /\ goodbye = 0 /\ made = 0
  BY DEF AInit, Init
<1>3. signalled \in BOOLEAN /\ tick \in BOOLEAN
  BY Zenon DEF AInit
<1>4. ATypeOK
  BY <1>1, <1>2, <1>3 DEF IInv, ATypeOK, Phases
<1>5. Composition /\ StopUncut
  BY <1>2 DEF Composition, StopUncut, After
<1>6. QED
  BY <1>1, <1>4, <1>5 DEF AgentIInv

LEMMA NextAgent == AgentIInv /\ [ANext]_avars => AgentIInv'
<1> SUFFICES ASSUME AgentIInv, [ANext]_avars PROVE AgentIInv'
  OBVIOUS
<1>1. IInv'
  BY AgentStepsPusher, NextIInv DEF AgentIInv
<1>2. /\ TypeOK /\ Control /\ TypeOK' /\ ATypeOK /\ Composition /\ StopUncut
      /\ made \in Nat /\ left \in Nat /\ ShutdownBudget \in Nat
      /\ made' \in Nat /\ left' \in Nat
  BY <1>1, AgentAssumption DEF AgentIInv, IInv, TypeOK
<1> USE DEF ATypeOK, Composition, StopUncut, Phases, After, Begin, Gone, pusher, context,
            server, vars, caller
<1>3. CASE Prime \/ JitterEnds \/ TakeTick \/ TickerFires \/ Crash
  <2>1. UNCHANGED <<pc, left, made, cancelled, wire, stored>>
    BY <1>3 DEF Prime, JitterEnds, TakeTick, BeginsCycle, TickerFires, Crash
  <2>2. ATypeOK' /\ Composition' /\ StopUncut'
    BY <1>2, <1>3, <2>1 DEF Prime, JitterEnds, TakeTick, BeginsCycle, TickerFires, Crash
  <2>3. QED
    BY <1>1, <2>2 DEF AgentIInv
<1>4. CASE JitterCut \/ TakeSignal
  <2>1. ATypeOK' /\ Composition' /\ StopUncut'
    BY <1>2, <1>4 DEF JitterCut, TakeSignal, BeginsStop, CallFlush, BringsNothing
  <2>2. QED
    BY <1>1, <2>1 DEF AgentIInv
<1>5. CASE Cycle
  <2>1. ATypeOK' /\ Composition' /\ StopUncut'
    BY <1>2, <1>5 DEF Cycle, CallSend, Brings
  <2>2. QED
    BY <1>1, <2>1 DEF AgentIInv
<1>6. ASSUME NEW d \in 0 .. ShutdownBudget, Final(d) PROVE AgentIInv'
  <2>1. ATypeOK' /\ Composition' /\ StopUncut'
    BY <1>2, <1>6 DEF Final, CallSendOnce, Brings
  <2>2. QED
    BY <1>1, <2>1 DEF AgentIInv
<1>7. CASE InCall
  <2>1. made' = made /\ left' <= left
    BY <1>7, StepSpends DEF InCall, AgentIInv
  <2>2. phase = "goodbye" => pc' \in OnceLabels \union {"idle"}
    BY <1>2, <1>7, OnceStaysOnce DEF InCall, OnceLabels
  <2>3. ATypeOK'
    BY <1>2, <1>7, <2>1 DEF InCall
  <2>4. Composition'
    BY <1>2, <1>7, <2>1, <2>2 DEF InCall, OnceLabels
  <2>5. StopUncut'
    <3>1. cancelled' = cancelled /\ goodbye' = goodbye
      BY <1>7, StepKeepsContext DEF InCall
    <3>2. CASE phase = "goodbye"
      <4>1. /\ wire \subseteq wire' /\ stored' = stored
            /\ pc = "once" => left = 0 \/ cur \in wire'
        BY <1>2, <1>7, <3>2, OnceStaysOnce DEF InCall, OnceLabels, Over
      <4>2. cur = goodbye
        BY <1>2, <3>2 DEF Control
      <4>3. ASSUME left' > 0 PROVE goodbye \in wire' \union stored'
        <5>1. left > 0
          BY <1>2, <2>1, <4>3
        <5>2. pc = "once" => cur \in wire'
          BY <4>1, <5>1
        <5>3. pc # "once" => goodbye \in wire \union stored
          BY <1>2, <3>2, <5>1
        <5>4. QED
          BY <4>1, <4>2, <5>2, <5>3
      <4>4. QED
        BY <1>2, <1>7, <2>1, <3>1, <3>2, <4>3 DEF InCall
    <3>3. CASE phase # "goodbye"
      BY <1>2, <1>7, <2>1, <3>1, <3>3 DEF InCall
    <3>4. QED
      BY <3>2, <3>3
  <2>6. QED
    BY <1>1, <2>3, <2>4, <2>5 DEF AgentIInv
<1>8. CASE Signal
  <2>1. /\ UNCHANGED <<pc, left, made, phase, goodbye, tick, wire, stored>>
        /\ phase # "push" => cancelled' = cancelled
    BY <1>8 DEF Signal, Cancel
  <2>2. ATypeOK' /\ Composition' /\ StopUncut'
    BY <1>2, <1>8, <2>1 DEF Signal
  <2>3. QED
    BY <1>1, <2>2 DEF AgentIInv
<1>9. CASE Serve \/ UNCHANGED avars
  <2>1. /\ UNCHANGED <<pc, left, made, cancelled, process>>
        /\ wire' \union stored' = wire \union stored
    BY <1>9 DEF Serve, ServerStores, avars
  <2>2. ATypeOK' /\ Composition' /\ StopUncut'
    BY <1>2, <2>1 DEF process
  <2>3. QED
    BY <1>1, <2>2 DEF AgentIInv
<1>10. QED
  BY <1>3, <1>4, <1>5, <1>6, <1>7, <1>8, <1>9 DEF ANext, AgentStep

LEMMA AgentInvariance == AgentSpec => []AgentIInv
<1>1. QED
  BY InitAgent, NextAgent, PTL DEF AgentSpec

\* Type correctness of the process.
THEOREM AgentTypeCorrect == AgentSpec => []ATypeOK
<1>1. AgentIInv => ATypeOK
  BY DEF AgentIInv
<1>2. QED
  BY <1>1, AgentInvariance, PTL

\* The main goroutine and the pusher stay in step through the loop, the signal,
\* the stop and a crash (main.go 220-296).
THEOREM InStep == AgentSpec => []Composition
<1>1. AgentIInv => Composition
  BY DEF AgentIInv
<1>2. QED
  BY <1>1, AgentInvariance, PTL

\* The process uses the pusher as Pusher.tla assumes.
THEOREM AgentUsesPusher == AgentSpec => Spec
<1>1. AInit => Init
  BY DEF AInit
<1>2. QED
  BY <1>1, AgentStepsPusher, AgentInvariance, PTL DEF AgentSpec, Spec

\* What is proved of the pusher therefore holds in the process: whatever the
\* loop, the signal and the stop do, no batch is lost silently.
THEOREM AgentLosesNothingSilently == AgentSpec => []NothingLost
<1>1. QED
  BY AgentUsesPusher, NoSilentLoss, PTL

\* Nor does the process disturb the rest of what the pusher promises: the counters
\* of the summary line, the order of the buffer, the price of a loss, the end of what
\* is settled, and the delivery box as a whole.
THEOREM AgentKeepsPromises ==
    AgentSpec => /\ [](CountersAddUp /\ OldestFirst /\ LossNeedsYounger)
                 /\ NeverPostedAgain
                 /\ ImplementsOutbox
<1>1. QED
  BY AgentUsesPusher, CountersTruthful, BufferInOrder, LossIsLate, SettledStaysSettled,
     RefinesOutbox, PTL

(***************************************************************************)
(* The stop                                                                *)
(***************************************************************************)

\* Once the goodbye is made nothing else is collected or posted.
THEOREM GoodbyeLast == AgentSpec => GoodbyeIsLast
<1>1. AgentIInv /\ [ANext]_avars =>
        [goodbye # 0 => made' = made /\ (Posts => Posted = goodbye)]_avars
  <2> SUFFICES ASSUME AgentIInv, ANext, goodbye # 0
               PROVE made' = made /\ (Posts => Posted = goodbye)
    OBVIOUS
  <2>1. /\ phase \in {"goodbye", "stopped", "dead"} /\ goodbye = made
        /\ phase = "goodbye" => pc \in OnceLabels
    BY DEF AgentIInv, Composition, OnceLabels
  <2>2. CASE InCall
    <3>1. phase = "goodbye"
      BY <2>1, <2>2 DEF InCall, After
    <3>2. cur = goodbye
      BY <2>1, <3>1 DEF AgentIInv, IInv, Control, OnceLabels
    <3>3. pc' # "flushPost" /\ made' = made
      BY <2>1, <2>2, <3>1, OnceStaysOnce, StepSpends DEF InCall, OnceLabels, AgentIInv
    <3>4. QED
      BY <3>2, <3>3 DEF Posted
  <2>3. CASE Serve
    BY <2>3 DEF Serve, ServerStores, caller, Posts
  <2>4. CASE Signal \/ TickerFires \/ Crash
    BY <2>4 DEF Signal, TickerFires, Crash, pusher, vars, caller, Cancel, Posts
  <2>5. QED
    BY <2>1, <2>2, <2>3, <2>4 DEF ANext, AgentStep, Prime, JitterEnds, JitterCut,
       TakeTick, TakeSignal, Cycle, Final
<1>2. QED
  BY <1>1, AgentInvariance, PTL DEF AgentSpec, GoodbyeIsLast

\* The goodbye is posted in every stop whose deadline is not used up, for whatever
\* the signal, the server, the collection and the buffer do in it.
THEOREM GoodbyeSentInTime == AgentSpec => []GoodbyeUnlessLate
<1>1. AgentIInv => GoodbyeUnlessLate
  BY DEF AgentIInv, StopUncut, GoodbyeUnlessLate
<1>2. QED
  BY <1>1, AgentInvariance, PTL

\* The parts of the stop share one deadline.
THEOREM StopSharesBudget == AgentSpec => OneBudget
<1>1. AgentIInv /\ [ANext]_avars =>
        [(phase \in {"flush", "final", "goodbye"}) => left' <= left]_avars
  <2> SUFFICES ASSUME AgentIInv, ANext, phase \in {"flush", "final", "goodbye"}
               PROVE left' <= left
    OBVIOUS
  <2>1. left \in Nat
    BY DEF AgentIInv, IInv, TypeOK
  <2>2. CASE InCall
    BY <2>2, StepSpends DEF InCall, AgentIInv
  <2>3. ASSUME NEW d \in 0 .. ShutdownBudget, Final(d) PROVE left' <= left
    BY <2>1, <2>3, AgentAssumption DEF Final, CallSendOnce, Begin
  <2>4. CASE Serve
    BY <2>1, <2>4 DEF Serve, ServerStores, context
  <2>5. CASE Signal \/ TickerFires \/ Crash
    BY <2>1, <2>5 DEF Signal, TickerFires, Crash, pusher, vars, context, Cancel
  <2>6. QED
    BY <2>2, <2>3, <2>4, <2>5 DEF ANext, AgentStep, Prime, JitterEnds, JitterCut,
       TakeTick, TakeSignal, Cycle
<1>2. QED
  BY <1>1, AgentInvariance, PTL DEF AgentSpec, OneBudget

(***************************************************************************)
(* The stop is short                                                       *)
(***************************************************************************)

\* The steps the stop still has before it, at most
StopLeft ==
    CASE phase = "flush" -> StepsLeft + Longest + 1
      [] phase = "final" -> Longest + 1
      [] phase = "goodbye" -> StepsLeft
      [] OTHER -> 0

Stopping == {"flush", "final", "goodbye"}

LEMMA StopAdvances ==
    ASSUME AgentIInv, AttemptCounted, AgentIInv', AttemptCounted', phase \in Stopping, AgentStep
    PROVE  phase' \in Stopping \union Gone /\ StopLeft' < StopLeft /\ StopLeft' \in Int
<1>1. /\ StepsLeft \in 0 .. Longest /\ (pc = "idle" <=> StepsLeft = 0)
  BY StepsBounded DEF AgentIInv, IInv
<1>2. Longest \in Nat
  BY PusherAssumption DEF Longest, Attempts
<1> HIDE DEF Longest
<1>3. CASE phase = "final"
  <2>1. PICK d \in 0 .. ShutdownBudget : Final(d)
    BY <1>3 DEF AgentStep, Prime, JitterEnds, JitterCut, TakeTick, TakeSignal, Cycle, InCall, After
  <2>2. phase' = "goodbye" /\ pc' = "once" /\ attempt' = attempt /\ pc = "idle"
    BY <2>1 DEF Final, CallSendOnce, Begin
  <2>3. attempt = 0
    BY <2>2 DEF AttemptCounted
  <2>4. StepsLeft' = 3 * OnceRetries + 3
    BY <2>2, <2>3, PusherAssumption DEF StepsLeft
  <2>5. StepsLeft' \in Nat /\ StepsLeft' <= Longest
    BY <2>4, PusherAssumption DEF Longest, Attempts
  <2>6. QED
    BY <1>2, <1>3, <2>2, <2>5 DEF StopLeft, Stopping
<1>4. CASE phase \in {"flush", "goodbye"}
  <2>1. InCall
    BY <1>4 DEF AgentStep, Prime, JitterEnds, JitterCut, TakeTick, TakeSignal, BeginsStop, Cycle, Final
  <2>2. Step /\ phase' = IF pc' = "idle" THEN After[phase] ELSE phase
    BY <2>1 DEF InCall
  <2>3. StepsLeft' < StepsLeft /\ StepsLeft' \in Int
    BY <2>2, StepWalks, WalkShortens DEF AgentIInv, IInv
  <2>4. CASE pc' = "idle"
    <3>1. StepsLeft \in Nat /\ StepsLeft > 0
      <4>1. pc # "idle"
        BY <1>4 DEF AgentIInv, Composition, After
      <4>2. QED
        BY <1>1, <1>2, <4>1
    <3>2. CASE phase = "flush"
      BY <1>2, <2>2, <2>4, <3>1, <3>2 DEF After, StopLeft, Stopping
    <3>3. CASE phase = "goodbye"
      BY <1>2, <2>2, <2>4, <3>1, <3>3 DEF After, StopLeft, Stopping, Gone
    <3>4. QED
      BY <1>4, <3>2, <3>3
  <2>5. CASE pc' # "idle"
    <3>1. phase' = phase
      BY <2>2, <2>5
    <3>2. StepsLeft \in Int
      BY <1>1, <1>2
    <3>3. QED
      BY <1>2, <1>4, <2>3, <3>1, <3>2 DEF StopLeft, Stopping
  <2>6. QED
    BY <2>4, <2>5
<1>5. QED
  BY <1>3, <1>4 DEF Stopping

\* What happens around the process does not hold the stop up.
LEMMA StopUndisturbed ==
    ASSUME AgentIInv, AttemptCounted, phase \in Stopping, [ANext]_avars, ~AgentStep
    PROVE  phase' \in Stopping \union Gone /\ StopLeft' <= StopLeft
<1>1. /\ StepsLeft \in 0 .. Longest /\ Longest \in Nat
  BY StepsBounded, PusherAssumption DEF AgentIInv, IInv, Longest, Attempts
<1> HIDE DEF Longest
<1>2. StopLeft \in Nat
  BY <1>1 DEF StopLeft, Stopping
<1>3. CASE Crash
  BY <1>2, <1>3 DEF Crash, Gone, StopLeft
<1>4. CASE TickerFires \/ Signal \/ Serve \/ UNCHANGED avars
  <2>1. UNCHANGED <<phase, pc, attempt, pending>>
    BY <1>4 DEF TickerFires, Signal, Serve, ServerStores, process, avars, pusher, vars, caller, Stopping
  <2>2. StopLeft' = StopLeft
    BY <2>1 DEF StopLeft, StepsLeft
  <2>3. QED
    BY <1>2, <2>1, <2>2
<1>5. QED
  BY <1>3, <1>4 DEF ANext

\* Once the stop has begun nothing turns it back, and it is over after at most
\* 2 * Longest + 1 steps of the main goroutine, whatever the server does: each
\* step of it brings the end nearer, and no tick, second signal or late request
\* takes it further away (shutdown, main.go 282-298).
StopGoesOn ==
    phase \in Stopping =>
        /\ phase' \in Stopping \union Gone
        /\ StopLeft' <= StopLeft /\ StopLeft \in 0 .. 2 * Longest + 1
        /\ AgentStep => StopLeft' < StopLeft

\* What the liveness property StopsAfterSignal rests on, for every value of the
\* constants: the stop runs out of steps.
THEOREM StopIsShort == AgentSpec => [][StopGoesOn]_avars
<1>1. AgentIInv /\ AttemptCounted /\ AgentIInv' /\ AttemptCounted' /\ [ANext]_avars
        => [StopGoesOn]_avars
  <2> SUFFICES ASSUME AgentIInv, AttemptCounted, AgentIInv', AttemptCounted', [ANext]_avars,
                      phase \in Stopping
               PROVE  /\ phase' \in Stopping \union Gone
                      /\ StopLeft' <= StopLeft /\ StopLeft \in 0 .. 2 * Longest + 1
                      /\ AgentStep => StopLeft' < StopLeft
    BY DEF StopGoesOn
  <2>1. StepsLeft \in 0 .. Longest /\ Longest \in Nat
    BY StepsBounded, PusherAssumption DEF AgentIInv, IInv, Longest, Attempts
  <2> HIDE DEF Longest
  <2>2. StopLeft \in 0 .. 2 * Longest + 1
    BY <2>1 DEF StopLeft, Stopping
  <2>3. CASE AgentStep
    <3>1. phase' \in Stopping \union Gone /\ StopLeft' < StopLeft /\ StopLeft' \in Int
      BY <2>3, StopAdvances
    <3>2. QED
      BY <2>2, <3>1
  <2>4. CASE ~AgentStep
    BY <2>2, <2>4, StopUndisturbed
  <2>5. QED
    BY <2>3, <2>4
<1>2. AgentSpec => [](AgentIInv /\ AttemptCounted)
  BY AgentInvariance, AgentUsesPusher, StepsInvariance, PTL
<1>3. QED
  BY <1>1, <1>2, PTL DEF AgentSpec
=============================================================================
