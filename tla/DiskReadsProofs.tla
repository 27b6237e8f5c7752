-------------------------- MODULE DiskReadsProofs --------------------------
(***************************************************************************)
(* Theorems about the reads of the host collector, for any names, mounts   *)
(* and number of calls.  The first part is about the guard alone, the      *)
(* specification Spec of Deadline.tla.  The second part is about the loop  *)
(* of DiskReads.tla: it uses the guard as Deadline.tla says, and it        *)
(* implements Mounts.tla.                                                  *)
(***************************************************************************)
EXTENDS DiskReads, FiniteSetTheorems, TLAPS

-----------------------------------------------------------------------------
(* The guard *)

\* A result is in a channel only after its goroutine sent it, and the collector
\* that still looks into the channel finds it there.
ChannelInv ==
    /\ \A k \in Calls : ch[k] = "full" => go[k] \in {"sent", "done"}
    /\ worker \in {"select", "late"} =>
          (go[waits] \in {"sent", "done"} => ch[waits] = "full")

\* The collector waits for the only call of that name that may be running.
WaitInv ==
    worker # "idle" =>
        \A j \in Calls : Running(j) /\ name[j] = name[waits] => j = waits

\* The collector looks a second time only for a reason.
LateInv == worker = "late" => Done

IInv ==
    /\ TypeOK
    /\ OneCallAtATime
    /\ FlagIsTruthful
    /\ ChannelInv
    /\ WaitInv
    /\ LateInv
    /\ NextCanStart
    /\ NoFalseTimeout

LEMMA InitIInv == Init => IInv
<1> SUFFICES ASSUME Init PROVE IInv
  OBVIOUS
<1>1. Calls = {} /\ started = 0 /\ worker = "idle" /\ inflight = {}
  BY DEF Init, Calls
<1>2. TypeOK
  <2>1. last \in [name : Name, outcome : Outcomes]
    BY DeadlineAssumption DEF Init, Outcomes
  <2>2. /\ name \in [Calls -> Name] /\ go \in [Calls -> GoLabels]
        /\ ch \in [Calls -> {"empty", "full"}]
    BY <1>1 DEF Init
  <2>3. inflight \subseteq Name /\ started \in Nat /\ waits \in 0 .. started
    BY <1>1 DEF Init
  <2>4. /\ worker \in WorkerLabels /\ worker = "idle"
        /\ expired \in BOOLEAN /\ cancelled \in BOOLEAN
    BY DEF Init, WorkerLabels
  <2>5. QED
    BY <2>1, <2>2, <2>3, <2>4 DEF TypeOK
<1>3. OneCallAtATime /\ FlagIsTruthful /\ ChannelInv
  BY <1>1 DEF OneCallAtATime, FlagIsTruthful, ChannelInv
<1>4. WaitInv /\ LateInv /\ NextCanStart /\ NoFalseTimeout
  BY <1>1 DEF WaitInv, LateInv, NextCanStart, NoFalseTimeout
<1>5. QED
  BY <1>2, <1>3, <1>4 DEF IInv

\* A new goroutine leaves the others as they are.
LEMMA StartEffect ==
    ASSUME TypeOK, NEW n \in Name, Start(n)
    PROVE  /\ started' = started + 1 /\ started' \in Calls'
           /\ Calls' = Calls \union {started'} /\ started' \notin Calls
           /\ \A k \in Calls : name'[k] = name[k] /\ go'[k] = go[k] /\ ch'[k] = ch[k]
           /\ name'[started'] = n /\ go'[started'] = "running" /\ ch'[started'] = "empty"
           /\ name' \in [Calls' -> Name] /\ go' \in [Calls' -> GoLabels]
           /\ ch' \in [Calls' -> {"empty", "full"}]
<1>1. started \in Nat /\ started' = started + 1
  BY DEF TypeOK, Start, Free, Newest
<1>2. Calls' = Calls \union {started'} /\ started' \notin Calls /\ Calls' = 1 .. started + 1
  BY <1>1 DEF Calls
<1>3. /\ name' = [k \in Calls' |-> IF k \in Calls THEN name[k] ELSE n]
      /\ go' = [k \in Calls' |-> IF k \in Calls THEN go[k] ELSE "running"]
      /\ ch' = [k \in Calls' |-> IF k \in Calls THEN ch[k] ELSE "empty"]
  BY <1>2 DEF Start, With, Free, Newest
<1>4. \A k \in Calls : name'[k] = name[k] /\ go'[k] = go[k] /\ ch'[k] = ch[k]
  BY <1>2, <1>3
<1>5. name'[started'] = n /\ go'[started'] = "running" /\ ch'[started'] = "empty"
  BY <1>2, <1>3
<1>6. /\ name' \in [Calls' -> Name] /\ go' \in [Calls' -> GoLabels]
      /\ ch' \in [Calls' -> {"empty", "full"}]
  BY <1>3 DEF TypeOK, GoLabels
<1>7. QED
  BY <1>1, <1>2, <1>4, <1>5, <1>6

LEMMA StartKeeps == ASSUME IInv, NEW n \in Name, Start(n) PROVE IInv'
<1>1. /\ started' = started + 1 /\ started' \in Calls'
      /\ Calls' = Calls \union {started'} /\ started' \notin Calls
      /\ \A k \in Calls : name'[k] = name[k] /\ go'[k] = go[k] /\ ch'[k] = ch[k]
      /\ name'[started'] = n /\ go'[started'] = "running" /\ ch'[started'] = "empty"
      /\ name' \in [Calls' -> Name] /\ go' \in [Calls' -> GoLabels]
      /\ ch' \in [Calls' -> {"empty", "full"}]
  BY StartEffect DEF IInv
<1>2. /\ inflight' = inflight \union {n} /\ n \notin inflight
      /\ worker' = "select" /\ waits' = started' /\ expired' = FALSE
      /\ UNCHANGED <<cancelled, last>>
  BY <1>1 DEF Start, Free, Newest
<1>3. \A k \in Calls : Running(k) => name[k] # n
  BY <1>2 DEF IInv, FlagIsTruthful
<1>4. \A k \in Calls : Running(k)' <=> Running(k)
  BY <1>1 DEF Running
<1>5. TypeOK'
  <2>1. started' \in Nat /\ waits' \in 0 .. started' /\ waits' # 0
    BY <1>1, <1>2 DEF IInv, TypeOK
  <2>2. QED
    BY <1>1, <1>2, <2>1 DEF IInv, TypeOK, WorkerLabels
<1>6. OneCallAtATime' /\ WaitInv'
  BY <1>1, <1>2, <1>3, <1>4 DEF IInv, OneCallAtATime, WaitInv, Running
<1>7. FlagIsTruthful'
  <2> SUFFICES ASSUME NEW m \in Name
               PROVE  m \in inflight' <=> \E k \in Calls' : Running(k)' /\ name'[k] = m
    BY DEF FlagIsTruthful
  <2>1. m \in inflight <=> \E k \in Calls : Running(k) /\ name[k] = m
    BY DEF IInv, FlagIsTruthful
  <2>2. m = n <=> (go'[started'] \in {"running", "returned"} /\ name'[started'] = m)
    BY <1>1
  <2>3. QED
    BY <1>1, <1>2, <1>4, <2>1, <2>2 DEF Running
<1>8. ChannelInv'
  BY <1>1, <1>2 DEF IInv, ChannelInv
<1>9. LateInv' /\ NextCanStart' /\ NoFalseTimeout'
  BY <1>2 DEF LateInv, NextCanStart, NoFalseTimeout
<1>10. QED
  BY <1>5, <1>6, <1>7, <1>8, <1>9 DEF IInv

LEMMA RefuseKeeps == ASSUME IInv, NEW n \in Name, Refuse(n) PROVE IInv'
BY DEF Refuse, Free, Finish, IInv, TypeOK, OneCallAtATime, FlagIsTruthful, ChannelInv, WaitInv,
       LateInv, NextCanStart, NoFalseTimeout, Running, Calls, Outcomes, WorkerLabels, Done

\* The collector's own steps touch no goroutine.
LEMMA WaitKeeps == ASSUME IInv, Wait PROVE IInv'
<1> USE DEF IInv
<1>1. /\ UNCHANGED <<inflight, started, name, go, waits, expired, cancelled>>
      /\ Calls' = Calls /\ worker # "idle" /\ waits \in Calls
      /\ \A k \in Calls : Running(k)' <=> Running(k)
  BY DEF Wait, Receive, SeeDone, ReceiveLate, GiveUp, Verdict, Take, Calls, Running, TypeOK
<1>2. OneCallAtATime' /\ FlagIsTruthful'
  BY <1>1 DEF OneCallAtATime, FlagIsTruthful
<1>3. CASE Receive \/ ReceiveLate
  <2>1. /\ ch[waits] = "full" /\ ch' = [ch EXCEPT ![waits] = "empty"]
        /\ worker' = "idle" /\ last' = [name |-> name[waits], outcome |-> "value"]
    BY <1>3 DEF Receive, ReceiveLate, Take, Finish
  <2>2. ~Running(waits)
    BY <1>1, <2>1 DEF ChannelInv, Running
  <2>3. name[waits] \notin inflight
    <3>1. ~ \E j \in Calls : Running(j) /\ name[j] = name[waits]
      BY <1>1, <2>2 DEF WaitInv
    <3>2. name[waits] \in Name
      BY <1>1 DEF TypeOK
    <3>3. QED
      BY <3>1, <3>2 DEF FlagIsTruthful
  <2>4. NextCanStart'
    BY <1>1, <2>1, <2>3 DEF NextCanStart
  <2>5. TypeOK'
    BY <1>1, <2>1 DEF TypeOK, Outcomes, WorkerLabels
  <2>6. ChannelInv'
    BY <1>1, <2>1 DEF ChannelInv, TypeOK
  <2>7. WaitInv' /\ LateInv' /\ NoFalseTimeout'
    BY <2>1 DEF WaitInv, LateInv, NoFalseTimeout
  <2>8. QED
    BY <1>2, <2>4, <2>5, <2>6, <2>7
<1>4. CASE SeeDone
  BY <1>1, <1>2, <1>4 DEF SeeDone, TypeOK, WorkerLabels, ChannelInv, WaitInv, LateInv, Done,
                          NextCanStart, NoFalseTimeout
<1>5. CASE GiveUp
  <2>1. /\ worker = "late" /\ worker' = "verdict" /\ ch[waits] # "full"
        /\ UNCHANGED <<ch, last>>
    BY <1>5 DEF GiveUp
  <2>2. go[waits] # "done"
    BY <1>1, <2>1 DEF ChannelInv
  <2>3. expired \/ cancelled
    BY <2>1, <2>2 DEF LateInv, Done
  <2>4. QED
    BY <1>1, <1>2, <2>1, <2>3 DEF TypeOK, WorkerLabels, ChannelInv, WaitInv, LateInv,
                                  NextCanStart, NoFalseTimeout
<1>6. CASE Verdict
  <2>1. /\ worker' = "idle" /\ ch' = ch
        /\ last'.outcome # "value" /\ last' \in [name : Name, outcome : Outcomes]
    BY <1>1, <1>6 DEF Verdict, Finish, Outcomes, TypeOK
  <2>2. QED
    BY <1>1, <1>2, <2>1 DEF TypeOK, WorkerLabels, ChannelInv, WaitInv, LateInv,
                            NextCanStart, NoFalseTimeout
<1>7. QED
  BY <1>3, <1>4, <1>5, <1>6 DEF Wait

\* A goroutine changes its own place, its flag and its channel.
LEMMA GoKeeps ==
    ASSUME IInv, NEW k \in Calls, FnReturns(k) \/ End(k) \/ Send(k) \/ Leave(k)
    PROVE  IInv'
<1> USE DEF IInv
<1>1. /\ UNCHANGED <<started, name, worker, waits, expired, cancelled, last>>
      /\ Calls' = Calls
  BY DEF FnReturns, End, Send, Leave, Calls
<1>2. CASE FnReturns(k)
  <2>1. /\ go[k] = "running" /\ go' = [go EXCEPT ![k] = "returned"]
        /\ UNCHANGED <<inflight, ch>>
    BY <1>2 DEF FnReturns, Moves
  <2>2. \A j \in Calls : Running(j)' <=> Running(j)
    BY <1>1, <2>1 DEF Running, TypeOK
  <2>3. QED
    BY <1>1, <2>1, <2>2 DEF TypeOK, GoLabels, OneCallAtATime, FlagIsTruthful, ChannelInv,
                            WaitInv, LateInv, Done, NextCanStart, NoFalseTimeout
<1>3. CASE End(k)
  <2>1. /\ go[k] = "returned" /\ go' = [go EXCEPT ![k] = "ended"]
        /\ inflight' = inflight \ {name[k]} /\ ch' = ch
    BY <1>3 DEF End, Moves
  <2>2. \A j \in Calls : Running(j)' <=> Running(j) /\ j # k
    BY <1>1, <2>1 DEF Running, TypeOK
  <2>3. TypeOK'
    BY <1>1, <2>1 DEF TypeOK, GoLabels
  <2>4. OneCallAtATime' /\ WaitInv'
    BY <1>1, <2>2 DEF OneCallAtATime, WaitInv
  <2>5. FlagIsTruthful'
    <3> SUFFICES ASSUME NEW n \in Name
                 PROVE  n \in inflight' <=> \E j \in Calls : Running(j)' /\ name[j] = n
      BY <1>1 DEF FlagIsTruthful
    <3>1. Running(k)
      BY <2>1 DEF Running
    <3>2. n \in inflight <=> \E j \in Calls : Running(j) /\ name[j] = n
      BY DEF FlagIsTruthful
    <3>3. \A j \in Calls : Running(j) /\ name[j] = name[k] => j = k
      BY <3>1 DEF OneCallAtATime
    <3>4. QED
      BY <2>1, <2>2, <3>1, <3>2, <3>3
  <2>6. ChannelInv' /\ LateInv'
    BY <1>1, <2>1 DEF TypeOK, ChannelInv, LateInv, Done
  <2>7. NextCanStart' /\ NoFalseTimeout'
    BY <1>1, <2>1 DEF NextCanStart, NoFalseTimeout
  <2>8. QED
    BY <2>3, <2>4, <2>5, <2>6, <2>7
<1>4. CASE Send(k) \/ Leave(k)
  <2>1. /\ inflight' = inflight
        /\ \/ /\ go[k] = "ended" /\ go' = [go EXCEPT ![k] = "sent"]
              /\ ch' = [ch EXCEPT ![k] = "full"]
           \/ go[k] = "sent" /\ go' = [go EXCEPT ![k] = "done"] /\ ch' = ch
    BY <1>4 DEF Send, Leave, Moves
  <2>2. \A j \in Calls : Running(j)' <=> Running(j)
    BY <1>1, <2>1 DEF Running, TypeOK
  <2>3. TypeOK'
    BY <1>1, <2>1 DEF TypeOK, GoLabels
  <2>4. OneCallAtATime' /\ WaitInv' /\ FlagIsTruthful'
    BY <1>1, <2>1, <2>2 DEF OneCallAtATime, WaitInv, FlagIsTruthful
  <2>5. \A j \in Calls : j # k => go'[j] = go[j] /\ ch'[j] = ch[j]
    BY <2>1 DEF TypeOK
  <2>6. /\ go'[k] \in {"sent", "done"} /\ (go[k] = "ended" => ch'[k] = "full")
        /\ go[k] # "ended" => ch' = ch /\ go'[k] = "done" /\ go[k] = "sent"
    BY <2>1 DEF TypeOK
  <2>7. ChannelInv'
    <3>1. \A j \in Calls : ch'[j] = "full" => go'[j] \in {"sent", "done"}
      BY <2>5, <2>6 DEF ChannelInv
    <3>2. ASSUME worker \in {"select", "late"}
          PROVE  go'[waits] \in {"sent", "done"} => ch'[waits] = "full"
      <4>1. waits \in Calls
        BY <3>2 DEF TypeOK, Calls
      <4>2. CASE waits = k
        BY <2>6, <3>2, <4>2 DEF ChannelInv
      <4>3. CASE waits # k
        BY <2>5, <3>2, <4>1, <4>3 DEF ChannelInv
      <4>4. QED
        BY <4>2, <4>3
    <3>3. QED
      BY <1>1, <3>1, <3>2 DEF ChannelInv
  <2>8. LateInv'
    <3> SUFFICES ASSUME worker = "late" PROVE Done'
      BY <1>1 DEF LateInv
    <3>1. waits \in Calls /\ Done
      BY DEF TypeOK, Calls, LateInv
    <3>2. go[waits] = "done" => go'[waits] = "done"
      BY <2>5, <2>6, <3>1
    <3>3. QED
      BY <1>1, <3>1, <3>2 DEF Done
  <2>9. NextCanStart' /\ NoFalseTimeout'
    BY <1>1, <2>1 DEF NextCanStart, NoFalseTimeout
  <2>10. QED
    BY <2>3, <2>4, <2>7, <2>8, <2>9
<1>5. QED
  BY <1>2, <1>3, <1>4

LEMMA EnvironmentKeeps == ASSUME IInv, TimerFires \/ Cancel PROVE IInv'
<1> USE DEF IInv
<1>1. /\ UNCHANGED <<inflight, started, name, go, ch, worker, waits, last>>
      /\ expired' \in BOOLEAN /\ cancelled' \in BOOLEAN
      /\ expired => expired'
      /\ cancelled => cancelled'
  BY DEF TimerFires, Cancel, TypeOK
<1>2. Calls' = Calls /\ \A k \in Calls : Running(k)' <=> Running(k)
  BY <1>1 DEF Calls, Running
<1>3. TypeOK'
  BY <1>1, <1>2 DEF TypeOK
<1>4. OneCallAtATime' /\ FlagIsTruthful' /\ ChannelInv' /\ WaitInv'
  BY <1>1, <1>2 DEF OneCallAtATime, FlagIsTruthful, ChannelInv, WaitInv
<1>5. LateInv' /\ NextCanStart' /\ NoFalseTimeout'
  BY <1>1 DEF LateInv, Done, NextCanStart, NoFalseTimeout
<1>6. QED
  BY <1>3, <1>4, <1>5

LEMMA StutterKeeps == ASSUME IInv, UNCHANGED vars PROVE IInv'
BY DEF IInv, vars, TypeOK, OneCallAtATime, FlagIsTruthful, ChannelInv, WaitInv,
       LateInv, NextCanStart, NoFalseTimeout, Running, Calls, Done

LEMMA Invariance == Spec => []IInv
<1>1. IInv /\ [Next]_vars => IInv'
  BY StartKeeps, RefuseKeeps, WaitKeeps, GoKeeps, EnvironmentKeeps, StutterKeeps DEF Next
<1>2. QED
  BY <1>1, InitIInv, PTL DEF Spec

\* The state of the guard is well typed.
THEOREM TypeCorrect == Spec => []TypeOK
<1>1. IInv => TypeOK
  BY DEF IInv
<1>2. QED
  BY <1>1, Invariance, PTL

\* However calls are left behind, return late and are started again, no two calls
\* of one name run at the same time.
THEOREM OneGoroutinePerName == Spec => []OneCallAtATime
<1>1. IInv => OneCallAtATime
  BY DEF IInv
<1>2. QED
  BY <1>1, Invariance, PTL

\* The flag of a name is set exactly while a call of that name runs.
THEOREM FlagTruth == Spec => []FlagIsTruthful
<1>1. IInv => FlagIsTruthful
  BY DEF IInv
<1>2. QED
  BY <1>1, Invariance, PTL

\* A call that was answered is never refused at the next try.
THEOREM AnsweredCanStart == Spec => []NextCanStart
<1>1. IInv => NextCanStart
  BY DEF IInv
<1>2. QED
  BY <1>1, Invariance, PTL

\* An answer that came in time is never reported as a timeout.
THEOREM TimeoutsAreTrue == Spec => []NoFalseTimeout
<1>1. IInv => NoFalseTimeout
  BY DEF IInv
<1>2. QED
  BY <1>1, Invariance, PTL

-----------------------------------------------------------------------------
(* The loop *)

\* While the collector waits for a read, the loop stands at the entry of that mount.
AtRead ==
    worker # "idle" =>
        pc = "read" /\ todo[name[waits]] > 0 /\ ~M!Banned(name[waits])

-----------------------------------------------------------------------------
(* The guard is used as Deadline.tla says *)

LEMMA StepOfGuard == [DNext]_dvars => [Next]_vars
<1> SUFFICES ASSUME [DNext]_dvars PROVE [Next]_vars
  OBVIOUS
<1>1. CASE UNCHANGED dvars
  BY <1>1 DEF dvars, vars
<1>2. CASE ListFails \/ \E table \in [Name -> 0 .. MaxListed] : List(table)
  BY <1>2 DEF ListFails, List
<1>3. CASE Loop
  BY <1>3 DEF Loop, Skip, ReadRefused, ReadStarts, ReadAnswered, ReadGivenUp, Prune, Next, Wait
<1>4. CASE Inside \/ Outside
  BY <1>4 DEF Inside, Outside, Next, Wait
<1>5. QED
  BY <1>1, <1>2, <1>3, <1>4 DEF DNext

\* The guard of collectDisks runs as Deadline.tla says, so that all that is proved
\* there holds of the reads.
THEOREM ReadsUseGuard == DSpec => Spec
<1>1. DInit => Init
  BY DEF DInit
<1>2. QED
  BY <1>1, StepOfGuard, PTL DEF DSpec, Spec

LEMMA GuardInvariance == DSpec => []IInv
BY ReadsUseGuard, Invariance, PTL

-----------------------------------------------------------------------------
(* The loop stands where the collector waits *)

\* The steps inside the guard do not move the collector to another call.
LEMMA InsideKeepsCall ==
    ASSUME TypeOK, Inside \/ Outside
    PROVE  /\ worker' # "idle" => worker # "idle" /\ name'[waits'] = name[waits]
           /\ worker' = "idle" <=> worker = "idle"
           /\ name' = name /\ waits' = waits
           /\ UNCHANGED <<loop, memory>>
BY DEF Inside, Outside, SeeDone, GiveUp, End, Send, Leave, FnReturns, Moves, TimerFires, Cancel, TypeOK

LEMMA StepKeepsAtRead == IInv /\ AtRead /\ [DNext]_dvars => AtRead'
<1> SUFFICES ASSUME IInv, AtRead, [DNext]_dvars PROVE AtRead'
  OBVIOUS
<1>1. CASE UNCHANGED dvars
  BY <1>1 DEF dvars, vars, loop, memory, AtRead, M!Banned
<1>2. CASE ListFails \/ \E table \in [Name -> 0 .. MaxListed] : List(table)
  BY <1>2 DEF ListFails, List, vars, AtRead
<1>3. CASE Inside \/ Outside
  BY <1>3, InsideKeepsCall DEF IInv, AtRead, loop, memory, M!Banned
<1>4. ASSUME NEW m \in Name, ReadStarts(m) PROVE AtRead'
  <2>1. waits' = started' /\ name'[started'] = m
    BY <1>4, StartEffect DEF ReadStarts, Start, Free, Newest, IInv
  <2>2. pc = "read" /\ todo[m] > 0 /\ ~M!Banned(m) /\ UNCHANGED <<loop, memory>>
    BY <1>4 DEF ReadStarts, AtEntry
  <2>3. QED
    BY <2>1, <2>2 DEF AtRead, loop, memory, M!Banned
<1>5. ASSUME NEW m \in Name, Skip(m) \/ ReadRefused(m) PROVE AtRead'
  BY <1>5 DEF Skip, ReadRefused, AtEntry, Refuse, Finish, vars, AtRead
<1>6. CASE ReadAnswered \/ ReadGivenUp \/ Prune
  BY <1>6 DEF ReadAnswered, ReadGivenUp, Receive, ReceiveLate, Take, Verdict, Finish, Prune, vars, AtRead
<1>7. QED
  BY <1>1, <1>2, <1>3, <1>4, <1>5, <1>6 DEF DNext, Loop

-----------------------------------------------------------------------------
(* Every step of the reads is one of Mounts.tla, or none *)

\* The parts of Mounts.tla that are the variables of DiskReads
LEMMA SameVariables ==
    UNCHANGED <<loop, memory>> /\ (inflight \ Awaited)' = inflight \ Awaited => UNCHANGED M!vars
BY DEF loop, memory, M!vars, M!memory, M!history

LEMMA ListIsList ==
    ASSUME NEW table \in [Name -> 0 .. MaxListed], List(table)
    PROVE  M!List(table)
<1>1. (inflight \ Awaited)' = inflight \ Awaited
  BY DEF List, vars, Awaited
<1>2. QED
  BY <1>1 DEF List, M!List, M!memory

LEMMA EntryIsMounts ==
    ASSUME NEW m \in Name, Skip(m) \/ ReadRefused(m) \/ ReadStarts(m), IInv
    PROVE  M!Skip(m) \/ M!TimesOut(m) \/ UNCHANGED M!vars
<1>1. worker = "idle" /\ Awaited = {} /\ pc = "read" /\ todo[m] > 0
  BY DEF Skip, ReadRefused, ReadStarts, AtEntry, Awaited
<1>2. CASE Skip(m)
  <2>1. (inflight \ Awaited)' = inflight \ Awaited
    BY <1>2 DEF Skip, vars, Awaited
  <2>2. QED
    BY <1>1, <1>2, <2>1 DEF Skip, Past, M!Skip, M!ComesTo, M!memory, M!history, memory
<1>3. CASE ReadRefused(m)
  <2>1. m \in inflight /\ inflight' = inflight /\ Awaited' = {}
    BY <1>3 DEF ReadRefused, Refuse, Free, Finish, Awaited
  <2>2. M!ComesTo(m) /\ ~M!Banned(m) /\ M!Counts(m) /\ M!Refused(m)
    BY <1>1, <1>3, <2>1 DEF ReadRefused, Past, M!ComesTo, M!Refused
  <2>3. QED
    BY <2>2 DEF M!TimesOut
<1>4. CASE ReadStarts(m)
  <2>1. /\ waits' = started' /\ name'[started'] = m /\ worker' = "select"
        /\ m \notin inflight /\ inflight' = inflight \union {m}
    BY <1>4, StartEffect DEF ReadStarts, Start, Free, Newest, IInv
  <2>2. Awaited' = {m}
    BY <2>1 DEF Awaited
  <2>3. (inflight \ Awaited)' = inflight \ Awaited
    BY <1>1, <2>1, <2>2
  <2>4. QED
    BY <1>4, <2>3, SameVariables DEF ReadStarts
<1>5. QED
  BY <1>2, <1>3, <1>4

\* An answer that is received has cleared the flag: nothing is left behind.
LEMMA AnsweredIsMounts ==
    ASSUME IInv, AtRead, ReadAnswered
    PROVE  \E m \in Name : M!Fails(m) \/ M!Answers(m)
<1> DEFINE n == name[waits]
<1>1. /\ worker \in {"select", "late"} /\ ch[waits] = "full" /\ inflight' = inflight
      /\ worker' = "idle"
  BY DEF ReadAnswered, Receive, ReceiveLate, Take, Finish
<1>2. waits \in Calls /\ n \in Name
  BY <1>1 DEF IInv, TypeOK, Calls
<1>3. n \notin inflight
  <2>1. ~Running(waits)
    BY <1>1, <1>2 DEF IInv, ChannelInv, Running
  <2>2. ~ \E j \in Calls : Running(j) /\ name[j] = n
    BY <1>1, <2>1 DEF IInv, WaitInv
  <2>3. QED
    BY <1>2, <2>2 DEF IInv, FlagIsTruthful
<1>4. inflight \ Awaited = inflight /\ (inflight \ Awaited)' = inflight
  BY <1>1, <1>3 DEF Awaited
<1>5. /\ M!ComesTo(n) /\ ~M!Banned(n)
      /\ reads' = [reads EXCEPT ![n] = @ + 1]
      /\ M!Clears(n) \/ M!Remembers(n)
  BY <1>1 DEF ReadAnswered, ReadEnds, Past, AtRead, M!ComesTo
<1>6. M!ComesBack(n)
  BY <1>3, <1>4, <1>5 DEF M!ComesBack, M!Starts
<1>7. QED
  BY <1>2, <1>5, <1>6 DEF M!Fails, M!Answers

\* A read that was given up is left behind, or has just come back.
LEMMA GivenUpIsMounts ==
    ASSUME IInv, AtRead, ReadGivenUp
    PROVE  \E m \in Name : M!Fails(m) \/ M!TimesOut(m)
<1> DEFINE n == name[waits]
<1>1. worker = "verdict" /\ inflight' = inflight /\ worker' = "idle"
  BY DEF ReadGivenUp, Verdict, Finish
<1>2. n \in Name
  BY <1>1 DEF IInv, TypeOK, Calls
<1>3. inflight \ Awaited = inflight \ {n} /\ (inflight \ Awaited)' = inflight
  BY <1>1 DEF Awaited
<1>4. /\ M!ComesTo(n) /\ ~M!Banned(n)
      /\ reads' = [reads EXCEPT ![n] = @ + 1]
      /\ M!Counts(n) \/ M!Remembers(n)
  BY <1>1 DEF ReadGivenUp, ReadEnds, Past, AtRead, M!ComesTo
<1>5. M!ComesBack(n) \/ M!LeftBehind(n)
  BY <1>3, <1>4 DEF M!ComesBack, M!LeftBehind, M!Starts
<1>6. QED
  BY <1>2, <1>4, <1>5 DEF M!Fails, M!TimesOut

\* A flag that is cleared is that of a call left behind, or of the awaited one.
LEMMA InsideIsMounts ==
    ASSUME IInv, Inside \/ Outside
    PROVE  UNCHANGED M!vars \/ \E m \in Name : M!ReadReturns(m)
<1>1. /\ worker' = "idle" <=> worker = "idle"
      /\ name' = name /\ waits' = waits /\ UNCHANGED <<loop, memory>>
  BY InsideKeepsCall DEF IInv
<1>2. Awaited' = Awaited
  BY <1>1 DEF Awaited
<1>3. CASE inflight' = inflight
  BY <1>1, <1>2, <1>3, SameVariables
<1>4. ASSUME NEW k \in Calls, End(k) PROVE UNCHANGED M!vars \/ \E m \in Name : M!ReadReturns(m)
  <2>1. inflight' = inflight \ {name[k]} /\ name[k] \in Name
    BY <1>4 DEF End, IInv, TypeOK
  <2>2. CASE name[k] \in inflight \ Awaited
    <3>1. (inflight \ Awaited)' = (inflight \ Awaited) \ {name[k]}
      BY <1>2, <2>1
    <3>2. M!ReadReturns(name[k])
      BY <1>1, <2>2, <3>1 DEF M!ReadReturns, M!memory, M!history, loop, memory
    <3>3. QED
      BY <2>1, <3>2
  <2>3. CASE name[k] \notin inflight \ Awaited
    BY <1>1, <1>2, <2>1, <2>3, SameVariables
  <2>4. QED
    BY <2>2, <2>3
<1>5. QED
  BY <1>3, <1>4 DEF Inside, Outside, SeeDone, GiveUp, Send, Leave, FnReturns, TimerFires, Cancel

LEMMA StepOfMounts == IInv /\ AtRead /\ [DNext]_dvars => [M!Next]_(M!vars)
<1> SUFFICES ASSUME IInv, AtRead, [DNext]_dvars PROVE [M!Next]_(M!vars)
  OBVIOUS
<1>1. CASE UNCHANGED dvars
  BY <1>1, SameVariables DEF dvars, vars, Awaited
<1>2. CASE \E table \in [Name -> 0 .. MaxListed] : List(table)
  BY <1>2, ListIsList DEF M!Next
<1>3. CASE ListFails
  <2>1. (inflight \ Awaited)' = inflight \ Awaited
    BY <1>3 DEF ListFails, vars, Awaited
  <2>2. M!ListFails
    BY <1>3, <2>1 DEF ListFails, M!ListFails, M!memory, M!history, memory
  <2>3. QED
    BY <2>2 DEF M!Next
<1>4. CASE \E m \in Name : Skip(m) \/ ReadRefused(m) \/ ReadStarts(m)
  BY <1>4, EntryIsMounts DEF M!Next
<1>5. CASE ReadAnswered \/ ReadGivenUp
  BY <1>5, AnsweredIsMounts, GivenUpIsMounts DEF M!Next
<1>6. CASE Inside \/ Outside
  BY <1>6, InsideIsMounts DEF M!Next
<1>7. CASE Prune
  <2>1. (inflight \ Awaited)' = inflight \ Awaited
    BY <1>7 DEF Prune, vars, Awaited
  <2>2. M!Prune
    BY <1>7, <2>1 DEF Prune, M!Prune
  <2>3. QED
    BY <2>2 DEF M!Next
<1>8. QED
  BY <1>1, <1>2, <1>3, <1>4, <1>5, <1>6, <1>7 DEF DNext, Loop

\* collectDisks, with every read a guarded call of its own that may hang, be
\* refused, answer late or be left behind, implements the memory of Mounts.tla.
THEOREM ReadsImplementMounts == DSpec => ImplementsMounts
<1>1. DInit => M!Init /\ AtRead
  <2> SUFFICES ASSUME DInit PROVE M!Init /\ AtRead
    OBVIOUS
  <2>1. worker = "idle"
    BY DEF DInit, Init
  <2>2. QED
    BY <2>1 DEF DInit, AtRead
<1>2. QED
  BY <1>1, StepKeepsAtRead, StepOfMounts, GuardInvariance, PTL DEF DSpec, ImplementsMounts, M!Spec

-----------------------------------------------------------------------------
(* What is proved of Mounts.tla holds with the real calls *)

MP == INSTANCE MountsProofs WITH Mount <- Name, inflight <- inflight \ Awaited

LEMMA SameSpecification == M!Spec => MP!Spec
<1>1. M!Init => MP!Init
  BY DEF M!Init, M!Zero, MP!Init, MP!Zero
<1>2. [M!Next]_(M!vars) => [MP!Next]_(MP!vars)
  BY DEF M!Next, M!vars, M!memory, M!history, M!List, M!ListFails, M!Skip, M!ComesTo,
         M!Banned, M!Answers, M!Fails, M!TimesOut, M!ReadReturns, M!Prune, M!Zero,
         M!Starts, M!ComesBack, M!LeftBehind, M!Refused, M!Clears, M!Remembers, M!Counts,
         MP!Next, MP!vars, MP!memory, MP!history, MP!List, MP!ListFails, MP!Skip, MP!ComesTo,
         MP!Banned, MP!Answers, MP!Fails, MP!TimesOut, MP!ReadReturns, MP!Prune, MP!Zero,
         MP!Starts, MP!ComesBack, MP!LeftBehind, MP!Refused, MP!Clears, MP!Remembers, MP!Counts
<1>3. QED
  BY <1>1, <1>2, PTL DEF M!Spec, MP!Spec

\* With every read a real call, which may hang, be refused or be left behind: a
\* mount that is not read any more has been reported once, the maps forget the
\* mounts that are gone, and a mount with no sign of life is tried at most
\* maxMountTimeouts times (collectDisks and deadline, collect.go).
THEOREM ReadsKeepMemory == DSpec => [](M!BanIsReported /\ M!MemoryIsBounded /\ M!DeadMountIsDropped)
<1>1. MP!MountsAssumption
  BY DiskReadsAssumption DEF MP!MountsAssumption
<1>2. MP!Spec => []MP!BanIsReported
  BY <1>1, MP!BanNeverSilent
<1>3. MP!Spec => []MP!MemoryIsBounded
  BY <1>1, MP!MemoryBounded
<1>4. MP!Spec => []MP!DeadMountIsDropped
  BY <1>1, MP!DeadMountDropped
<1>5. MP!BanIsReported => M!BanIsReported
  BY DEF MP!BanIsReported, M!BanIsReported, MP!Banned, M!Banned
<1>6. MP!MemoryIsBounded => M!MemoryIsBounded
  BY DEF MP!MemoryIsBounded, M!MemoryIsBounded
<1>7. MP!DeadMountIsDropped => M!DeadMountIsDropped
  BY DEF MP!DeadMountIsDropped, M!DeadMountIsDropped
<1>8. QED
  BY <1>2, <1>3, <1>4, <1>5, <1>6, <1>7, ReadsImplementMounts, SameSpecification, PTL DEF ImplementsMounts

-----------------------------------------------------------------------------
(* A cycle is short *)

\* The table is finite, and so is what the loop has not come to yet.
TableInv == todo \in [Name -> 0 .. MaxListed]

EntriesLeft == Cardinality(Entries(todo))

LEMMA EntriesAreFinite ==
    ASSUME NEW table \in [Name -> 0 .. MaxListed]
    PROVE  IsFiniteSet(Entries(table)) /\ Cardinality(Entries(table)) \in Nat
<1>1. MaxListed \in Nat
  BY DiskReadsAssumption
<1>2. IsFiniteSet(Name \X (1 .. MaxListed))
  <2>1. IsFiniteSet(1 .. MaxListed)
    BY <1>1, FS_Interval
  <2>2. QED
    BY <2>1, DiskReadsAssumption, FS_Product
<1>3. Entries(table) \subseteq Name \X (1 .. MaxListed)
  BY <1>1 DEF Entries
<1>4. QED
  BY <1>2, <1>3, FS_Subset, FS_CardinalityType

\* An entry the loop is done with is one entry less.
LEMMA PastOneEntry ==
    ASSUME TableInv, NEW m \in Name, todo[m] > 0, todo' = [todo EXCEPT ![m] = @ - 1]
    PROVE  /\ TableInv' /\ EntriesLeft \in Nat \ {0}
           /\ EntriesLeft' = EntriesLeft - 1
<1>1. MaxListed \in Nat
  BY DiskReadsAssumption
<1>2. /\ todo \in [Name -> 0 .. MaxListed] /\ todo' \in [Name -> 0 .. MaxListed]
      /\ todo'[m] = todo[m] - 1 /\ \A n \in Name \ {m} : todo'[n] = todo[n]
      /\ todo[m] \in Nat /\ todo[m] > 0
  BY <1>1 DEF TableInv
<1>3. <<m, todo[m]>> \in Entries(todo)
  BY <1>2 DEF Entries
<1>4. Entries(todo') = Entries(todo) \ {<<m, todo[m]>>}
  <2>1. ASSUME NEW e PROVE e \in Entries(todo) <=> \E n \in Name : \E i \in 1 .. todo[n] : e = <<n, i>>
    BY DEF Entries
  <2>2. ASSUME NEW e PROVE e \in Entries(todo') <=> \E n \in Name : \E i \in 1 .. todo'[n] : e = <<n, i>>
    BY DEF Entries
  <2>3. 1 .. todo'[m] = (1 .. todo[m]) \ {todo[m]}
    BY <1>2
  <2>4. ASSUME NEW e \in Entries(todo') PROVE e \in Entries(todo) \ {<<m, todo[m]>>}
    <3>1. PICK n \in Name : \E i \in 1 .. todo'[n] : e = <<n, i>>
      BY <2>2, <2>4
    <3>2. PICK i \in 1 .. todo'[n] : e = <<n, i>>
      BY <3>1
    <3>3. i \in 1 .. todo[n] /\ (n = m => i # todo[m])
      BY <1>2, <2>3
    <3>4. QED
      BY <2>1, <3>2, <3>3
  <2>5. ASSUME NEW e \in Entries(todo), e # <<m, todo[m]>> PROVE e \in Entries(todo')
    <3>1. PICK n \in Name : \E i \in 1 .. todo[n] : e = <<n, i>>
      BY <2>1, <2>5
    <3>2. PICK i \in 1 .. todo[n] : e = <<n, i>>
      BY <3>1
    <3>3. i \in 1 .. todo'[n]
      BY <1>2, <2>3, <2>5, <3>2
    <3>4. QED
      BY <2>2, <3>2, <3>3
  <2>6. QED
    BY <2>4, <2>5
<1>5. IsFiniteSet(Entries(todo))
  BY EntriesAreFinite DEF TableInv
<1>6. Cardinality(Entries(todo')) = Cardinality(Entries(todo)) - 1
  BY <1>3, <1>4, <1>5, FS_RemoveElement
<1>7. Cardinality(Entries(todo)) \in Nat \ {0}
  BY <1>3, <1>5, FS_CardinalityType, FS_EmptySet
<1>8. EntriesLeft' = Cardinality(Entries(todo'))
  BY DEF EntriesLeft, Entries
<1>9. QED
  BY <1>2, <1>6, <1>7, <1>8 DEF TableInv, EntriesLeft

\* The bound on the goroutines leaves one for each entry, and for the awaited one
\* it has been taken already.
BoundInv ==
    /\ worker = "idle" /\ pc = "read" => started + EntriesLeft <= MaxCalls
    /\ worker # "idle" => started + EntriesLeft <= MaxCalls + 1

\* The goroutines that have one, two or three steps before them, at least; a call
\* that has not returned has all three.
Left1 == {k \in Calls : go[k] # "done"}
Left2 == {k \in Calls : go[k] \in {"running", "returned", "ended"}}
Left3 == {k \in Calls : go[k] \in {"running", "returned"}}
GoLeft == Cardinality(Left1) + Cardinality(Left2) + Cardinality(Left3)

\* How far the collector is with an entry
Progress ==
    CASE worker = "idle" -> 0
      [] worker = "select" -> IF expired THEN 5 ELSE 4
      [] worker = "late" -> 6
      [] worker = "verdict" -> 7

\* The step that forgets what has left the table
LastStep == IF pc = "read" THEN 1 ELSE 0

\* The steps a cycle still has before it, at most, with those of the goroutines
\* that earlier ones have left behind
CycleLeft == 8 * EntriesLeft - Progress + GoLeft + LastStep

LEMMA GoIsFinite ==
    ASSUME TypeOK
    PROVE  /\ IsFiniteSet(Calls) /\ Cardinality(Calls) = started
           /\ IsFiniteSet(Left1) /\ IsFiniteSet(Left2) /\ IsFiniteSet(Left3)
           /\ Cardinality(Left1) \in 0 .. started
           /\ Cardinality(Left2) \in 0 .. started
           /\ Cardinality(Left3) \in 0 .. started
<1>1. started \in Nat
  BY DEF TypeOK
<1>2. IsFiniteSet(Calls) /\ Cardinality(Calls) = started
  BY <1>1, FS_Interval DEF Calls
<1>3. Left1 \subseteq Calls /\ Left2 \subseteq Calls /\ Left3 \subseteq Calls
  BY DEF Left1, Left2, Left3
<1>4. QED
  BY <1>1, <1>2, <1>3, FS_Subset, FS_CardinalityType

\* Fewer goroutines have so many steps before them.
LEMMA FewerLeft ==
    ASSUME NEW S, NEW T, IsFiniteSet(S), T \subseteq S
    PROVE  /\ Cardinality(S) \in Nat /\ Cardinality(T) \in Nat
           /\ Cardinality(T) <= Cardinality(S)
           /\ T # S => Cardinality(T) < Cardinality(S)
BY FS_Subset, FS_CardinalityType

\* The end, the send and the last step of a goroutine count; that fn returns does not.
LEMMA GoSteps ==
    ASSUME TypeOK, NEW k \in Calls, End(k) \/ Send(k) \/ Leave(k)
    PROVE  GoLeft' < GoLeft /\ GoLeft \in Nat /\ GoLeft' \in Nat
<1>1. go \in [Calls -> GoLabels] /\ Calls' = Calls
  BY DEF TypeOK, End, Send, Leave, Calls
<1>2. \/ go[k] = "returned" /\ go' = [go EXCEPT ![k] = "ended"]
      \/ go[k] = "ended" /\ go' = [go EXCEPT ![k] = "sent"]
      \/ go[k] = "sent" /\ go' = [go EXCEPT ![k] = "done"]
  BY DEF End, Send, Leave, Moves
<1>3. Left1' \subseteq Left1 /\ Left2' \subseteq Left2 /\ Left3' \subseteq Left3
  BY <1>1, <1>2 DEF Left1, Left2, Left3
<1>4. Left1' # Left1 \/ Left2' # Left2 \/ Left3' # Left3
  <2>1. CASE go[k] = "returned" /\ go' = [go EXCEPT ![k] = "ended"]
    BY <1>1, <2>1 DEF Left3
  <2>2. CASE go[k] = "ended" /\ go' = [go EXCEPT ![k] = "sent"]
    BY <1>1, <2>2 DEF Left2
  <2>3. CASE go[k] = "sent" /\ go' = [go EXCEPT ![k] = "done"]
    BY <1>1, <2>3 DEF Left1
  <2>4. QED
    BY <1>2, <2>1, <2>2, <2>3
<1>5. IsFiniteSet(Left1) /\ IsFiniteSet(Left2) /\ IsFiniteSet(Left3)
  BY GoIsFinite
<1> HIDE DEF Left1, Left2, Left3
<1>6. Cardinality(Left1') + Cardinality(Left2') + Cardinality(Left3')
        < Cardinality(Left1) + Cardinality(Left2) + Cardinality(Left3)
  BY <1>3, <1>4, <1>5, FewerLeft
<1>7. /\ Cardinality(Left1') \in Nat /\ Cardinality(Left2') \in Nat /\ Cardinality(Left3') \in Nat
      /\ Cardinality(Left1) \in Nat /\ Cardinality(Left2) \in Nat /\ Cardinality(Left3) \in Nat
  BY <1>3, <1>5, FewerLeft
<1>8. QED
  BY <1>6, <1>7 DEF GoLeft

LEMMA GoStands ==
    ASSUME TypeOK, \/ go' = go /\ started' = started
                   \/ \E k \in Calls : FnReturns(k)
    PROVE  GoLeft' = GoLeft
<1>1. CASE go' = go /\ started' = started
  BY <1>1 DEF GoLeft, Left1, Left2, Left3, Calls
<1>2. CASE \E k \in Calls : FnReturns(k)
  <2>1. PICK k \in Calls : /\ go[k] = "running" /\ go' = [go EXCEPT ![k] = "returned"]
                           /\ started' = started
    BY <1>2 DEF FnReturns, Moves
  <2>2. go \in [Calls -> GoLabels] /\ Calls' = Calls
    BY <2>1 DEF TypeOK, Calls
  <2>3. Left1' = Left1 /\ Left2' = Left2 /\ Left3' = Left3
    BY <2>1, <2>2 DEF Left1, Left2, Left3
  <2>4. QED
    BY <2>3 DEF GoLeft
<1>3. QED
  BY <1>1, <1>2

LEMMA GoStarts ==
    ASSUME TypeOK, NEW m \in Name, Start(m)
    PROVE  GoLeft' = GoLeft + 3
<1>1. /\ Calls' = Calls \union {started'} /\ started' \notin Calls
      /\ \A k \in Calls : go'[k] = go[k]
      /\ go'[started'] = "running"
  BY StartEffect
<1>2. /\ Left1' = Left1 \union {started'} /\ started' \notin Left1
      /\ Left2' = Left2 \union {started'} /\ started' \notin Left2
      /\ Left3' = Left3 \union {started'} /\ started' \notin Left3
  BY <1>1 DEF Left1, Left2, Left3
<1>3. /\ Cardinality(Left1') = Cardinality(Left1) + 1
      /\ Cardinality(Left2') = Cardinality(Left2) + 1
      /\ Cardinality(Left3') = Cardinality(Left3) + 1
      /\ Cardinality(Left1) \in Nat /\ Cardinality(Left2) \in Nat /\ Cardinality(Left3) \in Nat
  BY <1>2, GoIsFinite, FS_AddElement, FS_CardinalityType
<1>4. QED
  BY <1>3 DEF GoLeft

LEMMA AtReadEntries ==
    ASSUME TypeOK, TableInv, AtRead
    PROVE  /\ EntriesLeft \in Nat /\ GoLeft \in 0 .. 3 * started /\ started \in Nat
           /\ Progress \in 0 .. 7 /\ (worker = "idle" <=> Progress = 0)
           /\ worker # "idle" => EntriesLeft > 0 /\ pc = "read"
           /\ LastStep \in {0, 1}
<1>1. EntriesLeft \in Nat
  BY EntriesAreFinite DEF EntriesLeft, TableInv
<1>2. GoLeft \in 0 .. 3 * started /\ started \in Nat
  BY GoIsFinite DEF GoLeft, TypeOK
<1>3. Progress \in 0 .. 7 /\ (worker = "idle" <=> Progress = 0)
  BY DEF Progress, TypeOK, WorkerLabels
<1>4. ASSUME worker # "idle" PROVE EntriesLeft > 0 /\ pc = "read"
  <2>1. pc = "read" /\ name[waits] \in Name /\ todo[name[waits]] > 0
    BY <1>4 DEF AtRead, TypeOK, Calls
  <2>2. todo[name[waits]] \in Nat /\ <<name[waits], todo[name[waits]]>> \in Entries(todo)
    BY <2>1, DiskReadsAssumption DEF TableInv, Entries
  <2>3. IsFiniteSet(Entries(todo))
    BY EntriesAreFinite DEF TableInv
  <2>4. EntriesLeft # 0
    BY <2>2, <2>3, FS_EmptySet DEF EntriesLeft
  <2>5. QED
    BY <1>1, <2>1, <2>4
<1>5. QED
  BY <1>1, <1>2, <1>3, <1>4 DEF LastStep

\* The read that is over, whoever it was that ended it.
LEMMA EndsOneEntry ==
    ASSUME TypeOK, AtRead, TableInv, ReadAnswered \/ ReadGivenUp
    PROVE  /\ worker # "idle" /\ worker' = "idle" /\ TableInv'
           /\ EntriesLeft \in Nat \ {0} /\ EntriesLeft' = EntriesLeft - 1
           /\ UNCHANGED <<pc, go, started>>
<1>1. /\ worker # "idle" /\ worker' = "idle" /\ ReadEnds(name[waits])
      /\ UNCHANGED <<go, started>>
  BY DEF ReadAnswered, ReadGivenUp, Receive, ReceiveLate, Take, Verdict, Finish
<1>2. name[waits] \in Name /\ todo[name[waits]] > 0
  BY <1>1 DEF AtRead, TypeOK, Calls
<1>3. todo' = [todo EXCEPT ![name[waits]] = @ - 1] /\ pc' = pc
  BY <1>1 DEF ReadEnds, Past
<1>4. QED
  BY <1>1, <1>2, <1>3, PastOneEntry

\* The entry the loop passes without a call
LEMMA SkipsOneEntry ==
    ASSUME TableInv, NEW m \in Name, Skip(m) \/ ReadRefused(m)
    PROVE  /\ worker = "idle" /\ worker' = "idle" /\ pc = "read" /\ TableInv'
           /\ EntriesLeft \in Nat \ {0} /\ EntriesLeft' = EntriesLeft - 1
           /\ UNCHANGED <<pc, go, started>>
<1>1. /\ worker = "idle" /\ worker' = "idle" /\ pc = "read" /\ todo[m] > 0 /\ Past(m)
      /\ UNCHANGED <<go, started>>
  BY DEF Skip, ReadRefused, AtEntry, Refuse, Finish, vars
<1>2. QED
  BY <1>1, PastOneEntry DEF Past

LEMMA EntriesStand == todo' = todo => EntriesLeft' = EntriesLeft
BY DEF EntriesLeft, Entries

LEMMA StepKeepsBound ==
    TypeOK /\ AtRead /\ TableInv /\ BoundInv /\ [DNext]_dvars => TableInv' /\ BoundInv'
<1> SUFFICES ASSUME TypeOK, AtRead, TableInv, BoundInv, [DNext]_dvars PROVE TableInv' /\ BoundInv'
  OBVIOUS
<1>1. started \in Nat /\ MaxCalls \in Nat /\ EntriesLeft \in Nat
  BY DeadlineAssumption, EntriesAreFinite DEF TypeOK, EntriesLeft, TableInv
<1>2. CASE UNCHANGED dvars \/ ListFails
  <2>1. UNCHANGED <<worker, pc, started, todo>>
    BY <1>2 DEF dvars, vars, loop, ListFails
  <2>2. QED
    BY <2>1, EntriesStand DEF TableInv, BoundInv
<1>3. ASSUME NEW table \in [Name -> 0 .. MaxListed], List(table) PROVE TableInv' /\ BoundInv'
  <2>1. /\ todo' = table /\ started' = started /\ worker' = "idle"
        /\ started + Cardinality(Entries(table)) <= MaxCalls
    BY <1>3 DEF List, vars
  <2>2. EntriesLeft' = Cardinality(Entries(table))
    BY <2>1 DEF EntriesLeft, Entries
  <2>3. QED
    BY <2>1, <2>2 DEF TableInv, BoundInv
<1>4. ASSUME NEW m \in Name, Skip(m) \/ ReadRefused(m) PROVE TableInv' /\ BoundInv'
  BY <1>1, <1>4, SkipsOneEntry DEF BoundInv
<1>5. ASSUME NEW m \in Name, ReadStarts(m) PROVE TableInv' /\ BoundInv'
  <2>1. /\ worker = "idle" /\ pc = "read" /\ todo' = todo
        /\ started' = started + 1 /\ worker' = "select"
    BY <1>5, StartEffect DEF ReadStarts, AtEntry, Start, loop
  <2>2. QED
    BY <1>1, <2>1, EntriesStand DEF TableInv, BoundInv
<1>6. CASE ReadAnswered \/ ReadGivenUp
  BY <1>1, <1>6, EndsOneEntry DEF BoundInv
<1>7. CASE Prune
  <2>1. pc' = "idle" /\ todo' = todo /\ worker' = "idle"
    BY <1>7 DEF Prune, vars
  <2>2. QED
    BY <2>1 DEF TableInv, BoundInv
<1>8. CASE Inside \/ Outside
  <2>1. (worker' = "idle" <=> worker = "idle") /\ UNCHANGED <<pc, todo>>
    BY <1>8, InsideKeepsCall DEF loop
  <2>2. started' = started
    BY <1>8 DEF Inside, Outside, SeeDone, GiveUp, End, Send, Leave, FnReturns, TimerFires, Cancel
  <2>3. QED
    BY <2>1, <2>2, EntriesStand DEF TableInv, BoundInv
<1>9. QED
  BY <1>2, <1>3, <1>4, <1>5, <1>6, <1>7, <1>8 DEF DNext, Loop

CountInv == IInv /\ AtRead /\ TableInv /\ BoundInv

LEMMA CountInvariance == DSpec => []CountInv
<1>1. DInit => AtRead /\ TableInv /\ BoundInv
  <2> SUFFICES ASSUME DInit PROVE AtRead /\ TableInv /\ BoundInv
    OBVIOUS
  <2>1. worker = "idle" /\ pc = "idle" /\ todo = M!Zero
    BY DEF DInit, Init, M!Init
  <2>2. todo \in [Name -> 0 .. MaxListed]
    BY <2>1, DiskReadsAssumption DEF M!Zero
  <2>3. QED
    BY <2>1, <2>2 DEF AtRead, TableInv, BoundInv
<1>2. IInv => TypeOK
  BY DEF IInv
<1>3. QED
  BY <1>1, <1>2, StepKeepsAtRead, StepKeepsBound, GuardInvariance, PTL DEF DSpec, CountInv

\* The loop, before each entry, can go on: with no entry left the cycle can end, and
\* else there is an entry, and it is passed, refused, or a goroutine is left for it.
GoesOn ==
    pc = "read" /\ worker = "idle" =>
        \/ todo = M!Zero
        \/ \E m \in Name :
              /\ AtEntry(m)
              /\ M!Banned(m) \/ ~Free(m) \/ started < MaxCalls

\* That the model counts goroutines up to MaxCalls never holds the loop up: a cycle
\* that has begun goes on to its end, so that the runs and the theorems are
\* about whole cycles (the loop of collectDisks, collect.go).
THEOREM LoopIsNeverStuck == DSpec => []GoesOn
<1>1. CountInv => GoesOn
  <2> SUFFICES ASSUME CountInv, pc = "read", worker = "idle", todo # M!Zero
               PROVE  \E m \in Name : AtEntry(m) /\ started < MaxCalls
    BY DEF GoesOn
  <2>1. todo \in [Name -> 0 .. MaxListed] /\ MaxListed \in Nat
    BY DiskReadsAssumption DEF CountInv, TableInv
  <2>2. PICK m \in Name : todo[m] > 0
    BY <2>1 DEF M!Zero
  <2>3. <<m, todo[m]>> \in Entries(todo)
    BY <2>1, <2>2 DEF Entries
  <2>4. EntriesLeft \in Nat /\ EntriesLeft # 0
    BY <2>1, <2>3, EntriesAreFinite, FS_EmptySet DEF EntriesLeft
  <2>5. started + EntriesLeft <= MaxCalls /\ started \in Nat /\ MaxCalls \in Nat
    BY DeadlineAssumption DEF CountInv, BoundInv, IInv, TypeOK
  <2>6. QED
    BY <2>2, <2>4, <2>5 DEF AtEntry
<1>2. QED
  BY <1>1, CountInvariance, PTL

Nearer == CycleLeft' < CycleLeft /\ CycleLeft' \in Int /\ CycleLeft \in Int

\* Every step of the loop and inside the guard brings the end nearer.
LEMMA StepIsCounted ==
    ASSUME CountInv, Loop \/ Inside
    PROVE  Nearer
<1>1. /\ EntriesLeft \in Nat /\ GoLeft \in 0 .. 3 * started /\ started \in Nat
      /\ Progress \in 0 .. 7 /\ (worker = "idle" <=> Progress = 0)
      /\ worker # "idle" => EntriesLeft > 0 /\ pc = "read"
      /\ LastStep \in {0, 1}
  BY AtReadEntries DEF CountInv, IInv
<1>2. TypeOK /\ AtRead /\ TableInv
  BY DEF CountInv, IInv
<1>3. ASSUME NEW m \in Name, Skip(m) \/ ReadRefused(m) PROVE Nearer
  <2>1. Progress = 0 /\ Progress' = 0 /\ GoLeft' = GoLeft
    BY <1>2, <1>3, SkipsOneEntry, GoStands DEF Progress
  <2>2. EntriesLeft' = EntriesLeft - 1 /\ pc' = pc
    BY <1>2, <1>3, SkipsOneEntry
  <2>3. LastStep' = LastStep
    BY <2>2 DEF LastStep
  <2>4. QED
    BY <1>1, <2>1, <2>2, <2>3 DEF CycleLeft, Nearer
<1>4. ASSUME NEW m \in Name, ReadStarts(m) PROVE Nearer
  <2>1. worker = "idle" /\ worker' = "select" /\ expired' = FALSE /\ pc' = pc /\ todo' = todo
    BY <1>4 DEF ReadStarts, AtEntry, Start, loop
  <2>2. Progress = 0 /\ Progress' = 4
    BY <2>1 DEF Progress
  <2>3. GoLeft' = GoLeft + 3
    BY <1>2, <1>4, GoStarts DEF ReadStarts
  <2>4. LastStep' = LastStep /\ EntriesLeft' = EntriesLeft
    BY <2>1, EntriesStand DEF LastStep
  <2>5. QED
    BY <1>1, <2>2, <2>3, <2>4 DEF CycleLeft, Nearer
<1>5. CASE ReadAnswered \/ ReadGivenUp
  <2>1. /\ Progress' = 0 /\ GoLeft' = GoLeft
        /\ EntriesLeft' = EntriesLeft - 1 /\ LastStep' = LastStep
    BY <1>2, <1>5, EndsOneEntry, GoStands DEF Progress, LastStep
  <2>2. QED
    BY <1>1, <2>1 DEF CycleLeft, Nearer
<1>6. CASE Prune
  <2>1. worker = "idle" /\ worker' = "idle" /\ pc = "read" /\ pc' = "idle"
        /\ UNCHANGED <<todo, go, started>>
    BY <1>6 DEF Prune, vars
  <2>2. Progress = 0 /\ Progress' = 0 /\ GoLeft' = GoLeft
    BY <1>2, <2>1, GoStands DEF Progress
  <2>3. LastStep = 1 /\ LastStep' = 0 /\ EntriesLeft' = EntriesLeft
    BY <2>1, EntriesStand DEF LastStep
  <2>4. QED
    BY <1>1, <2>2, <2>3 DEF CycleLeft, Nearer
<1>7. CASE Inside
  <2>0. 8 * EntriesLeft \in Int /\ Progress \in Int /\ GoLeft \in Int /\ LastStep \in Int
    BY <1>1
  <2>1. LastStep' = LastStep /\ EntriesLeft' = EntriesLeft
    BY <1>7, EntriesStand DEF Inside, loop, LastStep
  <2>2. CASE SeeDone \/ GiveUp \/ TimerFires
    <3>1. Progress' > Progress /\ Progress' \in 0 .. 7
      BY <1>2, <2>2 DEF Progress, SeeDone, GiveUp, TimerFires, TypeOK
    <3>2. GoLeft' = GoLeft
      BY <1>2, <2>2, GoStands DEF SeeDone, GiveUp, TimerFires
    <3>3. /\ CycleLeft = 8 * EntriesLeft - Progress + GoLeft + LastStep
          /\ CycleLeft' = 8 * EntriesLeft - Progress' + GoLeft + LastStep
      BY <2>1, <3>2 DEF CycleLeft
    <3>4. CycleLeft' < CycleLeft
      BY <2>0, <3>1, <3>3
    <3>5. CycleLeft \in Int /\ CycleLeft' \in Int
      BY <1>1, <3>1, <3>3
    <3>6. QED
      BY <3>4, <3>5 DEF Nearer
  <2>3. CASE \E k \in Calls : End(k) \/ Send(k) \/ Leave(k)
    <3>1. PICK k \in Calls : End(k) \/ Send(k) \/ Leave(k)
      BY <2>3
    <3>2. GoLeft' < GoLeft /\ GoLeft' \in Nat
      BY <1>2, <3>1, GoSteps
    <3>3. UNCHANGED <<worker, expired>>
      BY <3>1 DEF End, Send, Leave
    <3>4. Progress' = Progress
      BY <3>3 DEF Progress
    <3>5. /\ CycleLeft = 8 * EntriesLeft - Progress + GoLeft + LastStep
          /\ CycleLeft' = 8 * EntriesLeft - Progress + GoLeft' + LastStep
      BY <2>1, <3>4 DEF CycleLeft
    <3>6. CycleLeft' < CycleLeft
      BY <2>0, <3>2, <3>5
    <3>7. CycleLeft \in Int /\ CycleLeft' \in Int
      BY <1>1, <3>2, <3>5
    <3>8. QED
      BY <3>6, <3>7 DEF Nearer
  <2>4. QED
    BY <1>7, <2>2, <2>3 DEF Inside
<1>8. QED
  BY <1>3, <1>4, <1>5, <1>6, <1>7 DEF Loop

\* What the mounts and the signal do is not counted.
LEMMA OthersStand ==
    ASSUME CountInv, [DNext]_dvars, pc = "read", ~(Loop \/ Inside)
    PROVE  CycleLeft' = CycleLeft
<1>1. Outside \/ UNCHANGED dvars
  BY DEF DNext, List, ListFails
<1>2. UNCHANGED <<pc, todo, worker, expired>>
  BY <1>1 DEF Outside, FnReturns, Cancel, loop, dvars, vars
<1>3. GoLeft' = GoLeft
  <2>1. TypeOK
    BY DEF CountInv, IInv
  <2>2. \/ go' = go /\ started' = started
        \/ \E k \in Calls : FnReturns(k)
    BY <1>1 DEF Outside, Cancel, dvars, vars
  <2>3. QED
    BY <2>1, <2>2, GoStands
<1>4. Progress' = Progress /\ EntriesLeft' = EntriesLeft
  BY <1>2, EntriesStand DEF Progress
<1>5. QED
  BY <1>2, <1>3, <1>4 DEF CycleLeft, LastStep

CycleIsCounted == CycleLeft \in 0 .. 8 * EntriesLeft + 3 * started + 1

CycleGoesOn ==
    /\ pc = "read" => CycleLeft' <= CycleLeft
    /\ Loop \/ Inside => CycleLeft' < CycleLeft

\* A cycle is over after a number of steps that the length of the table and the
\* calls already started bound: every step of the loop, of the guard and of a
\* goroutine brings the end nearer, and a mount that answers late, or never, takes
\* it no further away (collectDisks and deadline, collect.go).  With
\* LoopIsNeverStuck this is what CycleEnds rests on, for any table and any mounts.
THEOREM CycleIsShort == DSpec => []CycleIsCounted /\ [][CycleGoesOn]_dvars
<1>1. CountInv => CycleIsCounted
  <2> SUFFICES ASSUME CountInv PROVE CycleIsCounted
    OBVIOUS
  <2>1. /\ EntriesLeft \in Nat /\ GoLeft \in 0 .. 3 * started /\ started \in Nat
        /\ Progress \in 0 .. 7 /\ (worker = "idle" <=> Progress = 0)
        /\ worker # "idle" => EntriesLeft > 0 /\ pc = "read"
        /\ LastStep \in {0, 1}
    BY AtReadEntries DEF CountInv, IInv
  <2>2. QED
    BY <2>1 DEF CycleLeft, CycleIsCounted
<1>2. CountInv /\ [DNext]_dvars => [CycleGoesOn]_dvars
  <2> SUFFICES ASSUME CountInv, [DNext]_dvars PROVE CycleGoesOn
    OBVIOUS
  <2>1. CASE Loop \/ Inside
    BY <2>1, StepIsCounted DEF CycleGoesOn, Nearer
  <2>2. CASE ~(Loop \/ Inside)
    <3>1. CycleLeft \in Int
      BY AtReadEntries DEF CountInv, IInv, CycleLeft
    <3>2. QED
      BY <2>2, <3>1, OthersStand DEF CycleGoesOn
  <2>3. QED
    BY <2>1, <2>2
<1>3. QED
  BY <1>1, <1>2, CountInvariance, PTL DEF DSpec
=============================================================================
