------------------------- MODULE DockerClientProofs -------------------------
(***************************************************************************)
(* Theorems about DockerClient.tla, for any containers, any runtime, any   *)
(* number of slots and any inspectEvery.                                   *)
(***************************************************************************)
EXTENDS DockerClient, FiniteSetTheorems, TLAPS

Report == [listed : {"no", "running", "stopped"}, running : BOOLEAN, read : BOOLEAN,
           has : BOOLEAN, count : Readings]

Shape ==
    /\ count \in [Container -> Readings] /\ lastCount \in [Container -> Readings]
    /\ cycle \in Nat
    /\ prev \in [Container -> BOOLEAN]
    /\ restart \in [Container -> Entries]
    /\ inspect \subseteq Container
    /\ go \in [Container -> GoLabels]
    /\ out \in [Container -> Report]
    /\ ran \subseteq Container /\ known \subseteq Container /\ steady \subseteq Container

Running == {"stats", "statsCall", "inspectCall"}

\* What a goroutine reads is what the list said of its container, and it leaves
\* without a sample only when its stats call failed.
ReadAsListed ==
    \A c \in Container :
        /\ go[c] \in Running => c \in ran
        /\ go[c] \in {"stopped", "stoppedCall"} => c \notin ran
        /\ go[c] = "inspectCall" => out[c] = Sample
        /\ go[c] \in {"stats", "statsCall", "stopped", "stoppedCall"} => ~out[c].read
        /\ go[c] = "done" /\ c \in ran /\ c \in steady => out[c].read

\* The count that is kept lies between the last one reported and the true one.
CountsInOrder ==
    \A c \in Container :
        /\ NotAfter(lastCount[c], count[c])
        /\ restart[c].have => NotAfter(lastCount[c], restart[c].count) /\ NotAfter(restart[c].count, count[c])

\* A sample carries a count when one is kept, and one is kept of what is known.
SamplesCarryCounts ==
    /\ \A c \in Container :
        go[c] \in {"none", "done"} /\ out[c].read => out[c].has = restart[c].have
    /\ \A c \in known : restart[c].have

\* No cycle in which a container was due has gone by without its inspect call.
NoneMissed ==
    \A c \in steady : HasEntry(c) =>
        \A n \in restart[c].cycle + inspectEvery .. cycle :
            (n + slot[c]) % inspectEvery = 0 =>
                n = cycle /\ c \in inspect /\ go[c] \in Running

IInv ==
    /\ Shape
    /\ MapsAreBounded
    /\ ReadAsListed
    /\ CountsInOrder
    /\ SamplesCarryCounts
    /\ NoneMissed

\* Readings are ordered.
LEMMA NotAfterItself == ASSUME NEW x \in Readings PROVE NotAfter(x, x)
BY DEF Readings, NotAfter

LEMMA NotAfterBoth ==
    ASSUME NEW x \in Readings, NEW y \in Readings, NEW z \in Readings,
           NotAfter(x, y), NotAfter(y, z)
    PROVE  NotAfter(x, z)
BY DEF Readings, NotAfter

LEMMA EmptyValues == NoEntry \in Entries /\ NoReport \in Report /\ Sample \in Report
BY DEF NoEntry, Entries, NoReport, Report, Sample, NoCount, Readings

LEMMA InitIInv == Init => IInv
<1> SUFFICES ASSUME Init PROVE IInv
  OBVIOUS
<1>1. Shape
  <2>1. NoCount \in Readings
    BY DEF NoCount, Readings
  <2>2. QED
    BY <2>1, EmptyValues DEF Init, Shape, GoLabels
<1>2. \A c \in Container : ~HasEntry(c) /\ prev[c] = FALSE /\ go[c] = "none"
                            /\ out[c] = NoReport
                            /\ count[c] = NoCount /\ lastCount[c] = NoCount
  BY DEF Init, HasEntry
<1>3. \A c \in Container : restart[c].have = FALSE
  BY DEF Init, NoEntry
<1>4. MapsAreBounded /\ NoneMissed
  BY <1>2 DEF Init, MapsAreBounded, NoneMissed
<1>5. ReadAsListed /\ CountsInOrder
  <2>1. NoCount \in Readings
    BY DEF NoCount, Readings
  <2>2. QED
    BY <1>2, <1>3, <2>1, NotAfterItself DEF ReadAsListed, CountsInOrder, Running, NoReport
<1>6. SamplesCarryCounts
  BY <1>2 DEF Init, SamplesCarryCounts, NoReport
<1>7. QED
  BY <1>1, <1>4, <1>5, <1>6 DEF IInv

-----------------------------------------------------------------------------

\* The runtime moves on its own, and its readings come in order.
LEMMA RuntimeKeeps ==
    ASSUME IInv, UNCHANGED <<client, histories>>,
           count' \in [Container -> Readings], \A c \in Container : NotAfter(count[c], count'[c])
    PROVE  IInv'
<1> USE DEF IInv, client, histories
<1>1. Shape'
  BY DEF Shape
<1>2. CountsInOrder'
  <2> SUFFICES ASSUME NEW c \in Container
               PROVE  /\ NotAfter(lastCount[c], count'[c])
                      /\ restart[c].have =>
                           NotAfter(lastCount[c], restart[c].count) /\ NotAfter(restart[c].count, count'[c])
    BY DEF CountsInOrder
  <2>1. /\ lastCount[c] \in Readings /\ count[c] \in Readings /\ count'[c] \in Readings
        /\ restart[c].count \in Readings
    BY DEF Shape, Entries
  <2>2. QED
    BY <2>1, NotAfterBoth DEF CountsInOrder
<1>3. MapsAreBounded' /\ ReadAsListed' /\ SamplesCarryCounts' /\ NoneMissed'
  BY DEF MapsAreBounded, ReadAsListed, SamplesCarryCounts, NoneMissed, HasEntry
<1>4. QED
  BY <1>1, <1>2, <1>3

LEMMA RuntimeSteps ==
    ASSUME IInv, NEW c \in Container, Starts(c) \/ Restarts(c) \/ Exits(c) \/ Removed(c)
    PROVE  IInv'
<1>1. UNCHANGED <<client, histories>>
  BY DEF Starts, Restarts, Exits, Removed, Changes
<1>2. count \in [Container -> Readings]
  BY DEF IInv, Shape
<1>3. \/ count' = count
      \/ count' = [count EXCEPT ![c].n = @ + 1]
      \/ count' = [count EXCEPT ![c] = [resets |-> @.resets + 1, n |-> 0]]
      \/ count' = [count EXCEPT ![c] = @]
  BY DEF Starts, Restarts, Exits, Removed
<1>4. count' \in [Container -> Readings] /\ \A d \in Container : NotAfter(count[d], count'[d])
  BY <1>2, <1>3, NotAfterItself DEF Readings, NotAfter
<1>5. QED
  BY <1>1, <1>4, RuntimeKeeps

LEMMA ListKeeps == ASSUME IInv, NEW stopped \in SUBSET Container, List(stopped) PROVE IInv'
<1> USE DEF IInv
<1> DEFINE listed == {c \in Container : Exists(c)}
           running == {c \in listed : state[c] = "running"}
<1>1. /\ \A c \in Container : go[c] = "none"
      /\ prev' = Pruned(prev, FALSE, running)
      /\ restart' = Pruned(restart, NoEntry, running)
      /\ cycle' = IF listed = {} THEN cycle ELSE cycle + 1
      /\ inspect' = {c \in running : Due(restart'[c], c, cycle')}
      /\ go' = [c \in Container |-> IF c \in running THEN "stats"
                                    ELSE IF c \in stopped THEN "stopped" ELSE "none"]
      /\ out' = [c \in Container |-> NoReport]
      /\ ran' = running
      /\ known' = known \intersect running
      /\ steady' = steady \union (Container \ running)
      /\ stopped \subseteq listed \ running
      /\ UNCHANGED <<count, lastCount>>
  BY DEF List, Collecting, Recent, runtime
<1>2. running \subseteq Container /\ (listed = {} => running = {})
  OBVIOUS
<1> HIDE DEF running, listed
<1>3. \A c \in Container : restart'[c] = IF c \in running THEN restart[c] ELSE NoEntry
  BY <1>1 DEF Pruned
<1>4. \A c \in Container : prev'[c] = IF c \in running THEN prev[c] ELSE FALSE
  BY <1>1 DEF Pruned
<1>5. Shape'
  <2>1. restart' \in [Container -> Entries] /\ prev' \in [Container -> BOOLEAN]
    BY <1>1, EmptyValues DEF Pruned, Shape
  <2>2. go' \in [Container -> GoLabels] /\ out' \in [Container -> Report]
    BY <1>1, EmptyValues DEF GoLabels
  <2>3. cycle' \in Nat
    BY <1>1 DEF Shape
  <2>4. inspect' \subseteq Container /\ ran' \subseteq Container
        /\ known' \subseteq Container /\ steady' \subseteq Container
    BY <1>1, <1>2 DEF Shape
  <2>5. QED
    BY <1>1, <2>1, <2>2, <2>3, <2>4 DEF Shape
<1>6. MapsAreBounded'
  BY <1>1, <1>3, <1>4 DEF MapsAreBounded, HasEntry
<1>7. ReadAsListed'
  <2>1. \A c \in Container : ~out'[c].read
    BY <1>1 DEF NoReport
  <2>2. QED
    BY <1>1, <2>1 DEF ReadAsListed, Running
<1>8. CountsInOrder'
  <2>1. ~NoEntry.have
    BY DEF NoEntry
  <2>2. QED
    BY <1>1, <1>3, <2>1 DEF CountsInOrder
<1>9. SamplesCarryCounts'
  <2>1. \A c \in Container : ~out'[c].read
    BY <1>1 DEF NoReport
  <2>2. QED
    BY <1>1, <1>3, <2>1 DEF SamplesCarryCounts, Shape
<1>10. NoneMissed'
  <2> SUFFICES ASSUME NEW c \in steady', HasEntry(c)',
                      NEW n \in restart'[c].cycle + inspectEvery .. cycle',
                      (n + slot[c]) % inspectEvery = 0
               PROVE  n = cycle' /\ c \in inspect' /\ go'[c] \in Running
    BY DEF NoneMissed
  <2>1. c \in Container /\ c \in running /\ restart'[c] = restart[c] /\ HasEntry(c)
    BY <1>1, <1>3 DEF Shape, HasEntry
  <2>2. c \in steady /\ cycle' = cycle + 1
    BY <1>1, <1>2, <2>1
  <2>3. restart[c].cycle \in Nat /\ cycle \in Nat /\ inspectEvery \in Nat
    BY <2>1, DockerAssumption DEF Shape, Entries
  <2>4. n = cycle'
    <3>1. ASSUME n \in restart[c].cycle + inspectEvery .. cycle PROVE FALSE
      BY <1>1, <2>1, <2>2, <3>1 DEF NoneMissed, Running
    <3>2. QED
      BY <2>1, <2>2, <2>3, <3>1
  <2>5. Due(restart'[c], c, cycle')
    BY <2>1, <2>2, <2>3, <2>4 DEF Due
  <2>6. QED
    BY <1>1, <2>1, <2>4, <2>5 DEF Running
<1>11. QED
  BY <1>5, <1>6, <1>7, <1>8, <1>9, <1>10

LEMMA StutterKeeps ==
    ASSUME IInv, UNCHANGED <<runtime, client, histories>>
    PROVE  IInv'
BY DEF IInv, runtime, client, histories, Shape, MapsAreBounded, ReadAsListed, CountsInOrder,
       SamplesCarryCounts, NoneMissed, HasEntry

-----------------------------------------------------------------------------
(* The goroutines *)

NeverFalls == \A c \in Container : NotAfter(lastCount[c], lastCount'[c])

\* A report carries the count it is given, or none; the count must not be too old.
LEMMA ReportsKeep ==
    ASSUME Shape, CountsInOrder, NEW c \in Container, NEW report \in Report, Reports(c, report),
           report.has => NotAfter(lastCount[c], report.count)
    PROVE  /\ out' = [out EXCEPT ![c] = report] /\ out' \in [Container -> Report]
           /\ lastCount' \in [Container -> Readings] /\ NeverFalls
           /\ \A d \in Container \ {c} : lastCount'[d] = lastCount[d]
           /\ lastCount'[c] = IF report.has THEN report.count ELSE lastCount[c]
           /\ known' \subseteq Container
           /\ known' \in {known, known \union {c}}
           /\ c \in known' \ known => report.has /\ report.listed = "running"
<1>1. report.count \in Readings /\ lastCount \in [Container -> Readings] /\ known \subseteq Container
      /\ out \in [Container -> Report]
  BY DEF Report, Shape
<1>2. lastCount' = IF report.has THEN [lastCount EXCEPT ![c] = report.count] ELSE lastCount
  BY DEF Reports
<1>3. lastCount' \in [Container -> Readings] /\ NeverFalls
  BY <1>1, <1>2, NotAfterItself DEF NeverFalls
<1>4. known' \in {known, known \union {c}}
      /\ (c \in known' \ known => report.has /\ report.listed = "running")
  BY DEF Reports
<1>5. out' = [out EXCEPT ![c] = report] /\ out' \in [Container -> Report]
  BY <1>1 DEF Reports
<1>6. QED
  BY <1>1, <1>2, <1>3, <1>4, <1>5

LEMMA AcquireKeeps == ASSUME IInv, NEW c \in Container, Acquire(c) PROVE IInv' /\ NeverFalls
<1> USE DEF IInv
<1>1. /\ go[c] \in {"stats", "stopped"}
      /\ go' = [go EXCEPT ![c] = IF go[c] = "stats" THEN "statsCall" ELSE "stoppedCall"]
      /\ UNCHANGED <<count, cycle, prev, restart, inspect, out, ran, lastCount, known, steady>>
  BY DEF Acquire, runtime, histories
<1>2. go' \in [Container -> GoLabels]
  BY <1>1 DEF Shape, GoLabels
<1>3. /\ \A d \in Container \ {c} : go'[d] = go[d]
      /\ go'[c] = IF go[c] = "stats" THEN "statsCall" ELSE "stoppedCall"
  BY <1>1 DEF Shape
<1>4. Shape' /\ MapsAreBounded' /\ CountsInOrder'
  BY <1>1, <1>2 DEF Shape, MapsAreBounded, CountsInOrder, HasEntry
<1>5. ReadAsListed'
  BY <1>1, <1>3 DEF ReadAsListed, Running
<1>6. SamplesCarryCounts'
  BY <1>1, <1>3 DEF SamplesCarryCounts
<1>7. NoneMissed'
  <2>1. \A d \in Container : go[d] \in Running => go'[d] \in Running
    BY <1>1, <1>3 DEF Running
  <2>2. steady \subseteq Container
    BY DEF Shape
  <2>3. QED
    BY <1>1, <2>1, <2>2 DEF NoneMissed, HasEntry
<1>8. NeverFalls
  BY <1>1, NotAfterItself DEF NeverFalls, Shape
<1>9. QED
  BY <1>4, <1>5, <1>6, <1>7, <1>8

\* The goroutine leaves without a sample; steady is given up if the call was due.
LEMMA FailsKeeps ==
    ASSUME IInv, NEW c \in Container, go[c] \in {"statsCall", "stoppedCall"}, Fails(c),
           \/ steady' = steady \ {c}
           \/ go[c] = "stoppedCall" /\ UNCHANGED steady
    PROVE  IInv' /\ NeverFalls
<1> USE DEF IInv
<1>1. /\ go' = [go EXCEPT ![c] = "done"]
      /\ UNCHANGED <<count, cycle, prev, restart, inspect, out, ran, lastCount, known>>
      /\ steady' \subseteq steady
  BY DEF Fails, Leaves, runtime
<1>2. /\ \A d \in Container \ {c} : go'[d] = go[d]
      /\ go'[c] = "done" /\ go' \in [Container -> GoLabels]
  BY <1>1 DEF Shape, GoLabels
<1>3. Shape' /\ MapsAreBounded' /\ CountsInOrder'
  BY <1>1, <1>2 DEF Shape, MapsAreBounded, CountsInOrder, HasEntry
<1>4. ReadAsListed'
  BY <1>1, <1>2 DEF ReadAsListed, Running
<1>5. SamplesCarryCounts'
  BY <1>1, <1>2 DEF SamplesCarryCounts, ReadAsListed
<1>6. NoneMissed'
  <2>1. \A d \in steady' : go[d] \in Running => go'[d] \in Running
    BY <1>1, <1>2 DEF Running, Shape
  <2>2. QED
    BY <1>1, <2>1 DEF NoneMissed, HasEntry
<1>7. NeverFalls
  BY <1>1, NotAfterItself DEF NeverFalls, Shape
<1>8. QED
  BY <1>3, <1>4, <1>5, <1>6, <1>7

\* The sample is there; the count comes from what is kept, or from the inspect call.
LEMMA StatsAnswersKeeps ==
    ASSUME IInv, NEW c \in Container, StatsAnswers(c)
    PROVE  IInv' /\ NeverFalls
<1> USE DEF IInv
<1>1. /\ go[c] = "statsCall" /\ c \in ran
      /\ prev' = [prev EXCEPT ![c] = TRUE]
      /\ UNCHANGED <<count, cycle, restart, inspect, ran, steady>>
  BY DEF StatsAnswers, ReadAsListed, Running, runtime
<1>2. restart[c] \in Entries /\ restart[c].count \in Readings
  BY DEF Shape, Entries
<1>3. MapsAreBounded' /\ prev' \in [Container -> BOOLEAN]
  BY <1>1 DEF MapsAreBounded, HasEntry, Shape
<1>4. CASE c \in inspect
  <2>1. /\ go' = [go EXCEPT ![c] = "inspectCall"]
        /\ out' = [out EXCEPT ![c] = Sample]
        /\ UNCHANGED <<lastCount, known>>
    BY <1>4 DEF StatsAnswers
  <2>2. /\ \A d \in Container \ {c} : go'[d] = go[d] /\ out'[d] = out[d]
        /\ go'[c] = "inspectCall" /\ go' \in [Container -> GoLabels]
        /\ out'[c] = Sample /\ out' \in [Container -> Report]
    BY <2>1, EmptyValues DEF Shape, GoLabels
  <2>3. Shape' /\ CountsInOrder' /\ NeverFalls
    BY <1>1, <1>3, <2>1, <2>2, NotAfterItself DEF Shape, CountsInOrder, NeverFalls
  <2>4. ReadAsListed'
    BY <1>1, <2>2 DEF ReadAsListed, Running
  <2>5. SamplesCarryCounts'
    BY <1>1, <2>1, <2>2 DEF SamplesCarryCounts
  <2>6. NoneMissed'
    <3>1. \A d \in steady : go[d] \in Running => go'[d] \in Running
      BY <2>2 DEF Running, Shape
    <3>2. QED
      BY <1>1, <3>1 DEF NoneMissed, HasEntry
  <2>7. QED
    BY <1>3, <2>3, <2>4, <2>5, <2>6
<1>5. CASE c \notin inspect
  <2> DEFINE report == Counted(Sample, restart[c])
  <2>1. go' = [go EXCEPT ![c] = "done"] /\ Reports(c, report)
    BY <1>5 DEF StatsAnswers, Leaves
  <2>2. /\ report \in Report /\ report.has = restart[c].have /\ report.read
        /\ report.has => report.count = restart[c].count
    BY <1>2, EmptyValues DEF Counted, Sample, NoReport, Report, Entries
  <2>3. report.has => NotAfter(lastCount[c], report.count)
    BY <2>2 DEF CountsInOrder
  <2> HIDE DEF report
  <2>4. /\ out' = [out EXCEPT ![c] = report] /\ out' \in [Container -> Report]
        /\ lastCount' \in [Container -> Readings] /\ NeverFalls
        /\ \A d \in Container \ {c} : lastCount'[d] = lastCount[d]
        /\ lastCount'[c] = IF report.has THEN report.count ELSE lastCount[c]
        /\ known' \subseteq Container /\ known' \in {known, known \union {c}}
        /\ c \in known' \ known => report.has
    BY <2>1, <2>2, <2>3, ReportsKeep
  <2>5. /\ \A d \in Container \ {c} : go'[d] = go[d] /\ out'[d] = out[d]
        /\ go'[c] = "done" /\ go' \in [Container -> GoLabels] /\ out'[c] = report
    BY <2>1, <2>4 DEF Shape, GoLabels
  <2>6. Shape'
    BY <1>1, <1>3, <2>4, <2>5 DEF Shape
  <2>7. CountsInOrder'
    <3>1. restart[c].have => NotAfter(restart[c].count, count[c])
      BY DEF CountsInOrder
    <3>2. QED
      BY <1>1, <1>2, <2>2, <2>4, <3>1, NotAfterItself DEF CountsInOrder
  <2>8. ReadAsListed'
    BY <1>1, <2>2, <2>5 DEF ReadAsListed, Running
  <2>9. SamplesCarryCounts'
    BY <1>1, <2>2, <2>4, <2>5 DEF SamplesCarryCounts
  <2>10. NoneMissed'
    <3>1. \A d \in steady \ {c} : go'[d] = go[d]
      BY <2>5 DEF Shape
    <3>2. QED
      BY <1>1, <1>5, <3>1 DEF NoneMissed, HasEntry
  <2>11. QED
    BY <1>3, <2>4, <2>6, <2>7, <2>8, <2>9, <2>10
<1>6. QED
  BY <1>4, <1>5

\* An inspect call that was made, whatever came of it, moves the stamp of its entry.
LEMMA PutKeeps ==
    ASSUME IInv, NEW c \in Container, go[c] = "inspectCall",
           NEW entry \in Entries, Put(c, entry),
           entry.cycle = cycle,
           restart[c].have => entry.have,
           entry.have => NotAfter(lastCount[c], entry.count) /\ NotAfter(entry.count, count[c])
    PROVE  IInv' /\ NeverFalls
<1> USE DEF IInv
<1> DEFINE report == Counted(out[c], entry)
<1>1. /\ c \in ran /\ out[c] = Sample
      /\ restart' = [restart EXCEPT ![c] = entry]
      /\ go' = [go EXCEPT ![c] = "done"]
      /\ Reports(c, report)
      /\ steady' = steady \union {c}
      /\ UNCHANGED <<count, cycle, prev, inspect, ran>>
  BY DEF Put, Leaves, ReadAsListed, Running, runtime
<1>2. /\ report \in Report /\ report.has = entry.have /\ report.read
      /\ report.has => report.count = entry.count
  BY <1>1, EmptyValues DEF Counted, Sample, NoReport, Report, Entries
<1>3. report.has => NotAfter(lastCount[c], report.count)
  BY <1>2
<1> HIDE DEF report
<1>4. /\ out' = [out EXCEPT ![c] = report] /\ out' \in [Container -> Report]
      /\ lastCount' \in [Container -> Readings] /\ NeverFalls
      /\ \A d \in Container \ {c} : lastCount'[d] = lastCount[d]
      /\ lastCount'[c] = IF report.has THEN report.count ELSE lastCount[c]
      /\ known' \subseteq Container /\ known' \in {known, known \union {c}}
      /\ c \in known' \ known => report.has
  BY <1>1, <1>2, <1>3, ReportsKeep
<1>5. /\ \A d \in Container \ {c} :
            go'[d] = go[d] /\ out'[d] = out[d] /\ restart'[d] = restart[d]
      /\ go'[c] = "done" /\ go' \in [Container -> GoLabels]
      /\ out'[c] = report
      /\ restart'[c] = entry /\ restart' \in [Container -> Entries]
  BY <1>1, <1>4 DEF Shape, GoLabels
<1>6. Shape'
  BY <1>1, <1>4, <1>5 DEF Shape
<1>7. MapsAreBounded'
  BY <1>1, <1>5 DEF MapsAreBounded, HasEntry
<1>8. CountsInOrder'
  <2>1. entry.count \in Readings
    BY DEF Entries
  <2>2. NotAfter(lastCount[c], count[c])
    BY DEF CountsInOrder
  <2>3. QED
    BY <1>1, <1>2, <1>4, <1>5, <2>1, <2>2, NotAfterItself DEF CountsInOrder
<1>9. ReadAsListed'
  BY <1>1, <1>2, <1>5 DEF ReadAsListed, Running
<1>10. SamplesCarryCounts'
  BY <1>1, <1>2, <1>4, <1>5 DEF SamplesCarryCounts, Shape
<1>11. NoneMissed'
  <2> SUFFICES ASSUME NEW d \in steady', HasEntry(d)',
                      NEW n \in restart'[d].cycle + inspectEvery .. cycle',
                      (n + slot[d]) % inspectEvery = 0
               PROVE  n = cycle' /\ d \in inspect' /\ go'[d] \in Running
    BY DEF NoneMissed
  <2>1. CASE d = c
    <3>1. cycle \in Nat /\ inspectEvery \in Nat \ {0}
      BY DockerAssumption DEF Shape
    <3>2. QED
      BY <1>1, <1>5, <2>1, <3>1
  <2>2. CASE d # c
    <3>1. d \in steady /\ d \in Container
      BY <1>1, <2>2 DEF Shape
    <3>2. QED
      BY <1>1, <1>5, <2>2, <3>1 DEF NoneMissed, HasEntry
  <2>3. QED
    BY <2>1, <2>2
<1>12. QED
  BY <1>4, <1>6, <1>7, <1>8, <1>9, <1>10, <1>11

LEMMA InspectKeeps ==
    ASSUME IInv, NEW c \in Container, InspectAnswers(c) \/ InspectFails(c)
    PROVE  IInv' /\ NeverFalls
<1>1. /\ restart[c] \in Entries /\ count[c] \in Readings /\ cycle \in Nat
      /\ lastCount[c] \in Readings /\ NotAfter(lastCount[c], count[c])
      /\ restart[c].have => NotAfter(lastCount[c], restart[c].count) /\ NotAfter(restart[c].count, count[c])
  BY DEF IInv, Shape, CountsInOrder
<1>2. CASE InspectAnswers(c)
  <2> DEFINE entry == [have |-> TRUE, count |-> count[c], cycle |-> cycle]
  <2>1. go[c] = "inspectCall" /\ Put(c, entry)
    BY <1>2 DEF InspectAnswers
  <2>2. entry \in Entries /\ entry.cycle = cycle /\ entry.have /\ entry.count = count[c]
    BY <1>1 DEF Entries
  <2> HIDE DEF entry
  <2>3. QED
    BY <1>1, <2>1, <2>2, NotAfterItself, PutKeeps
<1>3. CASE InspectFails(c)
  <2> DEFINE entry == [restart[c] EXCEPT !.cycle = cycle]
  <2>1. go[c] = "inspectCall" /\ Put(c, entry)
    BY <1>3 DEF InspectFails
  <2>2. /\ entry \in Entries /\ entry.cycle = cycle
        /\ entry.have = restart[c].have /\ entry.count = restart[c].count
    BY <1>1 DEF Entries
  <2> HIDE DEF entry
  <2>3. QED
    BY <1>1, <2>1, <2>2, PutKeeps
<1>4. QED
  BY <1>2, <1>3

LEMMA StoppedAnswersKeeps ==
    ASSUME IInv, NEW c \in Container, StoppedAnswers(c)
    PROVE  IInv' /\ NeverFalls
<1> USE DEF IInv
<1>1. PICK claim \in Claims(c) :
        Reports(c, [NoReport EXCEPT !.listed = "stopped", !.running = claim,
                                    !.has = TRUE, !.count = count[c]])
  BY DEF StoppedAnswers
<1> DEFINE report == [NoReport EXCEPT !.listed = "stopped", !.running = claim,
                                      !.has = TRUE, !.count = count[c]]
<1>2. /\ go[c] = "stoppedCall" /\ c \notin ran
      /\ go' = [go EXCEPT ![c] = "done"]
      /\ Reports(c, report)
      /\ UNCHANGED <<count, cycle, prev, restart, inspect, ran, steady>>
  BY <1>1 DEF StoppedAnswers, Leaves, ReadAsListed, runtime
<1>3. count[c] \in Readings /\ claim \in BOOLEAN
  BY DEF Shape, Claims
<1>4. /\ report \in Report /\ report.has /\ report.count = count[c]
      /\ report.listed = "stopped" /\ ~report.read
  BY <1>3 DEF NoReport, Report
<1>5. report.has => NotAfter(lastCount[c], report.count)
  BY <1>4 DEF CountsInOrder
<1> HIDE DEF report
<1>6. /\ out' = [out EXCEPT ![c] = report] /\ out' \in [Container -> Report]
      /\ lastCount' \in [Container -> Readings] /\ NeverFalls
      /\ \A d \in Container \ {c} : lastCount'[d] = lastCount[d]
      /\ lastCount'[c] = count[c]
      /\ known' = known
  BY <1>2, <1>4, <1>5, ReportsKeep DEF Reports
<1>7. /\ \A d \in Container \ {c} : go'[d] = go[d] /\ out'[d] = out[d]
      /\ go'[c] = "done" /\ go' \in [Container -> GoLabels] /\ out'[c] = report
  BY <1>2, <1>6 DEF Shape, GoLabels
<1>8. Shape' /\ MapsAreBounded'
  BY <1>2, <1>6, <1>7 DEF Shape, MapsAreBounded, HasEntry
<1>9. CountsInOrder'
  <2>1. ~restart[c].have
    BY <1>2 DEF MapsAreBounded, HasEntry, NoEntry
  <2>2. QED
    BY <1>2, <1>3, <1>6, <2>1, NotAfterItself DEF CountsInOrder
<1>10. ReadAsListed'
  BY <1>2, <1>7 DEF ReadAsListed, Running
<1>11. SamplesCarryCounts'
  BY <1>2, <1>4, <1>6, <1>7 DEF SamplesCarryCounts, Shape
<1>12. NoneMissed'
  <2>1. \A d \in steady : go[d] \in Running => go'[d] \in Running
    BY <1>2, <1>7 DEF Running, Shape
  <2>2. QED
    BY <1>2, <2>1 DEF NoneMissed, HasEntry
<1>13. QED
  BY <1>6, <1>8, <1>9, <1>10, <1>11, <1>12

LEMMA AssembleKeeps == ASSUME IInv, Assemble PROVE IInv' /\ NeverFalls
<1> USE DEF IInv
<1>1. /\ \A c \in Container : go[c] \in {"none", "done"}
      /\ go' = [c \in Container |-> "none"]
      /\ inspect' = {} /\ out' = [c \in Container |-> NoReport]
      /\ UNCHANGED <<count, cycle, prev, restart, ran, lastCount, known, steady>>
  BY DEF Assemble, runtime, histories
<1>2. Shape' /\ MapsAreBounded' /\ CountsInOrder' /\ NeverFalls
  BY <1>1, EmptyValues, NotAfterItself
     DEF Shape, GoLabels, MapsAreBounded, HasEntry, CountsInOrder, NeverFalls
<1>3. ReadAsListed' /\ SamplesCarryCounts'
  <2>1. \A c \in Container : ~out'[c].read
    BY <1>1 DEF NoReport
  <2>2. QED
    BY <1>1, <2>1 DEF ReadAsListed, SamplesCarryCounts, Running
<1>4. NoneMissed'
  <2>1. \A c \in steady : go[c] \notin Running
    BY <1>1 DEF Running, Shape
  <2>2. QED
    BY <1>1, <2>1 DEF NoneMissed, HasEntry
<1>5. QED
  BY <1>2, <1>3, <1>4

LEMMA ReadKeeps == ASSUME IInv, NEW c \in Container, Read(c) PROVE IInv' /\ NeverFalls
<1>1. CASE StatsFails(c) \/ StoppedSkipped(c)
  BY <1>1, FailsKeeps DEF StatsFails, StoppedSkipped
<1>2. QED
  BY <1>1, AcquireKeeps, StatsAnswersKeeps, InspectKeeps, StoppedAnswersKeeps DEF Read

LEMMA SameCounts == ASSUME IInv, UNCHANGED lastCount PROVE NeverFalls
BY NotAfterItself DEF IInv, Shape, NeverFalls

LEMMA NextKeeps == ASSUME IInv, [Next]_vars PROVE IInv' /\ NeverFalls
<1>1. ASSUME NEW c \in Container, Starts(c) \/ Restarts(c) \/ Exits(c) \/ Removed(c)
      PROVE  IInv' /\ NeverFalls
  <2>1. UNCHANGED lastCount
    BY <1>1 DEF Starts, Restarts, Exits, Removed, Changes, histories
  <2>2. QED
    BY <1>1, <2>1, RuntimeSteps, SameCounts
<1>2. ASSUME NEW stopped \in SUBSET Container, List(stopped) PROVE IInv' /\ NeverFalls
  <2>1. UNCHANGED lastCount
    BY <1>2 DEF List
  <2>2. QED
    BY <1>2, <2>1, ListKeeps, SameCounts
<1>3. CASE UNCHANGED vars
  <2>1. UNCHANGED <<runtime, client, histories>>
    BY <1>3 DEF vars
  <2>2. UNCHANGED lastCount
    BY <2>1 DEF histories
  <2>3. QED
    BY <2>1, <2>2, StutterKeeps, SameCounts
<1>4. QED
  BY <1>1, <1>2, <1>3, ReadKeeps, AssembleKeeps DEF Next

LEMMA Invariance == Spec => []IInv
<1>1. IInv /\ [Next]_vars => IInv'
  BY NextKeeps
<1>2. QED
  BY <1>1, InitIInv, PTL DEF Spec

-----------------------------------------------------------------------------

\* What the client remembers is about containers that ran at the last list.
THEOREM MapsBounded == Spec => []MapsAreBounded
BY Invariance, PTL DEF IInv

\* The reported restart counts of a container come in the order in which the runtime
\* gave them, across the cache and the fresh calls: a fall is a reset of the runtime.
THEOREM ReportsComeInOrder == Spec => CountFallsByResetOnly
<1>1. IInv /\ [Next]_vars => [\A c \in Container : NotAfter(lastCount[c], lastCount'[c])]_vars
  BY NextKeeps DEF NeverFalls
<1>2. QED
  BY <1>1, Invariance, PTL DEF Spec, CountFallsByResetOnly

\* A count that was reported once stays in the samples of a running container, and
\* a failed inspect call costs no sample.
THEOREM SeriesKept == Spec => []SeriesKeepsCount
<1>1. IInv => SeriesKeepsCount
  <2> SUFFICES ASSUME IInv, NEW c \in known, go[c] = "done"
               PROVE  (c \in steady => out[c].read) /\ (out[c].read => out[c].has)
    BY DEF SeriesKeepsCount
  <2>1. c \in Container /\ restart[c].have
    BY DEF IInv, Shape, SamplesCarryCounts
  <2>2. c \in ran
    BY <2>1 DEF IInv, MapsAreBounded, HasEntry, NoEntry
  <2>3. QED
    BY <2>1, <2>2 DEF IInv, ReadAsListed, SamplesCarryCounts
<1>2. QED
  BY <1>1, Invariance, PTL

LEMMA MultiplesVanish == ASSUME NEW R \in Nat \ {0}, NEW q \in Nat PROVE (R * q) % R = 0
OBVIOUS

LEMMA RemainderOf ==
    ASSUME NEW R \in Nat \ {0}, NEW x \in Nat
    PROVE  x = R * (x \div R) + (x % R) /\ x \div R \in Nat /\ x % R \in 0 .. R - 1
OBVIOUS

\* Of R numbers in a row one is a multiple of R.
LEMMA MultipleAmong ==
    ASSUME NEW R \in Nat \ {0}, NEW x \in Nat
    PROVE  \E k \in 0 .. R - 1 : (x + k) % R = 0
<1> DEFINE q == x \div R
           r == x % R
<1>1. x = R * q + r /\ q \in Nat /\ r \in 0 .. R - 1
  BY RemainderOf
<1>2. CASE r = 0
  BY <1>2
<1>3. CASE r # 0
  <2> HIDE DEF q, r
  <2>1. R * (q + 1) = R * q + R /\ R * q \in Nat
    BY <1>1
  <2>2. x + (R - r) = R * (q + 1)
    BY <1>1, <2>1
  <2>3. R - r \in 0 .. R - 1
    BY <1>1, <1>3
  <2>4. QED
    BY <1>1, <2>2, <2>3, MultiplesVanish, q + 1 \in Nat
<1>4. QED
  BY <1>2, <1>3

\* A running container whose stats calls succeed is inspected before two rounds are
\* over.
THEOREM RefreshInTime == Spec => []RefreshedInTime
<1>1. IInv => RefreshedInTime
  <2> SUFFICES ASSUME IInv, NEW c \in steady, ~Collecting, HasEntry(c)
               PROVE  cycle - restart[c].cycle <= 2 * inspectEvery - 2
    BY DEF RefreshedInTime
  <2>1. c \in Container /\ cycle \in Nat /\ restart[c].cycle \in Nat
    BY DEF IInv, Shape, Entries
  <2>2. inspectEvery \in Nat \ {0} /\ slot[c] \in Nat
    BY <2>1, DockerAssumption
  <2>3. \A n \in restart[c].cycle + inspectEvery .. cycle : (n + slot[c]) % inspectEvery # 0
    BY <2>1 DEF IInv, NoneMissed, Collecting, Running
  <2>4. PICK k \in 0 .. inspectEvery - 1 :
            ((restart[c].cycle + inspectEvery + slot[c]) + k) % inspectEvery = 0
    <3>1. restart[c].cycle + inspectEvery + slot[c] \in Nat
      BY <2>1, <2>2
    <3>2. QED
      BY <2>2, <3>1, MultipleAmong
  <2> DEFINE n == restart[c].cycle + inspectEvery + k
  <2>5. n + slot[c] = (restart[c].cycle + inspectEvery + slot[c]) + k /\ n \in Nat
    BY <2>1, <2>2
  <2>6. n \notin restart[c].cycle + inspectEvery .. cycle
    BY <2>3, <2>4, <2>5
  <2>7. QED
    BY <2>1, <2>2, <2>6
<1>2. QED
  BY <1>1, Invariance, PTL

-----------------------------------------------------------------------------
(* The semaphore *)

InCall == {c \in Container : go[c] \in {"statsCall", "inspectCall", "stoppedCall"}}

\* Who has a slot makes a call, and who makes a call has a slot.
SlotsTaken == IsFiniteSet(InCall) /\ sem = Cardinality(InCall) /\ sem <= batch

LEMMA SlotReturned ==
    ASSUME Shape, SlotsTaken, NEW c \in InCall, Leaves(c)
    PROVE  SlotsTaken'
<1>1. /\ c \in Container /\ go' = [go EXCEPT ![c] = "done"] /\ sem' = sem - 1
      /\ go \in [Container -> GoLabels]
  BY DEF InCall, Leaves, Shape
<1>2. InCall' = InCall \ {c}
  BY <1>1 DEF InCall
<1>3. IsFiniteSet(InCall') /\ Cardinality(InCall') = Cardinality(InCall) - 1
  BY <1>2, FS_RemoveElement DEF SlotsTaken
<1>4. Cardinality(InCall) \in Nat /\ batch \in Nat
  BY FS_CardinalityType, DockerAssumption DEF SlotsTaken
<1>5. QED
  BY <1>1, <1>3, <1>4 DEF SlotsTaken

LEMMA SlotsSame ==
    ASSUME SlotsTaken, InCall' = InCall, sem' = sem
    PROVE  SlotsTaken'
BY DEF SlotsTaken

LEMMA ReadKeepsSlots ==
    ASSUME Shape, SlotsTaken, NEW c \in Container, Read(c)
    PROVE  SlotsTaken'
<1>1. go \in [Container -> GoLabels]
  BY DEF Shape
<1>2. CASE Acquire(c)
  <2>1. /\ go[c] \in {"stats", "stopped"} /\ sem < batch /\ sem' = sem + 1
        /\ go' = [go EXCEPT ![c] = IF go[c] = "stats" THEN "statsCall" ELSE "stoppedCall"]
    BY <1>2 DEF Acquire
  <2>2. c \notin InCall /\ InCall' = InCall \union {c}
    BY <1>1, <2>1 DEF InCall
  <2>3. IsFiniteSet(InCall') /\ Cardinality(InCall') = Cardinality(InCall) + 1
    BY <2>2, FS_AddElement DEF SlotsTaken
  <2>4. Cardinality(InCall) \in Nat /\ batch \in Nat
    BY FS_CardinalityType, DockerAssumption DEF SlotsTaken
  <2>5. QED
    BY <2>1, <2>3, <2>4 DEF SlotsTaken
<1>3. CASE go[c] = "statsCall" /\ go' = [go EXCEPT ![c] = "inspectCall"] /\ sem' = sem
  <2>1. InCall' = InCall
    BY <1>1, <1>3 DEF InCall
  <2>2. QED
    BY <1>3, <2>1, SlotsSame
<1>4. CASE StatsAnswers(c)
  <2>1. go[c] = "statsCall" /\ (Leaves(c) \/ (go' = [go EXCEPT ![c] = "inspectCall"] /\ sem' = sem))
    BY <1>4 DEF StatsAnswers
  <2>2. c \in InCall
    BY <2>1 DEF InCall
  <2>3. QED
    BY <1>3, <2>1, <2>2, SlotReturned
<1>5. CASE StatsFails(c) \/ InspectAnswers(c) \/ InspectFails(c) \/ StoppedAnswers(c) \/ StoppedSkipped(c)
  <2>1. go[c] \in {"statsCall", "inspectCall", "stoppedCall"} /\ Leaves(c)
    BY <1>5 DEF StatsFails, InspectAnswers, InspectFails, StoppedAnswers, StoppedSkipped, Fails, Put
  <2>2. c \in InCall
    BY <2>1 DEF InCall
  <2>3. QED
    BY <2>1, <2>2, SlotReturned
<1>6. QED
  BY <1>2, <1>4, <1>5 DEF Read

LEMMA NextKeepsSlots == IInv /\ SlotsTaken /\ [Next]_vars => SlotsTaken'
<1> SUFFICES ASSUME IInv, SlotsTaken, [Next]_vars PROVE SlotsTaken'
  OBVIOUS
<1>1. Shape
  BY DEF IInv
<1>2. CASE \E c \in Container : Starts(c) \/ Restarts(c) \/ Exits(c) \/ Removed(c)
  <2>1. UNCHANGED <<go, sem>>
    BY <1>2 DEF Starts, Restarts, Exits, Removed, Changes, client
  <2>2. QED
    BY <2>1, SlotsSame DEF InCall
<1>3. CASE \E stopped \in SUBSET Container : List(stopped)
  <2>1. PICK stopped \in SUBSET Container : List(stopped)
    BY <1>3
  <2>2. (\A c \in Container : go[c] = "none") /\ sem' = sem
    BY <2>1 DEF List, Collecting
  <2>3. \A c \in Container : go'[c] \in {"stats", "stopped", "none"}
    BY <2>1 DEF List
  <2>4. InCall = {} /\ InCall' = {}
    BY <2>2, <2>3 DEF InCall
  <2>5. QED
    BY <2>2, <2>4, SlotsSame
<1>4. CASE UNCHANGED vars
  <2>1. UNCHANGED <<go, sem>>
    BY <1>4 DEF vars, client
  <2>2. QED
    BY <2>1, SlotsSame DEF InCall
<1>5. CASE Assemble
  <2>1. InCall' = InCall /\ sem' = sem
    BY <1>5 DEF Assemble, InCall
  <2>2. QED
    BY <2>1, SlotsSame
<1>6. QED
  BY <1>1, <1>2, <1>3, <1>4, <1>5, ReadKeepsSlots DEF Next

LEMMA SlotsInvariance == Spec => [](IInv /\ SlotsTaken)
<1>1. Init => SlotsTaken
  <2> SUFFICES ASSUME Init PROVE SlotsTaken
    OBVIOUS
  <2>1. InCall = {} /\ sem = 0
    BY DEF Init, InCall
  <2>2. QED
    BY <2>1, FS_EmptySet, DockerAssumption DEF SlotsTaken
<1>2. QED
  BY <1>1, NextKeepsSlots, Invariance, PTL DEF Spec

\* However many containers there are, the runtime never has more than batch calls
\* of one cycle at a time (docker.go 360-392).
THEOREM CallsAreBounded == Spec => [](IsFiniteSet(InCall) /\ Cardinality(InCall) <= batch)
<1>1. SlotsTaken => IsFiniteSet(InCall) /\ Cardinality(InCall) <= batch
  BY DEF SlotsTaken
<1>2. QED
  BY <1>1, SlotsInvariance, PTL

\* No slot is lost: as long as Collect is not through, a goroutine makes a call, or
\* one that waits finds a slot free.  Nobody waits for a slot nobody holds.
THEOREM NobodyWaitsInVain ==
    Spec => [](Collecting => \/ \A c \in Container : go[c] \in {"none", "done"}
                             \/ \E c \in Container : c \in InCall
                             \/ \E c \in Container : go[c] \in {"stats", "stopped"} /\ sem < batch)
<1>1. IInv /\ SlotsTaken =>
        (Collecting => \/ \A c \in Container : go[c] \in {"none", "done"}
                       \/ \E c \in Container : c \in InCall
                       \/ \E c \in Container : go[c] \in {"stats", "stopped"} /\ sem < batch)
  <2> SUFFICES ASSUME IInv, SlotsTaken, InCall = {},
                      NEW c \in Container, go[c] \notin {"none", "done"}
               PROVE  go[c] \in {"stats", "stopped"} /\ sem < batch
    BY DEF InCall
  <2>1. go[c] \in {"stats", "stopped"}
    BY DEF IInv, Shape, GoLabels, InCall
  <2>2. sem = 0
    BY FS_EmptySet DEF SlotsTaken
  <2>3. QED
    BY <2>1, <2>2, DockerAssumption
<1>2. QED
  BY <1>1, SlotsInvariance, PTL

-----------------------------------------------------------------------------
(* A Collect is short *)

\* The containers the runtime has had so far
Seen == {c \in Container : state[c] # "absent"}

\* The goroutines that have one, two or three steps before them, at least
Left1 == {c \in Container : go[c] \in GoLabels \ {"none", "done"}}
Left2 == {c \in Container : go[c] \in {"stats", "statsCall", "stopped"}}
Left3 == {c \in Container : go[c] = "stats"}

\* The steps a Collect still has before it, at most; the last one is Assemble.
ReadsLeft ==
    IF Collecting THEN Cardinality(Left1) + Cardinality(Left2) + Cardinality(Left3) + 1 ELSE 0

\* Only what the runtime has had is read, and it has had finitely many.
SeenOnly == IsFiniteSet(Seen) /\ \A c \in Container : go[c] # "none" => c \in Seen

LEMMA SeenGrows == ASSUME SeenOnly, Shape, [Next]_vars PROVE SeenOnly' /\ Seen \subseteq Seen'
<1>1. CASE \E c \in Container : Starts(c)
  <2>1. PICK c \in Container : Starts(c)
    BY <1>1
  <2>2. state' = [state EXCEPT ![c] = "running"] /\ go' = go
    BY <2>1 DEF Starts, Changes, client
  <2>3. Seen \subseteq Seen' /\ Seen' \subseteq Seen \union {c}
    BY <2>2 DEF Seen
  <2>4. IsFiniteSet(Seen')
    BY <2>3, FS_AddElement, FS_Subset DEF SeenOnly
  <2>5. QED
    BY <2>2, <2>3, <2>4 DEF SeenOnly
<1>2. CASE \E c \in Container : Restarts(c) \/ Exits(c) \/ Removed(c)
  <2>1. PICK c \in Container : Restarts(c) \/ Exits(c) \/ Removed(c)
    BY <1>2
  <2>2. /\ state[c] # "absent" /\ go' = go
        /\ \E to \in {"between", "exited", "removed"} : state' = [state EXCEPT ![c] = to]
    BY <2>1 DEF Restarts, Exits, Removed, Changes, client
  <2>3. Seen' = Seen
    BY <2>2 DEF Seen
  <2>4. QED
    BY <2>2, <2>3 DEF SeenOnly
<1>3. CASE \E stopped \in SUBSET Container : List(stopped)
  <2>1. PICK stopped \in SUBSET Container : List(stopped)
    BY <1>3
  <2>2. stopped \subseteq {c \in Container : Exists(c)}
    BY <2>1 DEF List, Recent
  <2>3. state' = state /\ \A c \in Container : go'[c] # "none" => Exists(c)
    BY <2>1, <2>2 DEF List, runtime
  <2>4. Seen' = Seen
    BY <2>3 DEF Seen
  <2>5. QED
    BY <2>3, <2>4 DEF SeenOnly, Seen, Exists
<1>4. CASE \E c \in Container : Read(c)
  <2>1. PICK c \in Container : Read(c)
    BY <1>4
  <2>2. /\ state' = state /\ go[c] # "none"
        /\ \E to \in GoLabels : go' = [go EXCEPT ![c] = to]
    BY <2>1 DEF Read, Acquire, StatsAnswers, StatsFails, InspectAnswers, InspectFails, StoppedAnswers,
                StoppedSkipped, Fails, Put, Leaves, runtime, GoLabels
  <2>3. Seen' = Seen /\ c \in Seen
    BY <2>2 DEF Seen, SeenOnly
  <2>4. QED
    BY <2>2, <2>3 DEF SeenOnly, Shape
<1>5. CASE Assemble \/ UNCHANGED vars
  <2>1. state' = state /\ \A c \in Container : go'[c] # "none" => go[c] # "none"
    BY <1>5 DEF Assemble, vars, client, runtime
  <2>2. QED
    BY <2>1 DEF SeenOnly, Seen
<1>6. QED
  BY <1>1, <1>2, <1>3, <1>4, <1>5 DEF Next

LEMMA LeftIsFinite ==
    ASSUME SeenOnly
    PROVE  /\ IsFiniteSet(Left1) /\ IsFiniteSet(Left2) /\ IsFiniteSet(Left3)
           /\ Cardinality(Left1) \in 0 .. Cardinality(Seen)
           /\ Cardinality(Left2) \in 0 .. Cardinality(Seen)
           /\ Cardinality(Left3) \in 0 .. Cardinality(Seen)
<1>1. Left1 \subseteq Seen /\ Left2 \subseteq Seen /\ Left3 \subseteq Seen
  BY DEF SeenOnly, Left1, Left2, Left3
<1>2. QED
  BY <1>1, FS_Subset, FS_CardinalityType DEF SeenOnly

LEMMA ReadsLeftBounded ==
    ASSUME SeenOnly
    PROVE  /\ ReadsLeft \in 0 .. 3 * Cardinality(Seen) + 1
           /\ Collecting <=> ReadsLeft > 0
BY LeftIsFinite, FS_CardinalityType DEF SeenOnly, ReadsLeft

\* Fewer goroutines have so many steps before them.
LEMMA FewerLeft ==
    ASSUME NEW S, NEW T, IsFiniteSet(S), T \subseteq S
    PROVE  /\ Cardinality(S) \in Nat /\ Cardinality(T) \in Nat
           /\ Cardinality(T) <= Cardinality(S)
           /\ T # S => Cardinality(T) < Cardinality(S)
BY FS_Subset, FS_CardinalityType

LEMMA ReadShortens ==
    ASSUME SeenOnly, Shape, NEW c \in Container, Read(c)
    PROVE  ReadsLeft' < ReadsLeft /\ ReadsLeft' \in Int
<1>1. go \in [Container -> GoLabels]
  BY DEF Shape
<1>2. PICK to \in GoLabels :
        /\ go' = [go EXCEPT ![c] = to]
        /\ \/ go[c] = "stats" /\ to = "statsCall"
           \/ go[c] = "stopped" /\ to = "stoppedCall"
           \/ go[c] = "statsCall" /\ to = "inspectCall"
           \/ go[c] \in {"statsCall", "inspectCall", "stoppedCall"} /\ to = "done"
  BY DEF Read, Acquire, StatsAnswers, StatsFails, InspectAnswers, InspectFails, StoppedAnswers,
         StoppedSkipped, Fails, Put, Leaves, GoLabels
<1>3. Left1' \subseteq Left1 /\ Left2' \subseteq Left2 /\ Left3' \subseteq Left3
  BY <1>1, <1>2 DEF Left1, Left2, Left3, GoLabels
<1>4. Left1' # Left1 \/ Left2' # Left2 \/ Left3' # Left3
  <2>1. CASE go[c] = "stats" /\ to = "statsCall"
    BY <1>1, <1>2, <2>1 DEF Left3
  <2>2. CASE to \in {"stoppedCall", "inspectCall"} /\ go[c] \in {"stopped", "statsCall"}
    BY <1>1, <1>2, <2>2 DEF Left2
  <2>3. CASE to = "done" /\ go[c] # "done" /\ go[c] # "none"
    BY <1>1, <1>2, <2>3 DEF Left1, GoLabels
  <2>4. QED
    BY <1>2, <2>1, <2>2, <2>3
<1>5. Collecting
  BY <1>2 DEF Collecting
<1>6. Cardinality(Left1') + Cardinality(Left2') + Cardinality(Left3')
        < Cardinality(Left1) + Cardinality(Left2) + Cardinality(Left3)
  <2>1. IsFiniteSet(Left1) /\ IsFiniteSet(Left2) /\ IsFiniteSet(Left3)
    BY LeftIsFinite
  <2> HIDE DEF Left1, Left2, Left3
  <2>2. QED
    BY <1>3, <1>4, <2>1, FewerLeft
<1>7. Cardinality(Left1') \in Nat /\ Cardinality(Left2') \in Nat /\ Cardinality(Left3') \in Nat
      /\ Cardinality(Left1) \in Nat /\ Cardinality(Left2) \in Nat /\ Cardinality(Left3) \in Nat
  BY <1>3, LeftIsFinite, FewerLeft
<1> HIDE DEF Left1, Left2, Left3
<1>8. QED
  BY <1>5, <1>6, <1>7 DEF ReadsLeft

LEMMA AssembleEnds ==
    ASSUME SeenOnly, Assemble
    PROVE  ReadsLeft' = 0 /\ ReadsLeft > 0
<1>1. Collecting /\ ~Collecting'
  BY DEF Assemble, Collecting
<1>2. QED
  BY <1>1, ReadsLeftBounded DEF ReadsLeft

LEMMA CollectUndisturbed ==
    ASSUME [Next]_vars, Collecting, ~Assemble, ~\E c \in Container : Read(c)
    PROVE  ReadsLeft' = ReadsLeft
<1>1. go' = go
  BY DEF Next, vars, client, Starts, Restarts, Exits, Removed, Changes, List
<1>2. QED
  BY <1>1 DEF ReadsLeft, Left1, Left2, Left3, Collecting

ReadsAreCounted ==
    /\ ReadsLeft \in 0 .. 3 * Cardinality(Seen) + 1
    /\ Collecting <=> ReadsLeft > 0

CollectGoesOn ==
    /\ Collecting => ReadsLeft' <= ReadsLeft
    /\ (Assemble \/ \E c \in Container : Read(c)) => ReadsLeft' < ReadsLeft

\* Once it has its list a Collect is over after at most three steps for each
\* container and one more: every step of a goroutine brings the end nearer, and
\* nothing that happens to the containers meanwhile takes it further away
\* (docker.go 360-402).  With NobodyWaitsInVain this is what CollectReturns
\* rests on, for any number of containers and slots.
THEOREM CollectIsShort == Spec => []ReadsAreCounted /\ [][CollectGoesOn]_vars
<1>1. Init => SeenOnly
  <2> SUFFICES ASSUME Init PROVE SeenOnly
    OBVIOUS
  <2>1. Seen = {} /\ \A c \in Container : go[c] = "none"
    BY DEF Init, Seen
  <2>2. QED
    BY <2>1, FS_EmptySet DEF SeenOnly
<1>2. IInv /\ SeenOnly /\ [Next]_vars => SeenOnly'
  BY SeenGrows DEF IInv
<1>3. SeenOnly => ReadsAreCounted
  BY ReadsLeftBounded DEF ReadsAreCounted
<1>4. IInv /\ SeenOnly /\ [Next]_vars => [CollectGoesOn]_vars
  <2> SUFFICES ASSUME IInv, SeenOnly, [Next]_vars PROVE CollectGoesOn
    OBVIOUS
  <2>1. ReadsLeft \in Int
    BY LeftIsFinite DEF ReadsLeft
  <2>2. CASE \E c \in Container : Read(c)
    <3>1. ReadsLeft' < ReadsLeft /\ ReadsLeft' \in Int
      BY <2>2, ReadShortens DEF IInv
    <3>2. QED
      BY <2>1, <3>1 DEF CollectGoesOn
  <2>3. CASE Assemble
    BY <2>1, <2>3, AssembleEnds DEF CollectGoesOn
  <2>4. CASE ~Assemble /\ ~\E c \in Container : Read(c)
    BY <2>1, <2>4, CollectUndisturbed DEF CollectGoesOn
  <2>5. QED
    BY <2>2, <2>3, <2>4
<1>5. QED
  BY <1>1, <1>2, <1>3, <1>4, Invariance, PTL DEF Spec

-----------------------------------------------------------------------------
(* Types *)

\* A run ends before the next one begins, and each run crashes once at most.
RuntimeOK ==
    /\ state \in [Container -> {"absent", "running", "between", "exited", "removed"}]
    /\ runs \in [Container -> Nat]
    /\ \A c \in Container :
        /\ count[c].resets + count[c].n <= runs[c] /\ runs[c] <= MaxRuns[c]
        /\ state[c] # "absent" => count[c].resets < runs[c]
        /\ state[c] = "running" => count[c].resets + count[c].n < runs[c]
    /\ cycle \in 0 .. MaxCycles

LEMMA RuntimeTypes ==
    ASSUME Shape, RuntimeOK, NEW c \in Container, Starts(c) \/ Restarts(c) \/ Exits(c) \/ Removed(c)
    PROVE  RuntimeOK'
<1>1. /\ count \in [Container -> Readings] /\ cycle' = cycle
      /\ MaxRuns \in [Container -> Nat]
  BY DockerAssumption DEF Shape, Starts, Restarts, Exits, Removed, Changes, client
<1>2. CASE Starts(c)
  <2>1. /\ state' = [state EXCEPT ![c] = "running"]
        /\ runs[c] < MaxRuns[c] /\ runs' = [runs EXCEPT ![c] = runs[c] + 1]
        /\ count' = [count EXCEPT ![c] = IF state[c] = "exited"
                                         THEN [resets |-> count[c].resets + 1, n |-> 0]
                                         ELSE count[c]]
    BY <1>2 DEF Starts, Changes
  <2>2. /\ count[c].resets \in Nat /\ count[c].n \in Nat
        /\ runs[c] \in Nat /\ MaxRuns[c] \in Nat
    BY <1>1 DEF Readings, RuntimeOK
  <2>3. count'[c].resets + count'[c].n < runs'[c] /\ count'[c].resets < runs'[c]
    BY <1>1, <2>1, <2>2 DEF RuntimeOK
  <2>4. \A d \in Container \ {c} :
            state'[d] = state[d] /\ runs'[d] = runs[d] /\ count'[d] = count[d]
    BY <1>1, <2>1 DEF RuntimeOK
  <2>5. count'[c].resets \in Nat /\ count'[c].n \in Nat /\ runs'[c] = runs[c] + 1
    BY <1>1, <2>1, <2>2 DEF RuntimeOK
  <2>6. /\ state' \in [Container -> {"absent", "running", "between", "exited", "removed"}]
        /\ runs' \in [Container -> Nat] /\ state'[c] = "running"
    BY <2>1, <2>2 DEF RuntimeOK
  <2>7. count'[c].resets + count'[c].n <= runs'[c] /\ runs'[c] <= MaxRuns[c]
    BY <2>1, <2>2, <2>3, <2>5
  <2>8. QED
    BY <1>1, <2>3, <2>4, <2>6, <2>7 DEF RuntimeOK
<1>3. CASE Restarts(c)
  <2>1. /\ state[c] = "running" /\ state' = [state EXCEPT ![c] = "between"] /\ runs' = runs
        /\ count' = [count EXCEPT ![c].n = count[c].n + 1]
    BY <1>3 DEF Restarts, Changes
  <2>2. count[c].resets \in Nat /\ count[c].n \in Nat /\ runs[c] \in Nat
    BY <1>1 DEF Readings, RuntimeOK
  <2>3. count'[c].resets = count[c].resets /\ count'[c].n = count[c].n + 1
    BY <1>1, <2>1 DEF Readings
  <2>4. \A d \in Container \ {c} : state'[d] = state[d] /\ count'[d] = count[d]
    BY <1>1, <2>1 DEF RuntimeOK
  <2>5. count'[c].resets + count'[c].n <= runs'[c] /\ count'[c].resets < runs'[c]
    BY <2>1, <2>2, <2>3 DEF RuntimeOK
  <2>6. /\ state' \in [Container -> {"absent", "running", "between", "exited", "removed"}]
        /\ state'[c] = "between"
    BY <2>1 DEF RuntimeOK
  <2>7. QED
    BY <1>1, <2>1, <2>4, <2>5, <2>6 DEF RuntimeOK
<1>4. CASE Exits(c) \/ Removed(c)
  <2>1. /\ state[c] # "absent" /\ runs' = runs /\ count' = count
        /\ \/ state' = [state EXCEPT ![c] = "exited"]
           \/ state' = [state EXCEPT ![c] = "removed"]
    BY <1>4 DEF Exits, Removed, Changes
  <2>2. QED
    BY <1>1, <2>1 DEF RuntimeOK
<1>5. QED
  BY <1>2, <1>3, <1>4

LEMMA NextKeepsRuntime == IInv /\ RuntimeOK /\ [Next]_vars => RuntimeOK'
<1> SUFFICES ASSUME IInv, RuntimeOK, [Next]_vars PROVE RuntimeOK'
  OBVIOUS
<1>1. Shape
  BY DEF IInv
<1>2. CASE \E stopped \in SUBSET Container : List(stopped)
  <2>1. UNCHANGED <<state, runs, count>> /\ cycle < MaxCycles /\ cycle' \in {cycle, cycle + 1}
    BY <1>2 DEF List, runtime
  <2>2. MaxCycles \in Nat
    BY DockerAssumption
  <2>3. QED
    BY <2>1, <2>2 DEF RuntimeOK
<1>3. CASE (\E c \in Container : Read(c)) \/ Assemble \/ UNCHANGED vars
  <2>1. UNCHANGED <<state, runs, count, cycle>>
    BY <1>3 DEF Read, Acquire, StatsAnswers, StatsFails, InspectAnswers, InspectFails,
       StoppedAnswers, StoppedSkipped, Fails, Put, Assemble, vars, runtime, client
  <2>2. QED
    BY <2>1 DEF RuntimeOK
<1>4. QED
  BY <1>1, <1>2, <1>3, RuntimeTypes DEF Next

\* Type correctness of the client and of the runtime; in particular the slots in use
\* are those of the goroutines in a call.
THEOREM TypeCorrect == Spec => []TypeOK
<1>1. Init => RuntimeOK
  BY DockerAssumption DEF Init, RuntimeOK, NoCount
<1>2. IInv /\ SlotsTaken /\ RuntimeOK => TypeOK
  <2> SUFFICES ASSUME IInv, SlotsTaken, RuntimeOK PROVE TypeOK
    OBVIOUS
  <2>1. sem \in 0 .. batch /\ sem = Cardinality(InCall)
    BY FS_CardinalityType, DockerAssumption DEF SlotsTaken
  <2>2. QED
    BY <2>1 DEF IInv, Shape, RuntimeOK, TypeOK, InCall
<1>3. QED
  BY <1>1, <1>2, NextKeepsRuntime, SlotsInvariance, PTL DEF Spec
=============================================================================
