---------------------------- MODULE StatsProofs ----------------------------
(***************************************************************************)
(* Theorems about ContainerStats.tla, for any number of cores, any width   *)
(* of the counters that holds them, and any container.                     *)
(***************************************************************************)
EXTENDS ContainerStats, TLAPS

-----------------------------------------------------------------------------
(* Products and differences *)

LEMMA ProductsInOrder ==
    ASSUME NEW a \in Nat, NEW b \in Nat, NEW c \in Nat, a <= b
    PROVE  a * c <= b * c /\ c * a <= c * b /\ a * c \in Nat /\ b * c \in Nat
<1>1. b - a \in Nat
  OBVIOUS
<1>2. (b - a) * c >= 0
  BY <1>1
<1>3. (b - a) * c = b * c - a * c
  OBVIOUS
<1>4. a * c \in Nat /\ b * c \in Nat /\ a * c = c * a /\ b * c = c * b
  OBVIOUS
<1>5. QED
  BY <1>2, <1>3, <1>4

LEMMA SmallRemainder ==
    ASSUME NEW n \in Nat \ {0}, NEW x \in Nat, x < n
    PROVE  x % n = x
OBVIOUS

-----------------------------------------------------------------------------
(* The invariant *)

Numbers ==
    /\ now \in Nat /\ now >= 1 /\ now <= MaxTime + 1
    /\ kind \in [system : BOOLEAN, cores : {1, Cores}]
    /\ up \in BOOLEAN /\ current \in BOOLEAN
    /\ used \in Nat /\ base \in Nat /\ usedThen \in Nat
    /\ base <= used /\ usedThen <= used /\ used <= Cores * now
    /\ prev \in [total : Nat, system : Nat, seen : Nat \union {-1}]

\* A kept sample is a reading of an earlier moment, from which on the container
\* has used no more than all its cores could.
SampleIsOld ==
    prev # NoSample =>
        /\ prev.seen \in Nat /\ prev.seen <= now
        /\ prev.total <= usedThen
        /\ prev.system \in {0, Cores * prev.seen}
        /\ used - usedThen <= Cores * (now - prev.seen)

\* Within one run the sample is kept, and shows where the counters stood.
SampleOfThisRun ==
    up /\ current =>
        /\ prev # NoSample
        /\ base <= usedThen /\ prev.total = usedThen - base
        /\ prev.system = IF kind.system THEN Cores * prev.seen ELSE 0

\* A later run began after the sample was taken.
RunAfterSample == up /\ ~current /\ prev # NoSample => usedThen <= base

IInv ==
    /\ Numbers
    /\ SampleIsOld
    /\ SampleOfThisRun
    /\ RunAfterSample
    /\ NothingInvented
    /\ SteadyIsExact

LEMMA InitIInv == Init => IInv
<1> SUFFICES ASSUME Init PROVE IInv
  OBVIOUS
<1>1. Numbers
  <2>1. Cores \in Nat /\ MaxTime \in Nat /\ Cores * 1 = Cores
    BY StatsAssumption
  <2>2. 0 <= Cores * now
    BY <2>1 DEF Init
  <2>3. prev \in [total : Nat, system : Nat, seen : Nat \union {-1}]
    BY DEF Init, NoSample
  <2>4. /\ now \in Nat /\ now >= 1 /\ now <= MaxTime + 1
        /\ used \in Nat /\ base \in Nat /\ usedThen \in Nat
        /\ base <= used /\ usedThen <= used /\ used <= Cores * now
    BY <2>1, <2>2 DEF Init
  <2>5. up \in BOOLEAN /\ current \in BOOLEAN /\ kind \in [system : BOOLEAN, cores : {1, Cores}]
    BY Zenon DEF Init
  <2>6. QED
    BY <2>3, <2>4, <2>5, Zenon DEF Numbers
<1>2. NothingInvented /\ SteadyIsExact
  BY DEF Init, NoReport, NothingInvented, SteadyIsExact
<1>3. QED
  BY <1>1, <1>2 DEF Init, IInv, SampleIsOld, SampleOfThisRun, RunAfterSample

-----------------------------------------------------------------------------
(* The runtime *)

LEMMA TicksKeeps == ASSUME IInv, NEW u \in 0 .. Cores, Ticks(u) PROVE IInv'
<1> USE DEF IInv
<1>1. /\ now' = now + 1 /\ used' = used + u /\ (u > 0 => up) /\ now <= MaxTime
      /\ UNCHANGED <<kind, up, base, pc, prev, usedThen, current, report>>
  BY StatsAssumption DEF Ticks, Numbers
<1>2. Cores \in Nat /\ Cores * (now + 1) = Cores * now + Cores /\ Cores * now \in Nat
  BY StatsAssumption DEF Numbers
<1>3. Numbers'
  BY <1>1, <1>2, StatsAssumption DEF Numbers
<1>4. CASE prev = NoSample
  BY <1>1, <1>3, <1>4 DEF SampleIsOld, SampleOfThisRun, RunAfterSample, NothingInvented, SteadyIsExact
<1>5. CASE prev # NoSample
  <2>1. /\ prev.seen \in Nat /\ prev.seen <= now /\ used - usedThen <= Cores * (now - prev.seen)
        /\ prev.total <= usedThen /\ prev.system \in {0, Cores * prev.seen}
    BY <1>5 DEF SampleIsOld
  <2>2. now - prev.seen \in Nat
    BY <2>1 DEF Numbers
  <2>3. Cores * ((now - prev.seen) + 1) = Cores * (now - prev.seen) + Cores
        /\ Cores * (now - prev.seen) \in Nat
    BY <1>2, <2>2
  <2>4. (now - prev.seen) + 1 = (now + 1) - prev.seen
    BY <2>1 DEF Numbers
  <2>5. prev.seen <= now + 1 /\ (used + u) - usedThen <= Cores * ((now + 1) - prev.seen)
    BY <1>2, <2>1, <2>3, <2>4 DEF Numbers
  <2>6. SampleIsOld'
    <3> DEFINE since == prev.seen
    <3>0. now' = now + 1 /\ used' = used + u /\ usedThen' = usedThen /\ prev'.seen = since
      BY <1>1
    <3> HIDE DEF since
    <3>1. now' - prev'.seen = (now + 1) - since /\ used' - usedThen' = (used + u) - usedThen
      BY <3>0, Zenon
    <3>2. /\ prev'.seen \in Nat /\ prev'.seen <= now'
          /\ prev'.total <= usedThen' /\ prev'.system \in {0, Cores * prev'.seen}
      BY <1>1, <2>1, <2>5
    <3>3. used' - usedThen' <= Cores * (now' - prev'.seen)
      BY <2>5, <3>1 DEF since
    <3>4. QED
      BY <3>2, <3>3, Zenon DEF SampleIsOld
  <2>7. SampleOfThisRun' /\ RunAfterSample'
    BY <1>1 DEF SampleOfThisRun, RunAfterSample
  <2>8. NothingInvented' /\ SteadyIsExact'
    BY <1>1 DEF NothingInvented, SteadyIsExact
  <2>9. QED
    BY <1>3, <2>6, <2>7, <2>8
<1>6. QED
  BY <1>4, <1>5

LEMMA RunsKeep == ASSUME IInv, Starts \/ Stops PROVE IInv'
<1> USE DEF IInv
<1>1. Numbers'
  <2>1. /\ UNCHANGED <<now, kind, used, prev, usedThen>>
        /\ base' = used \/ base' = base
        /\ up' \in BOOLEAN /\ current' \in BOOLEAN
    BY Zenon DEF Starts, Stops, Numbers
  <2>2. base' \in Nat /\ base' <= used
    BY <2>1 DEF Numbers
  <2>3. QED
    BY <2>1, <2>2, Zenon DEF Numbers
<1>2. SampleIsOld' /\ SampleOfThisRun' /\ RunAfterSample'
  BY DEF Starts, Stops, Numbers, SampleIsOld, SampleOfThisRun, RunAfterSample
<1>3. NothingInvented' /\ SteadyIsExact'
  BY DEF Starts, Stops, NothingInvented, SteadyIsExact
<1>4. QED
  BY <1>1, <1>2, <1>3

-----------------------------------------------------------------------------
(* The client *)

LEMMA ListKeeps == ASSUME IInv, List PROVE IInv'
<1> USE DEF IInv
<1>1. /\ prev' = prev \/ (prev' = NoSample /\ ~up)
      /\ UNCHANGED <<now, kind, up, used, base, usedThen, current, report>>
  BY DEF List
<1>2. Numbers'
  BY <1>1 DEF Numbers, NoSample
<1>3. SampleIsOld' /\ SampleOfThisRun' /\ RunAfterSample'
  BY <1>1 DEF SampleIsOld, SampleOfThisRun, RunAfterSample
<1>4. NothingInvented' /\ SteadyIsExact'
  BY <1>1 DEF NothingInvented, SteadyIsExact
<1>5. QED
  BY <1>2, <1>3, <1>4

\* No counter of the model reaches the width of the counters of the code.
LEMMA CountersFit ==
    ASSUME Numbers
    PROVE  used < Wrap /\ Cores * now < Wrap /\ Cores * Cores * now < Wrap
<1> DEFINE whole == Cores * now
           bound == Cores * (MaxTime + 1)
<1>1. /\ Cores \in Nat /\ Cores >= 1 /\ MaxTime \in Nat /\ Wrap \in Nat
      /\ now \in Nat /\ now <= MaxTime + 1 /\ used \in Nat /\ used <= whole
  BY StatsAssumption DEF Numbers
<1>2. whole \in Nat /\ bound \in Nat /\ whole <= bound
  BY <1>1, ProductsInOrder
<1>3. Cores * Cores * (MaxTime + 1) = Cores * bound /\ Cores * Cores * now = Cores * whole
  BY <1>1
<1>4. Cores * bound < Wrap
  BY <1>3, StatsAssumption
<1> HIDE DEF whole, bound
<1>5. Cores * whole <= Cores * bound /\ whole <= Cores * whole
      /\ Cores * whole \in Nat /\ Cores * bound \in Nat
  <2>1. 1 * whole <= Cores * whole
    BY <1>1, <1>2, ProductsInOrder
  <2>2. QED
    BY <1>1, <1>2, <2>1, ProductsInOrder
<1>6. QED
  BY <1>1, <1>2, <1>3, <1>4, <1>5 DEF whole

LEMMA DifferencesAreExact ==
    ASSUME NEW a \in Nat, NEW b \in Nat, b <= a, a < Wrap
    PROVE  Minus(a, b) = a - b /\ a - b \in Nat
<1>1. a - b \in Nat /\ a - b < Wrap /\ Wrap \in Nat \ {0}
  BY StatsAssumption
<1>2. QED
  BY <1>1, SmallRemainder DEF Minus

\* A share that is within what was spent stays so when it is cut to the cores.
LEMMA ClampedWithin ==
    ASSUME NEW part \in Nat, NEW whole \in Nat \ {0}, NEW e \in Nat, NEW spent \in Nat,
           kind.cores \in Nat, part * e <= spent * whole
    PROVE  Clamped(part, whole).part * e <= spent * Clamped(part, whole).whole
<1> DEFINE k == kind.cores
<1>1. CASE ~(part > k * whole)
  BY <1>1 DEF Clamped
<1>2. CASE part > k * whole
  <2>1. Clamped(part, whole) = [part |-> k, whole |-> 1]
    BY <1>2 DEF Clamped
  <2>2. k \in Nat /\ k * whole \in Nat /\ k * e \in Nat /\ spent * whole \in Nat
    OBVIOUS
  <2> HIDE DEF k
  <2>3. k * e <= spent
    <3> SUFFICES ASSUME k * e >= spent + 1 PROVE FALSE
      BY <2>2
    <3>1. (spent + 1) * whole <= (k * e) * whole
      BY <2>2, ProductsInOrder
    <3>2. (spent + 1) * whole = spent * whole + whole
      OBVIOUS
    <3>3. (k * e) * whole = (k * whole) * e
      BY <2>2
    <3>4. (k * whole) * e <= part * e
      BY <1>2, <2>2, ProductsInOrder DEF k
    <3>5. part * e \in Nat /\ (k * whole) * e \in Nat
      BY <2>2
    <3>6. QED
      BY <2>2, <3>1, <3>2, <3>3, <3>4, <3>5
  <2>4. QED
    BY <2>1, <2>2, <2>3
<1>3. QED
  BY <1>1, <1>2
-----------------------------------------------------------------------------
(* A stats call that is answered *)

Spent == used - usedThen
Elapsed == IF prev = NoSample THEN 0 ELSE now - prev.seen

\* What has grown since the sample is what was spent since, or less.
LEMMA GrownIsSpent ==
    ASSUME IInv, prev # NoSample
    PROVE  /\ Spent \in Nat /\ Elapsed \in Nat /\ Elapsed = now - prev.seen
           /\ Spent <= Cores * Elapsed
           /\ Reading.total \in Nat /\ Reading.system \in Nat /\ Reading.seen = now
           /\ ~(Reading.total < prev.total) =>
                /\ Minus(Reading.total, prev.total) \in Nat
                /\ Minus(Reading.total, prev.total) <= Spent
           /\ Reading.system > prev.system =>
                /\ Minus(Reading.system, prev.system) \in Nat \ {0}
                /\ Cores * Elapsed <= Minus(Reading.system, prev.system)
<1> USE DEF IInv
<1>1. /\ prev.seen \in Nat /\ prev.seen <= now /\ prev.total <= usedThen
      /\ prev.system \in {0, Cores * prev.seen}
      /\ used - usedThen <= Cores * (now - prev.seen)
  BY Zenon DEF SampleIsOld
<1>2. /\ now \in Nat /\ used \in Nat /\ base \in Nat /\ usedThen \in Nat
      /\ base <= used /\ usedThen <= used /\ used < Wrap /\ Cores * now < Wrap
      /\ prev.total \in Nat /\ prev.system \in Nat /\ Cores \in Nat /\ Wrap \in Nat
  BY CountersFit, StatsAssumption DEF Numbers
<1>3. Spent \in Nat /\ Elapsed \in Nat /\ Elapsed = now - prev.seen /\ Spent <= Cores * Elapsed
  BY <1>1, <1>2 DEF Spent, Elapsed
<1>4. /\ Reading.total = IF up THEN used - base ELSE 0
      /\ Reading.system = IF up /\ kind.system THEN Cores * now ELSE 0
      /\ Reading.seen = now
  BY DEF Reading
<1>5. Cores * now \in Nat /\ Cores * prev.seen \in Nat
      /\ Cores * Elapsed = Cores * now - Cores * prev.seen
  BY <1>1, <1>2, <1>3
<1>6. Reading.total \in Nat /\ Reading.total < Wrap
  <2>1. used - base \in Nat /\ used - base < Wrap /\ 0 \in Nat /\ 0 < Wrap
    BY <1>2
  <2>2. QED
    BY <1>4, <2>1
<1>7. Reading.system \in Nat /\ Reading.system < Wrap
  <2>1. Cores * now \in Nat /\ Cores * now < Wrap /\ 0 \in Nat /\ 0 < Wrap
    BY <1>2, <1>5
  <2>2. QED
    BY <1>4, <2>1
<1>8. ASSUME ~(Reading.total < prev.total)
      PROVE  /\ Minus(Reading.total, prev.total) \in Nat
             /\ Minus(Reading.total, prev.total) <= Spent
  <2>1. Minus(Reading.total, prev.total) = Reading.total - prev.total
        /\ Reading.total - prev.total \in Nat
    BY <1>2, <1>6, <1>8, DifferencesAreExact
  <2>2. CASE up /\ current
    <3>1. prev.total = usedThen - base /\ Reading.total = used - base
      BY <1>4, <2>2 DEF SampleOfThisRun
    <3>2. QED
      BY <1>2, <2>1, <3>1 DEF Spent
  <2>3. CASE up /\ ~current
    <3>1. usedThen <= base /\ Reading.total = used - base
      BY <1>4, <2>3 DEF RunAfterSample
    <3>2. QED
      BY <1>2, <2>1, <3>1 DEF Spent
  <2>4. CASE ~up
    BY <1>2, <1>4, <2>1, <2>4, <1>3
  <2>5. QED
    BY <2>1, <2>2, <2>3, <2>4
<1>9. ASSUME Reading.system > prev.system
      PROVE  /\ Minus(Reading.system, prev.system) \in Nat \ {0}
             /\ Cores * Elapsed <= Minus(Reading.system, prev.system)
  <2>1. Minus(Reading.system, prev.system) = Reading.system - prev.system
        /\ Reading.system - prev.system \in Nat
    BY <1>2, <1>7, <1>9, DifferencesAreExact
  <2>2. Reading.system = Cores * now
    BY <1>2, <1>4, <1>9
  <2>3. QED
    BY <1>1, <1>2, <1>5, <1>9, <2>1, <2>2
<1>10. QED
  BY <1>3, <1>4, <1>6, <1>7, <1>8, <1>9

\* Hence no share is more than what was spent.
LEMMA ShareWithin ==
    ASSUME IInv
    PROVE  Share(Reading).part * Elapsed <= Spent * Share(Reading).whole
<1> DEFINE r == Reading
           grown == Minus(r.total, prev.total)
           ticked == Minus(r.system, prev.system)
<1>1. kind.cores \in Nat /\ kind.cores <= Cores /\ Cores \in Nat /\ Spent \in Nat
  BY StatsAssumption DEF IInv, Numbers, Spent
<1>2. CASE prev = NoSample
  BY <1>1, <1>2 DEF Share, Elapsed
<1>3. CASE prev # NoSample
  <2>1. /\ Elapsed \in Nat /\ Elapsed = now - prev.seen /\ r.seen = now
        /\ ~(r.total < prev.total) => grown \in Nat /\ grown <= Spent
        /\ r.system > prev.system => ticked \in Nat \ {0} /\ Cores * Elapsed <= ticked
    BY <1>3, GrownIsSpent
  <2>2. CASE r.total < prev.total
    BY <1>1, <2>1, <2>2 DEF Share
  <2>3. CASE ~(r.total < prev.total) /\ r.system > prev.system
    <3>1. Share(r) = Clamped(grown * kind.cores, ticked)
      BY <1>3, <2>3 DEF Share
    <3> DEFINE g == grown  t == ticked  k == kind.cores
    <3>2. g \in Nat /\ g <= Spent /\ t \in Nat \ {0} /\ Cores * Elapsed <= t /\ k \in Nat /\ k <= Cores
      BY <1>1, <2>1, <2>3
    <3> HIDE DEF g, t, k
    <3>3. g * k <= Spent * Cores /\ g * k \in Nat /\ Spent * Cores \in Nat
      <4>1. g * k <= Spent * k /\ g * k \in Nat /\ Spent * k \in Nat
        BY <1>1, <3>2, ProductsInOrder
      <4>2. Spent * k <= Spent * Cores /\ Spent * Cores \in Nat
        BY <1>1, <3>2, ProductsInOrder
      <4>3. QED
        BY <4>1, <4>2
    <3>4. (g * k) * Elapsed <= (Spent * Cores) * Elapsed
      BY <2>1, <3>3, ProductsInOrder
    <3>5. Spent * (Cores * Elapsed) <= Spent * t
      BY <1>1, <2>1, <3>2, ProductsInOrder
    <3>6. (Spent * Cores) * Elapsed = Spent * (Cores * Elapsed)
      BY <1>1, <2>1
    <3>7. (g * k) * Elapsed <= Spent * t
      BY <1>1, <2>1, <3>2, <3>3, <3>4, <3>5, <3>6
    <3>8. Clamped(g * k, t).part * Elapsed <= Spent * Clamped(g * k, t).whole
      BY <1>1, <2>1, <3>2, <3>3, <3>7, ClampedWithin DEF k
    <3>9. QED
      BY <3>1, <3>8 DEF g, t, k
  <2>4. CASE ~(r.total < prev.total) /\ ~(r.system > prev.system) /\ r.seen > prev.seen
    <3>1. Share(r) = Clamped(grown, r.seen - prev.seen)
      BY <1>3, <2>4 DEF Share
    <3>2. r.seen - prev.seen = Elapsed /\ Elapsed \in Nat \ {0}
      <4>1. now \in Nat /\ prev.seen \in Nat
        BY <1>3 DEF IInv, Numbers, SampleIsOld
      <4>2. QED
        BY <2>1, <2>4, <4>1
    <3> DEFINE g == grown
    <3>3. g \in Nat /\ g <= Spent
      BY <2>1, <2>4
    <3> HIDE DEF g
    <3>4. g * Elapsed <= Spent * Elapsed
      BY <1>1, <3>2, <3>3, ProductsInOrder
    <3>5. Clamped(g, Elapsed).part * Elapsed <= Spent * Clamped(g, Elapsed).whole
      BY <1>1, <3>2, <3>3, <3>4, ClampedWithin
    <3>6. QED
      BY <3>1, <3>2, <3>5 DEF g
  <2>5. CASE ~(r.total < prev.total) /\ ~(r.system > prev.system) /\ ~(r.seen > prev.seen)
    BY <1>1, <1>3, <2>1, <2>5 DEF Share
  <2>6. QED
    BY <2>2, <2>3, <2>4, <2>5
<1>4. QED
  BY <1>2, <1>3

\* Between two readings of one run, what has grown is all that was spent.
LEMMA ShareIsExact ==
    ASSUME IInv, up, current, kind.cores = Cores
    PROVE  Share(Reading).part * Elapsed = Spent * Share(Reading).whole
<1> DEFINE r == Reading
           grown == Minus(r.total, prev.total)
           ticked == Minus(r.system, prev.system)
<1>1. prev # NoSample /\ prev.total = usedThen - base /\ base <= usedThen
      /\ prev.system = IF kind.system THEN Cores * prev.seen ELSE 0
  BY DEF IInv, SampleOfThisRun
<1>2. /\ Spent \in Nat /\ Elapsed \in Nat /\ Elapsed = now - prev.seen /\ r.seen = now
      /\ Spent <= Cores * Elapsed /\ Cores \in Nat
  BY <1>1, GrownIsSpent, StatsAssumption
<1>3. now \in Nat /\ prev.seen \in Nat /\ used \in Nat /\ base \in Nat /\ usedThen \in Nat
      /\ usedThen <= used /\ base <= used /\ used < Wrap /\ Cores * now < Wrap /\ Wrap \in Nat
  BY <1>1, CountersFit, StatsAssumption DEF IInv, Numbers, SampleIsOld
<1>4. r.total = used - base /\ ~(r.total < prev.total) /\ grown = Spent
  <2>1. r.total = used - base
    BY DEF Reading
  <2>2. r.total \in Nat /\ prev.total \in Nat /\ prev.total <= r.total /\ r.total < Wrap
        /\ r.total - prev.total = Spent
    BY <1>1, <1>3, <2>1 DEF Spent
  <2>3. QED
    BY <2>1, <2>2, DifferencesAreExact
<1>5. CASE r.system > prev.system
  <2>1. kind.system /\ r.system = Cores * now /\ prev.system = Cores * prev.seen
    BY <1>1, <1>5 DEF Reading
  <2>2. Cores * now \in Nat /\ Cores * prev.seen \in Nat
        /\ Cores * Elapsed = Cores * now - Cores * prev.seen
    BY <1>2, <1>3
  <2>3. ticked = Cores * Elapsed
    BY <1>3, <1>5, <2>1, <2>2, DifferencesAreExact
  <2>4. Share(r) = Clamped(Spent * Cores, Cores * Elapsed)
    BY <1>1, <1>4, <1>5, <2>3 DEF Share
  <2>5. ~(Spent * Cores > Cores * (Cores * Elapsed))
    BY <1>2, ProductsInOrder
  <2>6. Share(r) = [part |-> Spent * Cores, whole |-> Cores * Elapsed]
    BY <2>4, <2>5 DEF Clamped
  <2>7. (Spent * Cores) * Elapsed = Spent * (Cores * Elapsed)
    BY <1>2
  <2>8. QED
    BY <2>6, <2>7
<1>6. CASE ~(r.system > prev.system) /\ r.seen > prev.seen
  <2>1. Share(r) = Clamped(Spent, Elapsed)
    BY <1>1, <1>2, <1>4, <1>6 DEF Share
  <2>2. Share(r) = [part |-> Spent, whole |-> Elapsed]
    BY <1>2, <2>1 DEF Clamped
  <2>3. QED
    BY <2>2
<1>7. CASE ~(r.system > prev.system) /\ ~(r.seen > prev.seen)
  <2>1. Elapsed = 0 /\ Spent = 0
    BY <1>1, <1>2, <1>3, <1>7 DEF IInv, SampleIsOld
  <2>2. Share(r) = [part |-> 0, whole |-> 1]
    BY <1>1, <1>4, <1>7 DEF Share
  <2>3. QED
    BY <2>1, <2>2
<1>8. QED
  BY <1>5, <1>6, <1>7

LEMMA StatsAnswersKeeps == ASSUME IInv, StatsAnswers PROVE IInv'
<1>1. /\ prev' = Reading /\ usedThen' = used /\ current' = up
      /\ UNCHANGED <<now, kind, up, used, base>>
  BY DEF StatsAnswers
<1>2. /\ now \in Nat /\ used \in Nat /\ base \in Nat /\ base <= used /\ up \in BOOLEAN
      /\ Cores \in Nat /\ Cores * now \in Nat
  BY StatsAssumption DEF IInv, Numbers
<1>3. /\ Reading.total \in Nat /\ Reading.total <= used /\ Reading.seen = now
      /\ Reading.system \in {0, Cores * now}
      /\ up => Reading.total = used - base
      /\ up => Reading.system = IF kind.system THEN Cores * now ELSE 0
  <2>1. CASE up
    BY <1>2, <2>1 DEF Reading
  <2>2. CASE ~up
    BY <1>2, <2>2 DEF Reading
  <2>3. QED
    BY <2>1, <2>2
<1>4. Numbers'
  <2>1. Reading \in [total : Nat, system : Nat, seen : Nat \union {-1}]
    <3>1. Reading.system \in Nat /\ Reading.total \in Nat /\ Reading.seen \in Nat
      BY <1>2, <1>3
    <3>2. Reading = [total |-> Reading.total, system |-> Reading.system, seen |-> Reading.seen]
      BY DEF Reading
    <3>3. QED
      BY <3>1, <3>2
  <2>2. used <= used
    BY <1>2
  <2>3. QED
    BY <1>1, <2>1, <2>2, Zenon DEF IInv, Numbers
<1>5. SampleIsOld'
  <2>1. used - used <= Cores * (now - now) /\ now <= now
    BY <1>2
  <2>2. QED
    BY <1>1, <1>2, <1>3, <2>1, Zenon DEF SampleIsOld
<1>6. SampleOfThisRun'
  <2>1. Reading # NoSample
    BY <1>2, <1>3 DEF NoSample
  <2>2. QED
    BY <1>1, <1>2, <1>3, <2>1, Zenon DEF SampleOfThisRun
<1>7. RunAfterSample'
  BY <1>1 DEF RunAfterSample
<1>8. /\ report'.part = Share(Reading).part /\ report'.whole = Share(Reading).whole
      /\ report'.spent = Spent /\ report'.elapsed = Elapsed
      /\ report'.steady = (up /\ current)
  BY DEF StatsAnswers, Spent, Elapsed
<1>9. NothingInvented'
  BY <1>8, ShareWithin, Zenon DEF NothingInvented
<1>10. SteadyIsExact'
  <2>1. kind' = kind
    BY <1>1
  <2>2. QED
    BY <1>8, <2>1, ShareIsExact, Zenon DEF SteadyIsExact
<1>11. QED
  BY <1>4, <1>5, <1>6, <1>7, <1>9, <1>10 DEF IInv

-----------------------------------------------------------------------------
(* Every step *)

LEMMA NextKeeps == IInv /\ [Next]_vars => IInv'
<1> SUFFICES ASSUME IInv, [Next]_vars PROVE IInv'
  OBVIOUS
<1>1. CASE \E u \in 0 .. Cores : Ticks(u)
  BY <1>1, TicksKeeps
<1>2. CASE Starts \/ Stops
  BY <1>2, RunsKeep
<1>3. CASE List
  BY <1>3, ListKeeps
<1>4. CASE StatsAnswers
  BY <1>4, StatsAnswersKeeps
<1>5. CASE StatsFails \/ UNCHANGED vars
  <2>1. UNCHANGED <<now, kind, up, used, base, prev, usedThen, current, report>>
    BY <1>5 DEF StatsFails, vars
  <2>2. QED
    BY <2>1, Zenon DEF IInv, Numbers, SampleIsOld, SampleOfThisRun, RunAfterSample, NothingInvented, SteadyIsExact
<1>6. QED
  BY <1>1, <1>2, <1>3, <1>4, <1>5 DEF Next

LEMMA Invariance == Spec => []IInv
BY InitIInv, NextKeeps, PTL DEF Spec

\* Across any restarts, stops and failed calls, the CPU share of no report is
\* more than what the container has used since the sample it is compared with,
\* over the time since then (stats and clampPercent, docker.go).
THEOREM NoCpuInvented == Spec => []NothingInvented
<1>1. IInv => NothingInvented
  BY DEF IInv
<1>2. QED
  BY <1>1, Invariance, PTL

\* Between two readings of one run the share is exact, whichever of the system
\* counter and the clock it is taken from (stats, docker.go).
THEOREM SteadyShare == Spec => []SteadyIsExact
<1>1. IInv => SteadyIsExact
  BY DEF IInv
<1>2. QED
  BY <1>1, Invariance, PTL

-----------------------------------------------------------------------------
(* The memory of one reading *)

LEMMA MinOfTwo ==
    ASSUME NEW a \in Nat, NEW b \in Nat
    PROVE  Min({a, b}) \in {a, b} /\ Min({a, b}) <= a /\ Min({a, b}) <= b
<1>1. \E x \in {a, b} : \A y \in {a, b} : x <= y
  BY a <= b \/ b <= a
<1>2. QED
  BY <1>1 DEF Min

LEMMA DifferencesAreSmall ==
    ASSUME NEW a \in Nat, NEW b \in Nat, b <= a
    PROVE  Minus(a, b) \in Nat /\ Minus(a, b) <= a
<1>1. a - b \in Nat /\ a - b <= a /\ Wrap \in Nat \ {0}
  BY StatsAssumption
<1>2. CASE a - b < Wrap
  BY <1>1, <1>2, SmallRemainder DEF Minus
<1>3. CASE ~(a - b < Wrap)
  <2>1. (a - b) % Wrap \in 0 .. Wrap - 1
    BY <1>1
  <2>2. QED
    BY <1>1, <1>3, <2>1 DEF Minus
<1>4. QED
  BY <1>2, <1>3

\* The first key that is there is one that is there.
LEMMA FirstIndex ==
    ASSUME NEW I \in SUBSET (1 .. 3), I # {}
    PROVE  Min(I) \in I
<1>1. \E x \in I : \A y \in I : x <= y
  <2>0. \A y \in I : y = 1 \/ y = 2 \/ y = 3
    OBVIOUS
  <2>1. CASE 1 \in I
    <3>1. \A y \in I : 1 <= y
      BY <2>0
    <3>2. QED
      BY <2>1, <3>1
  <2>2. CASE 1 \notin I /\ 2 \in I
    <3>1. \A y \in I : 2 <= y
      BY <2>0, <2>2
    <3>2. QED
      BY <2>2, <3>1
  <2>3. CASE 1 \notin I /\ 2 \notin I
    <3>1. PICK z \in I : TRUE
      OBVIOUS
    <3>2. \A y \in I : z <= y
      BY <2>0, <2>3, <3>1
    <3>3. QED
      BY <3>2
  <2>4. QED
    BY <2>1, <2>2, <2>3
<1>2. QED
  BY <1>1 DEF Min

LEMMA CacheIsANumber ==
    ASSUME NEW stats, \A k \in DOMAIN stats : stats[k] \in Nat
    PROVE  Cache(stats) \in Nat
<1> DEFINE I == {i \in 1 .. 3 : Keys[i] \in DOMAIN stats}
<1>1. CASE I = {}
  BY <1>1 DEF Cache
<1>2. CASE I # {}
  <2>1. Min(I) \in I
    BY <1>2, FirstIndex
  <2>2. Cache(stats) = stats[Keys[Min(I)]]
    BY <1>2 DEF Cache
  <2>3. QED
    BY <2>1, <2>2
<1>3. QED
  BY <1>1, <1>2

\* A percentage of a value within the limit is rounded to at most 100 %.
LEMMA PercentAtMost ==
    ASSUME NEW v \in Nat, NEW l \in Nat \ {0}, v <= l
    PROVE  (20000 * v + l) \div (2 * l) <= 10000
<1> DEFINE n == 20000 * v + l  q == n \div (2 * l)
<1>1. n \in Nat /\ 2 * l \in Nat \ {0} /\ n <= 20001 * l
  OBVIOUS
<1>2. q \in Int /\ (2 * l) * q <= n
  BY <1>1
<1>3. SUFFICES ASSUME q >= 10001 PROVE FALSE
  BY <1>2
<1>4. (2 * l) * q >= (2 * l) * 10001
  BY <1>1, <1>2, <1>3, ProductsInOrder
<1>5. (2 * l) * 10001 = 20002 * l
  OBVIOUS
<1>6. QED
  BY <1>1, <1>2, <1>4, <1>5

\* Whatever the statistics and the bound, and for every usage a counter holds, not
\* only for those the run tries: the memory that is reported is sound
\* (docker.go 584 to 615).
THEOREM EveryMemoryIsSound ==
    ASSUME NEW usage \in Nat, NEW bound \in Nat,
           NEW stats, \A k \in DOMAIN stats : stats[k] \in Nat
    PROVE  SoundMemory(usage, bound, stats)
<1> DEFINE size == WithoutCache(usage, stats)
           limit == IF bound > Plausible THEN 0 ELSE bound
           m == Memory(usage, stats, bound)
<1>1. Plausible \in Nat /\ Wrap \in Nat /\ limit \in Nat
  BY StatsAssumption
<1>2. size \in Nat /\ size <= usage
  <2>1. Cache(stats) \in Nat
    BY CacheIsANumber
  <2>2. CASE Cache(stats) <= usage
    BY <2>1, <2>2, DifferencesAreSmall DEF WithoutCache
  <2>3. CASE ~(Cache(stats) <= usage)
    BY <2>3 DEF WithoutCache
  <2>4. QED
    BY <2>2, <2>3
<1> DEFINE ok == size <= Plausible
           value == IF ~ok THEN 0 ELSE IF limit > 0 THEN Min({size, limit}) ELSE size
           percent == IF ok /\ limit > 0 THEN (20000 * value + limit) \div (2 * limit) ELSE 0
<1>3. m = [ok |-> ok, value |-> value, limit |-> limit, percent |-> percent]
  BY DEF Memory
<1> HIDE DEF size, limit, m
<1>4. Min({size, limit}) \in Nat /\ Min({size, limit}) <= size /\ Min({size, limit}) <= limit
  BY <1>1, <1>2, MinOfTwo
<1>5. value \in Nat /\ (ok => value <= usage) /\ (limit > 0 => value <= limit)
  BY <1>1, <1>2, <1>4
<1>6. limit > 0 => percent <= 10000
  BY <1>1, <1>5, PercentAtMost
<1> HIDE DEF value, percent
<1>7. usage <= Plausible => ok
  BY <1>1, <1>2
<1> HIDE DEF ok
<1>8. m.ok = ok /\ m.value = value /\ m.limit = limit /\ m.percent = percent
  BY <1>3
<1>9. /\ usage <= Plausible => m.ok
      /\ m.ok => m.value <= usage
      /\ m.limit > 0 => m.value <= m.limit /\ m.percent <= 10000
  <2>1. usage <= Plausible => m.ok
    BY <1>7, <1>8, Zenon
  <2>2. m.ok => m.value <= usage
    BY <1>5, <1>8, Zenon
  <2>3. m.limit > 0 => m.value <= m.limit /\ m.percent <= 10000
    BY <1>5, <1>6, <1>8
  <2>4. QED
    BY <2>1, <2>2, <2>3
<1>10. QED
  BY <1>9, Zenon DEF SoundMemory, m

\* In particular what the run states of the sizes around Plausible holds always.
THEOREM MemorySound == Spec => []MemoryIsSound
<1>1. Plausible \in Nat /\ Wrap \in Nat /\ Plausible < Wrap
  BY StatsAssumption
<1>2. ASSUME NEW x \in Size \X Size \X Statistics PROVE SoundMemory(x[1], x[2], x[3])
  <2>1. x[1] \in Size /\ x[2] \in Size /\ x[3] \in Statistics
    OBVIOUS
  <2>2. QED
    BY <1>1, <2>1, EveryMemoryIsSound DEF Size, Statistics
<1>3. MemoryIsSound
  BY <1>2 DEF MemoryIsSound, MemoryVerdicts
<1>4. QED
  BY <1>3, PTL

=============================================================================
