---------------------------- MODULE BatchProofs ----------------------------
(***************************************************************************)
(* Theorems about Batch.tla, for any sections, any quiet time and any      *)
(* times between two batches, and about LineProto.tla, for any lines.      *)
(***************************************************************************)
EXTENDS Batch, LineProto, FiniteSetTheorems, SequenceTheorems, WellFoundedInduction, TLAPS

\* What note remembers is the last report in the log, until a value comes or the
\* stop throws a report away.
MemoryOfReports ==
    ~stopped => \A s \in Section :
        /\ heard[s] <= now /\ good[s] <= now
        /\ timeoutAt[s] # Never => heard[s] = timeoutAt[s] /\ heard[s] > good[s]
        /\ timeoutAt[s] = Never => heard[s] = Never \/ good[s] >= heard[s]

\* The kept sample is the end of the last window.
SampleEndsWindow == window.to # Boot => window.to = prevCPU

NothingBeforePrime == ~primed => cycles = 0 /\ window.to = Boot

IInv ==
    /\ TypeOK
    /\ MemoryOfReports
    /\ MissingIsExplained
    /\ SampleEndsWindow
    /\ NothingBeforePrime

LEMMA InitIInv == Init => IInv
<1> SUFFICES ASSUME Init PROVE IInv
  OBVIOUS
<1>1. now \in Nat /\ now >= 1 /\ cycles \in 0 .. MaxCycles
  BY BatchAssumption DEF Init
<1>2. window \in [from : 0 .. now, to : 0 .. now] /\ prevCPU \in 0 .. now
  BY <1>1 DEF Init, Boot
<1>3. TypeOK
  BY <1>1, <1>2 DEF Init, TypeOK
<1>4. MemoryOfReports
  <2>1. \A s \in Section : timeoutAt[s] = Never /\ heard[s] = Never /\ good[s] = Never
    BY DEF Init
  <2>2. Never <= now
    BY <1>1 DEF Never
  <2>3. QED
    BY <2>1, <2>2 DEF MemoryOfReports
<1>5. MissingIsExplained /\ SampleEndsWindow /\ NothingBeforePrime
  BY DEF Init, MissingIsExplained, SampleEndsWindow, NothingBeforePrime
<1>6. QED
  BY <1>3, <1>4, <1>5 DEF IInv

\* Time moves, and what was a time before it is one after it.
LEMMA TimeMoves ==
    ASSUME TypeOK, NEW gap \in Gaps, now' = now + gap
    PROVE  now' \in Nat /\ now' > now /\ 0 .. now \subseteq 0 .. now'
BY BatchAssumption DEF TypeOK

LEMMA PrimeKeeps ==
    ASSUME IInv, NEW outcome \in Outcomes, NEW gap \in Gaps, Prime(outcome, gap)
    PROVE  IInv'
<1> USE DEF IInv
<1>1. now' \in Nat /\ now' > now /\ 0 .. now \subseteq 0 .. now'
  BY TimeMoves DEF Prime
<1>2. /\ primed' /\ prevCPU' \in {now, Boot} /\ cycles = 0 /\ window.to = Boot
      /\ UNCHANGED <<cycles, cores, timeoutAt, batch, logged, stopped, window, heard, good>>
  BY DEF Prime, NothingBeforePrime
<1>3. TypeOK'
  <2>1. prevCPU' \in 0 .. now'
    BY <1>1, <1>2 DEF TypeOK, Boot
  <2>2. window' \in [from : 0 .. now', to : 0 .. now']
    BY <1>1, <1>2 DEF TypeOK
  <2>3. primed' \in BOOLEAN
    BY DEF Prime
  <2>4. QED
    BY <1>1, <1>2, <2>1, <2>2, <2>3 DEF TypeOK
<1>4. MemoryOfReports'
  BY <1>1, <1>2 DEF MemoryOfReports, TypeOK, Never
<1>5. MissingIsExplained' /\ SampleEndsWindow' /\ NothingBeforePrime'
  BY <1>2 DEF MissingIsExplained, SampleEndsWindow, NothingBeforePrime
<1>6. QED
  BY <1>3, <1>4, <1>5

-----------------------------------------------------------------------------
(* One collector in one batch *)

\* The four ways a cycle treats the outcome of a collector.
LEMMA NoteOutcomes ==
    ASSUME IInv, NEW outcome \in [Section -> Outcomes], NEW counted \in BOOLEAN,
           NEW gap \in Gaps, Cycle(outcome, counted, gap), NEW s \in Section
    PROVE  \/ /\ outcome[s] = "value"
              /\ timeoutAt'[s] = Never /\ heard'[s] = heard[s] /\ good'[s] = now'
              /\ s \in batch'
           \/ /\ outcome[s] = "error"
              /\ timeoutAt'[s] = timeoutAt[s] /\ heard'[s] = heard[s] /\ good'[s] = good[s]
              /\ s \in logged'
           \/ /\ outcome[s] = "timeout"
              /\ timeoutAt[s] # Never /\ now' - timeoutAt[s] < timeoutLogEvery
              /\ timeoutAt'[s] = timeoutAt[s] /\ heard'[s] = heard[s] /\ good'[s] = good[s]
           \/ /\ outcome[s] = "timeout"
              /\ timeoutAt[s] = Never \/ now' - timeoutAt[s] >= timeoutLogEvery
              /\ timeoutAt'[s] = now' /\ heard'[s] = now' /\ good'[s] = good[s]
              /\ s \in logged'
<1> USE DEF IInv
<1>1. now' \in Nat /\ now' > now
  BY TimeMoves DEF Cycle, collectBatch
<1>2. /\ timeoutAt'[s] = Noted(s, outcome[s])
      /\ s \in logged' <=> (outcome[s] = "error" \/ TimeoutReported(s, outcome[s]))
      /\ heard'[s] = IF TimeoutReported(s, outcome[s]) THEN now' ELSE heard[s]
      /\ good'[s] = IF outcome[s] = "value" THEN now' ELSE good[s]
      /\ outcome[s] = "value" => s \in batch'
  BY DEF Cycle, collectBatch, Encode, Errs
<1>3. timeoutAt[s] \in Nat \union {Never} /\ timeoutLogEvery \in Nat
  BY BatchAssumption DEF TypeOK
<1>4. timeoutAt[s] # now'
  <2>1. timeoutAt[s] = Never \/ timeoutAt[s] <= now
    BY <1>3 DEF MemoryOfReports, Cycle, collectBatch
  <2>2. QED
    BY <1>1, <1>3, <2>1 DEF TypeOK, Never
<1>5. CASE outcome[s] = "value"
  BY <1>2, <1>5 DEF Noted, TimeoutReported
<1>6. CASE outcome[s] = "error"
  BY <1>2, <1>6 DEF Noted, TimeoutReported
<1>7. CASE outcome[s] = "timeout" /\ timeoutAt[s] # Never /\ now' - timeoutAt[s] < timeoutLogEvery
  BY <1>2, <1>7 DEF Noted, TimeoutReported
<1>8. CASE outcome[s] = "timeout" /\ ~(timeoutAt[s] # Never /\ now' - timeoutAt[s] < timeoutLogEvery)
  <2>1. timeoutAt'[s] = now'
    BY <1>2, <1>8 DEF Noted
  <2>2. TimeoutReported(s, outcome[s])
    BY <1>4, <1>8, <2>1 DEF TimeoutReported
  <2>3. timeoutAt[s] = Never \/ now' - timeoutAt[s] >= timeoutLogEvery
    BY <1>1, <1>3, <1>8
  <2>4. QED
    BY <1>2, <1>8, <2>1, <2>2, <2>3
<1>9. outcome[s] \in {"value", "timeout", "error"}
  BY DEF Outcomes
<1>10. QED
  BY <1>5, <1>6, <1>7, <1>8, <1>9

\* The kept sample and the window move together or stay.
LEMMA SampleMoves ==
    ASSUME NEW outcome \in [Section -> Outcomes], NEW counted \in BOOLEAN,
           NEW gap \in Gaps, collectBatch(outcome, counted, gap)
    PROVE  \/ prevCPU' = now' /\ window' = [from |-> prevCPU, to |-> now']
           \/ UNCHANGED <<prevCPU, window>>
BY DEF collectBatch, collectCPU

\* What every batch keeps, that of a cycle and that of the stop.
LEMMA BatchKeeps ==
    ASSUME IInv, NEW outcome \in [Section -> Outcomes], NEW counted \in BOOLEAN,
           NEW gap \in Gaps, collectBatch(outcome, counted, gap),
           heard' \in [Section -> Nat \union {Never}],
           logged' \subseteq Section, stopped' \in BOOLEAN
    PROVE  TypeOK' /\ SampleEndsWindow' /\ NothingBeforePrime'
<1> USE DEF IInv
<1>1. now' \in Nat /\ now' > now /\ 0 .. now \subseteq 0 .. now'
  BY TimeMoves DEF collectBatch
<1>2. primed /\ primed' = primed /\ cycles < MaxCycles /\ cycles' = cycles + 1
  BY DEF collectBatch
<1>3. TypeOK'
  <2>1. prevCPU' \in 0 .. now' /\ window' \in [from : 0 .. now', to : 0 .. now']
    <3>1. CASE prevCPU' = now' /\ window' = [from |-> prevCPU, to |-> now']
      BY <1>1, <3>1 DEF TypeOK
    <3>2. CASE UNCHANGED <<prevCPU, window>>
      BY <1>1, <3>2 DEF TypeOK
    <3>3. QED
      BY <3>1, <3>2, SampleMoves
  <2>2. cores' \in BOOLEAN
    BY DEF collectBatch, collectCPU, TypeOK
  <2>3. timeoutAt' \in [Section -> Nat \union {Never}]
    <3> SUFFICES ASSUME NEW s \in Section
                 PROVE  Noted(s, outcome[s]) \in Nat \union {Never}
      BY DEF collectBatch
    <3>1. timeoutAt[s] \in Nat \union {Never}
      BY DEF TypeOK
    <3>2. QED
      BY <1>1, <3>1 DEF Noted, Outcomes
  <2>4. good' \in [Section -> Nat \union {Never}]
    BY <1>1 DEF collectBatch, TypeOK
  <2>5. batch' \subseteq Section \union {"agent"}
    BY DEF collectBatch, Encode, encodeAgent
  <2>6. cycles' \in 0 .. MaxCycles
    BY <1>2, BatchAssumption DEF TypeOK
  <2>7. QED
    BY <1>1, <1>2, <2>1, <2>2, <2>3, <2>4, <2>5, <2>6 DEF TypeOK
<1>4. SampleEndsWindow'
  <2>1. CASE prevCPU' = now' /\ window' = [from |-> prevCPU, to |-> now']
    BY <2>1 DEF SampleEndsWindow
  <2>2. CASE UNCHANGED <<prevCPU, window>>
    BY <2>2 DEF SampleEndsWindow
  <2>3. QED
    BY <2>1, <2>2, SampleMoves
<1>5. NothingBeforePrime'
  BY <1>2 DEF NothingBeforePrime
<1>6. QED
  BY <1>3, <1>4, <1>5

LEMMA CycleKeeps ==
    ASSUME IInv, NEW outcome \in [Section -> Outcomes], NEW counted \in BOOLEAN,
           NEW gap \in Gaps, Cycle(outcome, counted, gap)
    PROVE  IInv'
<1> USE DEF IInv
<1>1. now' \in Nat /\ now' > now /\ ~stopped
  BY TimeMoves DEF Cycle, collectBatch
<1>2. heard' \in [Section -> Nat \union {Never}]
  <2>1. \A s \in Section : heard'[s] \in Nat \union {Never}
    BY <1>1, NoteOutcomes DEF TypeOK
  <2>2. QED
    BY <2>1 DEF Cycle
<1>3. logged' \subseteq Section /\ stopped' \in BOOLEAN
  BY DEF Cycle, Errs, TypeOK
<1>4. TypeOK' /\ SampleEndsWindow' /\ NothingBeforePrime'
  BY <1>2, <1>3, BatchKeeps DEF Cycle
<1>5. MemoryOfReports'
  <2> SUFFICES ASSUME NEW s \in Section
               PROVE  /\ heard'[s] <= now' /\ good'[s] <= now'
                      /\ timeoutAt'[s] # Never => heard'[s] = timeoutAt'[s] /\ heard'[s] > good'[s]
                      /\ timeoutAt'[s] = Never => heard'[s] = Never \/ good'[s] >= heard'[s]
    BY DEF MemoryOfReports
  <2>1. /\ heard[s] <= now /\ good[s] <= now
        /\ timeoutAt[s] # Never => heard[s] = timeoutAt[s] /\ heard[s] > good[s]
        /\ timeoutAt[s] = Never => heard[s] = Never \/ good[s] >= heard[s]
    BY <1>1 DEF MemoryOfReports
  <2>2. heard[s] \in Int /\ good[s] \in Int /\ timeoutAt[s] \in Int /\ now \in Int
    BY DEF TypeOK, Never
  <2>3. QED
    BY <1>1, <2>1, <2>2, NoteOutcomes DEF Never
<1>6. MissingIsExplained'
  <2> SUFFICES ASSUME NEW s \in Section, s \notin batch', s \notin logged'
               PROVE  now' - heard'[s] < timeoutLogEvery /\ heard'[s] > good'[s]
    BY DEF MissingIsExplained
  <2>1. /\ timeoutAt[s] # Never /\ now' - timeoutAt[s] < timeoutLogEvery
        /\ heard'[s] = heard[s] /\ good'[s] = good[s]
    BY NoteOutcomes
  <2>2. heard[s] = timeoutAt[s] /\ heard[s] > good[s]
    BY <1>1, <2>1 DEF MemoryOfReports
  <2>3. QED
    BY <2>1, <2>2
<1>7. QED
  BY <1>4, <1>5, <1>6

LEMMA ShutdownKeeps ==
    ASSUME IInv, NEW outcome \in [Section -> Outcomes], NEW counted \in BOOLEAN,
           NEW gap \in Gaps, Shutdown(outcome, counted, gap)
    PROVE  IInv'
<1>1. heard' \in [Section -> Nat \union {Never}] /\ logged' \subseteq Section /\ stopped'
  BY DEF Shutdown, IInv, TypeOK
<1>2. TypeOK' /\ SampleEndsWindow' /\ NothingBeforePrime'
  BY <1>1, BatchKeeps DEF Shutdown
<1>3. MemoryOfReports' /\ MissingIsExplained'
  BY <1>1 DEF MemoryOfReports, MissingIsExplained
<1>4. QED
  BY <1>2, <1>3 DEF IInv

LEMMA StutterKeeps == IInv /\ UNCHANGED vars => IInv'
BY DEF IInv, vars, TypeOK, MemoryOfReports, MissingIsExplained, SampleEndsWindow, NothingBeforePrime

LEMMA NextKeeps == IInv /\ [Next]_vars => IInv'
BY PrimeKeeps, CycleKeeps, ShutdownKeeps, StutterKeeps DEF Next

LEMMA Invariance == Spec => []IInv
BY InitIInv, NextKeeps, PTL DEF Spec

-----------------------------------------------------------------------------

\* Type correctness: no time that is kept lies ahead of the clock.
THEOREM BatchTypeCorrect == Spec => []TypeOK
BY Invariance, PTL DEF IInv

\* A section that a batch of the loop lacks is explained in the log, by this cycle
\* or by a report that is not older than the quiet time.
THEOREM GapsAreExplained == Spec => []MissingIsExplained
BY Invariance, PTL DEF IInv

\* A collector that is stuck reports once in the quiet time, whatever other errors
\* fall between its timeouts.
THEOREM StuckIsQuiet == Spec => StuckStaysQuiet
<1>1. ASSUME IInv, [Next]_vars
      PROVE  [\A s \in Section : heard[s] # Never /\ heard'[s] # heard[s] =>
                 \/ good'[s] >= heard[s]
                 \/ heard'[s] - heard[s] >= timeoutLogEvery]_vars
  <2> SUFFICES ASSUME NEW s \in Section, heard[s] # Never, heard'[s] # heard[s]
               PROVE  good'[s] >= heard[s] \/ heard'[s] - heard[s] >= timeoutLogEvery
    OBVIOUS
  <2>1. PICK gap \in Gaps, outcome \in [Section -> Outcomes], counted \in BOOLEAN :
            Cycle(outcome, counted, gap)
    BY <1>1 DEF Next, Prime, Shutdown, vars
  <2>2. /\ timeoutAt[s] = Never \/ now' - timeoutAt[s] >= timeoutLogEvery
        /\ heard'[s] = now' /\ good'[s] = good[s]
    BY <1>1, <2>1, NoteOutcomes
  <2>3. /\ timeoutAt[s] # Never => heard[s] = timeoutAt[s]
        /\ timeoutAt[s] = Never => good[s] >= heard[s]
    BY <1>1, <2>1 DEF IInv, MemoryOfReports, Cycle, collectBatch
  <2>4. QED
    BY <2>2, <2>3
<1>2. QED
  BY <1>1, Invariance, PTL DEF Spec, StuckStaysQuiet

\* The windows of the CPU usage follow each other without a gap or an overlap.
THEOREM WindowsMeet == Spec => UsageIsSeamless
<1>1. ASSUME IInv, [Next]_vars
      PROVE  [window' # window /\ window.to # Boot => window'.from = window.to]_vars
  <2> SUFFICES ASSUME window' # window, window.to # Boot
               PROVE  window'.from = window.to
    OBVIOUS
  <2>1. PICK gap \in Gaps, outcome \in [Section -> Outcomes], counted \in BOOLEAN :
            collectBatch(outcome, counted, gap)
    BY <1>1 DEF Next, Prime, Cycle, Shutdown, vars
  <2>2. window' = [from |-> prevCPU, to |-> now']
    BY <2>1, SampleMoves
  <2>3. QED
    BY <1>1, <2>2 DEF IInv, SampleEndsWindow
<1>2. QED
  BY <1>1, Invariance, PTL DEF Spec, UsageIsSeamless

-----------------------------------------------------------------------------
(* Inductions over numbers and sequences *)

\* The order of numbers as a relation
Less == {p \in Nat \X Nat : p[1] < p[2]}

\* A set of numbers has a least one.
LEMMA LeastNumber ==
    ASSUME NEW T, T \subseteq Nat, T # {}
    PROVE  \E n \in T : \A m \in T : n <= m
<1>1. IsWellFoundedOn(Less, Nat)
  <2>1. Less = OpToRel(<, Nat)
    BY DEF Less, OpToRel
  <2>2. QED
    BY <2>1, NatLessThanWellFounded
<1>2. PICK n \in T : \A m \in T : ~ (<<m, n>> \in Less)
  BY <1>1, WFMin
<1>3. ASSUME NEW m \in T PROVE n <= m
  <2>1. m \in Nat /\ n \in Nat /\ ~(<<m, n>> \in Less)
    BY <1>2
  <2>2. QED
    BY <2>1 DEF Less
<1>4. QED
  BY <1>3

\* A set with 0, and with n + 1 for each n in it, has every number.
LEMMA Induct ==
    ASSUME NEW T, 0 \in T, \A n \in Nat : n \in T => n + 1 \in T
    PROVE  Nat \subseteq T
<1>1. SUFFICES ASSUME Nat \ T # {} PROVE FALSE
  OBVIOUS
<1>2. PICK n \in Nat \ T : \A m \in Nat \ T : n <= m
  BY <1>1, LeastNumber
<1>3. n - 1 \in Nat /\ n - 1 \notin T /\ n - 1 < n
  <2>1. n \in Nat /\ n # 0
    BY <1>2
  <2>2. n - 1 \in Nat /\ (n - 1) + 1 = n
    BY <2>1
  <2>3. QED
    BY <2>2, <2>1
<1>4. QED
  BY <1>2, <1>3

\* A set with the empty sequence, and with each sequence of it made longer by one
\* element, has every sequence.
LEMMA SeqInduct ==
    ASSUME NEW S, NEW T, <<>> \in T, \A t \in Seq(S), c \in S : t \in T => Append(t, c) \in T
    PROVE  Seq(S) \subseteq T
<1> DEFINE N == {n \in Nat : \A t \in Seq(S) : Len(t) = n => t \in T}
<1>1. 0 \in N
  BY EmptySeq
<1>2. ASSUME NEW n \in Nat, n \in N PROVE n + 1 \in N
  <2> SUFFICES ASSUME NEW t \in Seq(S), Len(t) = n + 1 PROVE t \in T
    OBVIOUS
  <2>1. t # <<>>
    OBVIOUS
  <2>2. PICK u \in Seq(S), c \in S : t = Append(u, c)
    BY <2>1, SequenceEmptyOrAppend
  <2>3. Len(u) = n
    BY <2>2, AppendProperties, LenProperties
  <2>4. QED
    BY <1>2, <2>2, <2>3
<1> HIDE DEF N
<1>3. Nat \subseteq N
  BY <1>1, <1>2, Induct
<1>4. QED
  BY <1>3, LenProperties DEF N

-----------------------------------------------------------------------------
(* Folds *)

\* Max finds the greatest number of a finite set.
LEMMA MaxOf == ASSUME NEW n \in Nat, NEW s \in SUBSET (1 .. n), s # {}
               PROVE Max(s) \in s /\ \A y \in s : y <= Max(s)
<1> DEFINE T == {m \in Nat : \A u \in SUBSET (1 .. m) : u # {} => \E x \in u : \A y \in u : x >= y}
<1>1. 0 \in T
  <2>1. 1 .. 0 = {}
    OBVIOUS
  <2>2. QED
    BY <2>1
<1>2. ASSUME NEW m \in Nat, m \in T PROVE m + 1 \in T
  <2> SUFFICES ASSUME NEW u \in SUBSET (1 .. m + 1), u # {} PROVE \E x \in u : \A y \in u : x >= y
    OBVIOUS
  <2>1. CASE m + 1 \in u
    BY <2>1
  <2>2. CASE m + 1 \notin u
    <3>1. u \in SUBSET (1 .. m)
      BY <2>2
    <3>2. QED
      BY <1>2, <3>1
  <2>3. QED
    BY <2>1, <2>2
<1> HIDE DEF T
<1>3. Nat \subseteq T
  BY <1>1, <1>2, Induct
<1>4. \E x \in s : \A y \in s : x >= y
  BY <1>3 DEF T
<1>5. QED
  BY <1>4 DEF Max

\* The fold as the community module defines it, its function given
IsFold(g, base, text, n) ==
    g = [s \in SUBSET (1 .. n) |->
            IF s = {} THEN base ELSE Lex(g[s \ {Max(s)}], text[Max(s)])]

\* The fold of the first i characters takes one step from that of the first i - 1.
LEMMA FoldStep ==
    ASSUME NEW n \in Nat, NEW g, NEW base, NEW text, IsFold(g, base, text, n)
    PROVE  /\ g[{}] = base
           /\ \A i \in 1 .. n : g[1 .. i] = Lex(g[1 .. i - 1], text[i])
<1>1. ASSUME NEW i \in 1 .. n PROVE g[1 .. i] = Lex(g[1 .. i - 1], text[i])
  <2>1. 1 .. i \in SUBSET (1 .. n) /\ 1 .. i # {} /\ i \in Nat
    OBVIOUS
  <2>2. Max(1 .. i) \in 1 .. i /\ \A y \in 1 .. i : y <= Max(1 .. i)
    BY <2>1, MaxOf
  <2>3. Max(1 .. i) = i
    BY <2>1, <2>2
  <2>4. (1 .. i) \ {i} = 1 .. i - 1
    BY <2>1
  <2>5. g[1 .. i] = Lex(g[(1 .. i) \ {Max(1 .. i)}], text[Max(1 .. i)])
    BY <2>1 DEF IsFold
  <2>6. QED
    BY <2>3, <2>4, <2>5
<1>2. g[{}] = base
  BY DEF IsFold
<1>3. QED
  BY <1>1, <1>2

\* A fold of n characters is part of one of n + 1.
LEMMA FoldExtends ==
    ASSUME NEW n \in Nat, NEW h, NEW base, NEW text, IsFold(h, base, text, n)
    PROVE  \E g : IsFold(g, base, text, n + 1)
<1> DEFINE g == [s \in SUBSET (1 .. n + 1) |->
                    IF n + 1 \in s THEN Lex(h[s \ {n + 1}], text[n + 1]) ELSE h[s]]
<1>1. ASSUME NEW s \in SUBSET (1 .. n + 1)
      PROVE  g[s] = IF s = {} THEN base ELSE Lex(g[s \ {Max(s)}], text[Max(s)])
  <2>1. CASE n + 1 \in s
    <3>1. n + 1 \in Nat /\ s # {}
      BY <2>1
    <3>2. Max(s) \in s /\ \A y \in s : y <= Max(s)
      BY <3>1, MaxOf
    <3>3. Max(s) = n + 1
      <4>1. Max(s) \in 1 .. n + 1 /\ n + 1 <= Max(s)
        BY <2>1, <3>2
      <4>2. QED
        BY <4>1
    <3>4. s \ {n + 1} \in SUBSET (1 .. n + 1) /\ n + 1 \notin s \ {n + 1}
      OBVIOUS
    <3>5. g[s \ {n + 1}] = h[s \ {n + 1}]
      BY <3>4
    <3>6. QED
      BY <2>1, <3>3, <3>5
  <2>2. CASE n + 1 \notin s
    <3>1. s \in SUBSET (1 .. n)
      BY <2>2
    <3>2. g[s] = h[s] /\ h[s] = IF s = {} THEN base ELSE Lex(h[s \ {Max(s)}], text[Max(s)])
      BY <2>2, <3>1 DEF IsFold
    <3>3. s # {} => g[s \ {Max(s)}] = h[s \ {Max(s)}]
      BY <2>2, <3>1
    <3>4. QED
      BY <3>2, <3>3
  <2>3. QED
    BY <2>1, <2>2
<1>2. g = [s \in SUBSET (1 .. n + 1) |-> g[s]]
  OBVIOUS
<1>3. g = [s \in SUBSET (1 .. n + 1) |-> IF s = {} THEN base ELSE Lex(g[s \ {Max(s)}], text[Max(s)])]
  BY <1>1, <1>2
<1>4. IsFold(g, base, text, n + 1)
  BY <1>3 DEF IsFold
<1>5. QED
  BY <1>4

\* Whatever the text, it has a fold.
LEMMA FoldExists ==
    ASSUME NEW n \in Nat, NEW base, NEW text
    PROVE  \E g : IsFold(g, base, text, n)
<1> DEFINE T == {m \in Nat : \E g : IsFold(g, base, text, m)}
<1>1. 0 \in T
  <2> DEFINE g == [s \in SUBSET (1 .. 0) |-> base]
  <2>1. \A s \in SUBSET (1 .. 0) : s = {}
    OBVIOUS
  <2>2. g = [s \in SUBSET (1 .. 0) |-> IF s = {} THEN base ELSE Lex(g[s \ {Max(s)}], text[Max(s)])]
    BY <2>1
  <2>3. IsFold(g, base, text, 0)
    BY <2>2 DEF IsFold
  <2>4. QED
    BY <2>3
<1>2. ASSUME NEW m \in Nat, m \in T PROVE m + 1 \in T
  BY <1>2, FoldExtends
<1> HIDE DEF T
<1>3. Nat \subseteq T
  BY <1>1, <1>2, Induct
<1>4. QED
  BY <1>3 DEF T

\* The states of a reader, one for each character read
Run(r, base, text) ==
    /\ r[0] = base
    /\ \A i \in 1 .. Len(text) : r[i] = Lex(r[i - 1], text[i])

\* A reader after a text
Feed(base, text) == FoldLeft(Lex, base, text)

\* Read takes the steps of a run, from the first character to the last.
LEMMA FeedIsRun ==
    ASSUME NEW S, NEW text \in Seq(S), NEW base, NEW r, Run(r, base, text)
    PROVE  Feed(base, text) = r[Len(text)]
<1> DEFINE n == Len(text)
<1>1. n \in Nat /\ DOMAIN text = 1 .. n
  BY LenProperties
<1>2. PICK g : IsFold(g, base, text, n) /\ Feed(base, text) = g[1 .. n]
  <2>1. \E g : IsFold(g, base, text, n)
    BY <1>1, FoldExists
  <2> DEFINE g == CHOOSE iter : IsFold(iter, base, text, n)
  <2>2. IsFold(g, base, text, n)
    BY <2>1
  <2>3. Feed(base, text) = g[1 .. n]
    BY <1>1 DEF Feed, FoldLeft, MapThenFoldSet, IsFold
  <2>4. QED
    BY <2>2, <2>3
<1> DEFINE T == {i \in Nat : i <= n => g[1 .. i] = r[i]}
<1>3. 0 \in T
  BY <1>1, <1>2, FoldStep DEF Run
<1>4. ASSUME NEW i \in Nat, i \in T PROVE i + 1 \in T
  <2> SUFFICES ASSUME i + 1 <= n PROVE g[1 .. i + 1] = r[i + 1]
    OBVIOUS
  <2>1. i + 1 \in 1 .. n /\ (i + 1) - 1 = i
    BY <1>1
  <2>2. g[1 .. i + 1] = Lex(g[1 .. i], text[i + 1])
    BY <1>1, <1>2, <2>1, FoldStep
  <2>3. r[i + 1] = Lex(r[i], text[i + 1])
    BY <2>1 DEF Run
  <2>4. g[1 .. i] = r[i]
    BY <1>1, <1>4
  <2>5. QED
    BY <2>2, <2>3, <2>4
<1> HIDE DEF T
<1>5. Nat \subseteq T
  BY <1>3, <1>4, Induct
<1>6. QED
  BY <1>1, <1>2, <1>5 DEF T

\* Whatever the text, a reader has a run on it.
LEMMA RunExists ==
    ASSUME NEW S, NEW text \in Seq(S), NEW base
    PROVE  \E r : Run(r, base, text)
<1> DEFINE n == Len(text)
<1>1. n \in Nat
  BY LenProperties
<1>2. PICK g : IsFold(g, base, text, n)
  BY <1>1, FoldExists
<1> DEFINE r == [i \in 0 .. n |-> g[1 .. i]]
<1>3. r[0] = base
  <2>1. 1 .. 0 = {} /\ 0 \in 0 .. n
    BY <1>1
  <2>2. QED
    BY <1>1, <1>2, <2>1, FoldStep
<1>4. ASSUME NEW i \in 1 .. n PROVE r[i] = Lex(r[i - 1], text[i])
  <2>1. i \in 0 .. n /\ i - 1 \in 0 .. n
    BY <1>1
  <2>2. g[1 .. i] = Lex(g[1 .. i - 1], text[i])
    BY <1>1, <1>2, FoldStep
  <2>3. QED
    BY <2>1, <2>2
<1>5. Run(r, base, text)
  BY <1>3, <1>4 DEF Run
<1>6. QED
  BY <1>5

\* Nothing is read of the empty text.
LEMMA FeedNothing == ASSUME NEW base PROVE Feed(base, <<>>) = base
<1>1. <<>> \in Seq({}) /\ Len(<<>>) = 0
  BY EmptySeq
<1>2. PICK r : Run(r, base, <<>>)
  BY <1>1, RunExists
<1>3. QED
  BY <1>1, <1>2, FeedIsRun DEF Run

\* The last character of a text is read after the ones before it.
LEMMA FeedOneMore ==
    ASSUME NEW S, NEW text \in Seq(S), NEW char \in S, NEW base
    PROVE  Feed(base, Append(text, char)) = Lex(Feed(base, text), char)
<1> DEFINE n == Len(text)
           more == Append(text, char)
<1>1. /\ n \in Nat /\ more \in Seq(S) /\ Len(more) = n + 1
      /\ \A i \in 1 .. n : more[i] = text[i]
      /\ more[n + 1] = char
  BY LenProperties, AppendProperties
<1> HIDE DEF more
<1>2. PICK r : Run(r, base, more)
  BY <1>1, RunExists
<1>3. Run(r, base, text)
  BY <1>1, <1>2 DEF Run
<1>4. Feed(base, text) = r[n]
  BY <1>3, FeedIsRun
<1>5. Feed(base, more) = r[n + 1]
  BY <1>1, <1>2, FeedIsRun
<1>6. r[n + 1] = Lex(r[n], char)
  <2>1. n + 1 \in 1 .. Len(more) /\ (n + 1) - 1 = n
    BY <1>1
  <2>2. QED
    BY <1>1, <1>2, <2>1 DEF Run
<1>7. QED
  BY <1>4, <1>5, <1>6 DEF more

\* Of two texts the second is read where the first one leaves the reader.
LEMMA FeedBoth ==
    ASSUME NEW S, NEW first \in Seq(S), NEW base
    PROVE  \A second \in Seq(S) : Feed(base, first \o second) = Feed(Feed(base, first), second)
<1> DEFINE T == {t \in Seq(S) : Feed(base, first \o t) = Feed(Feed(base, first), t)}
<1>1. <<>> \in T
  BY FeedNothing, EmptySeq, ConcatEmptySeq
<1>2. ASSUME NEW t \in Seq(S), NEW c \in S, t \in T PROVE Append(t, c) \in T
  <2>1. first \o Append(t, c) = Append(first \o t, c)
    <3>1. Append(t, c) = t \o <<c>> /\ <<c>> \in Seq(S)
      BY AppendIsConcat
    <3>2. first \o (t \o <<c>>) = (first \o t) \o <<c>>
      BY <3>1, ConcatAssociative
    <3>3. first \o t \in Seq(S)
      BY ConcatProperties
    <3>4. QED
      BY <3>1, <3>2, <3>3, AppendIsConcat
  <2>2. first \o t \in Seq(S)
    BY ConcatProperties
  <2>3. Feed(base, Append(first \o t, c)) = Lex(Feed(base, first \o t), c)
    BY <2>2, FeedOneMore
  <2>4. Feed(Feed(base, first), Append(t, c)) = Lex(Feed(Feed(base, first), t), c)
    BY FeedOneMore
  <2>5. Append(t, c) \in Seq(S)
    BY AppendProperties
  <2>6. QED
    BY <1>2, <2>1, <2>3, <2>4, <2>5
<1> HIDE DEF T
<1>3. Seq(S) \subseteq T
  BY <1>1, <1>2, SeqInduct
<1>4. QED
  BY <1>3 DEF T

\* A text of one character is read in one step.
LEMMA FeedOne == ASSUME NEW c, NEW base PROVE Feed(base, <<c>>) = Lex(base, c)
<1>1. <<>> \in Seq({c}) /\ c \in {c} /\ Append(<<>>, c) = <<c>>
  BY EmptySeq
<1>2. QED
  BY <1>1, FeedOneMore, FeedNothing

\* A text of two characters is read in two steps.
LEMMA FeedTwo == ASSUME NEW c, NEW d, NEW base PROVE Feed(base, <<c, d>>) = Lex(Lex(base, c), d)
<1> DEFINE S == {c, d}
<1>1. c \in S /\ d \in S
  OBVIOUS
<1> HIDE DEF S
<1>2. <<c>> \in Seq(S)
  BY <1>1
<1>3. Append(<<c>>, d) = <<c, d>>
  <2>1. /\ Append(<<c>>, d) \in Seq(S) /\ Len(Append(<<c>>, d)) = 2
        /\ Append(<<c>>, d)[1] = c /\ Append(<<c>>, d)[2] = d
    BY <1>1, <1>2, AppendProperties
  <2>2. <<c, d>> \in Seq(S) /\ Len(<<c, d>>) = 2 /\ <<c, d>>[1] = c /\ <<c, d>>[2] = d
    BY <1>1
  <2>3. \A i \in 1 .. 2 : i = 1 \/ i = 2
    OBVIOUS
  <2>4. QED
    BY <2>1, <2>2, <2>3, SeqEqual
<1>4. Feed(base, Append(<<c>>, d)) = Lex(Feed(base, <<c>>), d)
  BY <1>1, <1>2, FeedOneMore
<1>5. QED
  BY <1>3, <1>4, FeedOne

-----------------------------------------------------------------------------

\* The function that FlattenSeq is defined by
IsFlat(g, seqs, n) ==
    g = [i \in 1 .. n |-> IF i = 1 THEN seqs[i] ELSE g[i - 1] \o seqs[i]]

\* The function that FlattenSeq is defined by exists.
LEMMA FlatExists ==
    ASSUME NEW n \in Nat, NEW seqs
    PROVE  \E g : IsFlat(g, seqs, n)
<1> DEFINE T == {m \in Nat : \E g : IsFlat(g, seqs, m)}
<1>1. 0 \in T
  <2> DEFINE g == [i \in 1 .. 0 |-> <<>>]
  <2>1. g = [i \in 1 .. 0 |-> IF i = 1 THEN seqs[i] ELSE g[i - 1] \o seqs[i]]
    OBVIOUS
  <2>2. QED
    BY <2>1 DEF IsFlat
<1>2. ASSUME NEW m \in Nat, m \in T PROVE m + 1 \in T
  <2>1. PICK h : IsFlat(h, seqs, m)
    BY <1>2
  <2> DEFINE g == [i \in 1 .. m + 1 |->
                      IF i = m + 1 THEN IF i = 1 THEN seqs[i] ELSE h[i - 1] \o seqs[i] ELSE h[i]]
  <2>2. ASSUME NEW i \in 1 .. m + 1
        PROVE  g[i] = IF i = 1 THEN seqs[i] ELSE g[i - 1] \o seqs[i]
    <3>1. CASE i = m + 1
      <4>1. i # 1 => i - 1 \in 1 .. m + 1 /\ i - 1 # m + 1 /\ g[i - 1] = h[i - 1]
        BY <3>1
      <4>2. QED
        BY <3>1, <4>1
    <3>2. CASE i # m + 1
      <4>1. i \in 1 .. m /\ g[i] = h[i]
        BY <3>2
      <4>2. h[i] = IF i = 1 THEN seqs[i] ELSE h[i - 1] \o seqs[i]
        BY <2>1, <4>1 DEF IsFlat
      <4>3. i # 1 => i - 1 \in 1 .. m + 1 /\ i - 1 # m + 1 /\ g[i - 1] = h[i - 1]
        BY <4>1
      <4>4. QED
        BY <4>1, <4>2, <4>3
    <3>3. QED
      BY <3>1, <3>2
  <2>3. g = [i \in 1 .. m + 1 |-> g[i]]
    OBVIOUS
  <2>4. g = [i \in 1 .. m + 1 |-> IF i = 1 THEN seqs[i] ELSE g[i - 1] \o seqs[i]]
    BY <2>2, <2>3
  <2>5. IsFlat(g, seqs, m + 1)
    BY <2>4 DEF IsFlat
  <2>6. QED
    BY <2>5
<1> HIDE DEF T
<1>3. Nat \subseteq T
  BY <1>1, <1>2, Induct
<1>4. QED
  BY <1>3 DEF T

\* What is put together of the first sequences, of each number of them
FlatRun(r, seqs) ==
    /\ r[0] = <<>>
    /\ \A i \in 1 .. Len(seqs) : r[i] = r[i - 1] \o seqs[i]

\* FlattenSeq puts one sequence after the other.
LEMMA FlatIsRun ==
    ASSUME NEW S, NEW seqs \in Seq(Seq(S)), NEW r, FlatRun(r, seqs)
    PROVE  FlattenSeq(seqs) = r[Len(seqs)]
<1> DEFINE n == Len(seqs)
<1>1. n \in Nat /\ \A i \in 1 .. n : seqs[i] \in Seq(S)
  BY LenProperties, ElementOfSeq
<1>2. CASE n = 0
  <2>1. seqs = <<>>
    BY <1>2, EmptySeq
  <2>2. QED
    BY <1>2, <2>1 DEF FlatRun, FlattenSeq
<1>3. CASE n # 0
  <2>1. PICK g : IsFlat(g, seqs, n) /\ FlattenSeq(seqs) = g[n]
    <3>1. \E g : IsFlat(g, seqs, n)
      BY <1>1, FlatExists
    <3> DEFINE g == CHOOSE f : IsFlat(f, seqs, n)
    <3>2. IsFlat(g, seqs, n)
      BY <3>1
    <3>3. FlattenSeq(seqs) = g[n]
      BY <1>3 DEF FlattenSeq, IsFlat
    <3>4. QED
      BY <3>2, <3>3
  <2> DEFINE T == {i \in Nat : i + 1 <= n => g[i + 1] = r[i + 1]}
  <2>2. 0 \in T
    <3>1. 1 \in 1 .. n /\ 1 - 1 = 0
      BY <1>1, <1>3
    <3>2. g[1] = seqs[1] /\ r[1] = <<>> \o seqs[1]
      BY <2>1, <3>1 DEF IsFlat, FlatRun
    <3>3. QED
      BY <1>1, <3>1, <3>2, ConcatEmptySeq
  <2>3. ASSUME NEW i \in Nat, i \in T PROVE i + 1 \in T
    <3> SUFFICES ASSUME i + 2 <= n PROVE g[i + 2] = r[i + 2]
      OBVIOUS
    <3>1. i + 2 \in 1 .. n /\ (i + 2) - 1 = i + 1 /\ i + 2 # 1 /\ i + 1 <= n
      BY <1>1
    <3>2. g[i + 2] = g[i + 1] \o seqs[i + 2] /\ r[i + 2] = r[i + 1] \o seqs[i + 2]
      BY <2>1, <3>1 DEF IsFlat, FlatRun
    <3>3. QED
      BY <2>3, <3>1, <3>2
  <2> HIDE DEF T
  <2>4. Nat \subseteq T
    BY <2>2, <2>3, Induct
  <2>5. n - 1 \in Nat /\ (n - 1) + 1 = n /\ (n - 1) + 1 <= n
    BY <1>1, <1>3
  <2>6. g[(n - 1) + 1] = r[(n - 1) + 1]
    BY <2>4, <2>5 DEF T
  <2>7. QED
    BY <2>1, <2>5, <2>6
<1>4. QED
  BY <1>2, <1>3

\* Whatever the sequences, they can be put together one by one.
LEMMA FlatRunExists ==
    ASSUME NEW S, NEW seqs \in Seq(Seq(S))
    PROVE  \E r : FlatRun(r, seqs)
<1> DEFINE n == Len(seqs)
<1>1. n \in Nat /\ \A i \in 1 .. n : seqs[i] \in Seq(S)
  BY LenProperties, ElementOfSeq
<1>2. PICK g : IsFlat(g, seqs, n)
  BY <1>1, FlatExists
<1> DEFINE r == [i \in 0 .. n |-> IF i = 0 THEN <<>> ELSE g[i]]
<1>3. ASSUME NEW i \in 1 .. n PROVE r[i] = r[i - 1] \o seqs[i]
  <2>1. i \in 0 .. n /\ i - 1 \in 0 .. n /\ i # 0
    BY <1>1
  <2>2. g[i] = IF i = 1 THEN seqs[i] ELSE g[i - 1] \o seqs[i]
    BY <1>2 DEF IsFlat
  <2>3. CASE i = 1
    <3>1. r[i] = seqs[i] /\ r[i - 1] = <<>>
      BY <1>1, <2>1, <2>2, <2>3
    <3>2. QED
      BY <1>1, <3>1, ConcatEmptySeq
  <2>4. CASE i # 1
    <3>1. r[i] = g[i] /\ r[i - 1] = g[i - 1]
      BY <1>1, <2>1, <2>4
    <3>2. QED
      BY <2>2, <2>4, <3>1
  <2>5. QED
    BY <2>3, <2>4
<1>4. r[0] = <<>>
  BY <1>1
<1>5. FlatRun(r, seqs)
  BY <1>3, <1>4 DEF FlatRun
<1>6. QED
  BY <1>5

\* No sequences make the empty one.
LEMMA FlatNothing == FlattenSeq(<<>>) = <<>>
BY EmptySeq DEF FlattenSeq

\* One sequence more comes after those before it.
LEMMA FlatOneMore ==
    ASSUME NEW S, NEW seqs \in Seq(Seq(S)), NEW x \in Seq(S)
    PROVE  FlattenSeq(Append(seqs, x)) = FlattenSeq(seqs) \o x
<1> DEFINE n == Len(seqs)
           more == Append(seqs, x)
<1>1. /\ n \in Nat /\ more \in Seq(Seq(S)) /\ Len(more) = n + 1
      /\ \A i \in 1 .. n : more[i] = seqs[i]
      /\ more[n + 1] = x
  BY LenProperties, AppendProperties
<1> HIDE DEF more
<1>2. PICK r : FlatRun(r, more)
  BY <1>1, FlatRunExists
<1>3. FlatRun(r, seqs)
  <2>1. \A i \in 1 .. n : i \in 1 .. n + 1
    BY <1>1
  <2> SUFFICES ASSUME NEW i \in 1 .. n PROVE r[i] = r[i - 1] \o seqs[i]
    BY <1>2 DEF FlatRun
  <2>2. r[i] = r[i - 1] \o more[i] /\ more[i] = seqs[i]
    BY <1>1, <1>2, <2>1 DEF FlatRun
  <2>3. QED
    BY <2>2
<1>4. FlattenSeq(seqs) = r[n]
  BY <1>3, FlatIsRun
<1>5. FlattenSeq(more) = r[n + 1]
  BY <1>1, <1>2, FlatIsRun
<1>6. r[n + 1] = r[n] \o x
  <2>1. n + 1 \in 1 .. Len(more) /\ (n + 1) - 1 = n
    BY <1>1
  <2>2. QED
    BY <1>1, <1>2, <2>1 DEF FlatRun
<1>7. QED
  BY <1>4, <1>5, <1>6 DEF more

\* Texts put together are a text.
LEMMA FlatIsSeq ==
    ASSUME NEW S
    PROVE  \A seqs \in Seq(Seq(S)) : FlattenSeq(seqs) \in Seq(S)
<1> DEFINE T == {seqs \in Seq(Seq(S)) : FlattenSeq(seqs) \in Seq(S)}
<1>1. <<>> \in T
  BY FlatNothing, EmptySeq
<1>2. ASSUME NEW seqs \in Seq(Seq(S)), NEW x \in Seq(S), seqs \in T PROVE Append(seqs, x) \in T
  <2>1. FlattenSeq(seqs) \o x \in Seq(S)
    BY <1>2, ConcatProperties
  <2>2. QED
    BY <2>1, FlatOneMore, AppendProperties
<1> HIDE DEF T
<1>3. Seq(Seq(S)) \subseteq T
  BY <1>1, <1>2, SeqInduct
<1>4. QED
  BY <1>3 DEF T

-----------------------------------------------------------------------------
(* Names *)

\* The characters that are written for a number, by the encoder itself, and all of a batch
Digit == {"0", "1", "2", "3", "4", "5", "6", "7", "8", "9", ".", "e", "+", "-"}
Written == {" ", "\\", "\"", ",", "=", "\n", "i", "T", "F"} \union Digit
Char == Written \union {Alphabet[i] : i \in DOMAIN Alphabet}
Name == Seq(Char \ Newlines)

\* A reader between two characters: its lines, words, items, parts and text
At(l, w, i, p, t) ==
    [lines |-> l, words |-> w, items |-> i, parts |-> p, text |-> t,
     mode |-> "line", escape |-> "none"]
InString(l, w, i, p, t) ==
    [lines |-> l, words |-> w, items |-> i, parts |-> p, text |-> t,
     mode |-> "string", escape |-> "none"]

\* A character of a name is a delimiter no more
Plain(char, class) ==
    IF char = "\"" \/ char \in Escapes(class) THEN Literal(char) ELSE Raw(char)

\* The encoder's form of one character of a name is read as this character, and is
\* no delimiter.
LEMMA CharIsRead ==
    ASSUME NEW l, NEW w, NEW i, NEW p, NEW t, NEW c \in Char \ Newlines,
           NEW class \in {"measurement", "tag"},
           class = "measurement" => w = <<>> /\ i = <<>>,
           ~ (Len(w) = 1 /\ Len(p) = 1)
    PROVE  Feed(At(l, w, i, p, t), Escaped(c, class)) = At(l, w, i, p, Append(t, Plain(c, class)))
<1> DEFINE s == At(l, w, i, p, t)
           after == At(l, w, i, p, Append(t, Plain(c, class)))
<1>1. CASE c \in Escapes(class)
  <2>1. Escaped(c, class) = <<"\\", c>> /\ Plain(c, class) = Literal(c)
    BY <1>1 DEF Escaped, Plain
  <2>2. Lex(Lex(s, "\\"), c) = after
    BY <2>1 DEF Lex, At, Takes
  <2>3. Feed(s, <<"\\", c>>) = Lex(Lex(s, "\\"), c)
    BY FeedTwo
  <2>4. QED
    BY <2>1, <2>2, <2>3
<1>2. CASE c \notin Escapes(class)
  <2>1. Escaped(c, class) = <<c>>
    BY <1>2 DEF Escaped
  <2>2. Feed(s, <<c>>) = Lex(s, c)
    BY FeedOne
  <2>3. CASE c = "\""
    <3>1. Plain(c, class) = Literal("\"")
      BY <2>3 DEF Plain
    <3>2. Lex(s, "\"") = At(l, w, i, p, Append(t, Literal("\"")))
      BY DEF Lex, At, Takes, AtFieldValue
    <3>3. QED
      BY <2>1, <2>2, <2>3, <3>1, <3>2
  <2>4. CASE c # "\""
    <3>1. Plain(c, class) = Raw(c)
      BY <1>2, <2>4 DEF Plain
    <3>2. c \notin {",", " ", "\\"} /\ (class = "tag" => c # "=")
      BY <1>2 DEF Escapes
    <3>3. Lex(s, c) = At(l, w, i, p, Append(t, Raw(c)))
      BY <2>4, <3>2 DEF Lex, At, Takes, InMeasurement, Newlines
    <3>4. QED
      BY <2>1, <2>2, <3>1, <3>3
  <2>5. QED
    BY <2>3, <2>4
<1>3. QED
  BY <1>1, <1>2

\* A sequence that goes on for one element is an Append.
LEMMA MoreIsAppend ==
    ASSUME NEW T, NEW u \in Seq(T), NEW x \in T, NEW v \in Seq(T), Len(v) = Len(u) + 1,
           \A i \in 1 .. Len(u) : v[i] = u[i], v[Len(u) + 1] = x
    PROVE  v = Append(u, x)
<1>1. /\ Append(u, x) \in Seq(T) /\ Len(Append(u, x)) = Len(u) + 1 /\ Len(u) \in Nat
      /\ \A i \in 1 .. Len(u) : Append(u, x)[i] = u[i]
      /\ Append(u, x)[Len(u) + 1] = x
  BY AppendProperties, LenProperties
<1>2. ASSUME NEW i \in 1 .. Len(v) PROVE v[i] = Append(u, x)[i]
  <2>1. i \in 1 .. Len(u) \/ i = Len(u) + 1
    BY <1>1
  <2>2. QED
    BY <1>1, <2>1
<1>3. QED
  BY <1>1, <1>2, SeqEqual

\* One or two elements are a sequence.
LEMMA OneOrTwo == ASSUME NEW S PROVE \A a \in S, b \in S : <<a>> \in Seq(S) /\ <<a, b>> \in Seq(S)
OBVIOUS

\* A character is written as a text.
LEMMA EscapedIsText ==
    ASSUME NEW c \in Char, NEW class
    PROVE  Escaped(c, class) \in Seq(Char)
<1>1. " " \in Char /\ "\\" \in Char
  BY DEF Char, Written
<1>2. <<" ">> \in Seq(Char) /\ <<"\\", c>> \in Seq(Char) /\ <<c>> \in Seq(Char)
  BY <1>1, OneOrTwo
<1>3. QED
  BY <1>2 DEF Escaped

\* A function on each element
Map(f, t) == [i \in DOMAIN t |-> f[t[i]]]

\* What Map makes of each element.
LEMMA MapIs ==
    ASSUME NEW S, NEW f, NEW t \in Seq(S)
    PROVE  /\ DOMAIN Map(f, t) = DOMAIN t /\ Len(Map(f, t)) = Len(t)
           /\ \A i \in 1 .. Len(t) : t[i] \in S /\ Map(f, t)[i] = f[t[i]]
<1>1. DOMAIN t = 1 .. Len(t) /\ Len(t) \in Nat /\ \A i \in 1 .. Len(t) : t[i] \in S
  BY LenProperties, ElementOfSeq
<1>2. Map(f, t) = [i \in 1 .. Len(t) |-> f[t[i]]]
  BY <1>1 DEF Map
<1>3. QED
  BY <1>1, <1>2

\* Map makes a sequence of a sequence.
LEMMA MapIsSeq ==
    ASSUME NEW S, NEW T, NEW f, \A x \in S : f[x] \in T
    PROVE  \A t \in Seq(S) : Map(f, t) \in Seq(T)
<1> SUFFICES ASSUME NEW t \in Seq(S) PROVE Map(f, t) \in Seq(T)
  OBVIOUS
<1>1. DOMAIN t = 1 .. Len(t) /\ Len(t) \in Nat /\ \A i \in 1 .. Len(t) : t[i] \in S
  BY LenProperties, ElementOfSeq
<1>2. Map(f, t) = [i \in 1 .. Len(t) |-> f[t[i]]]
  BY <1>1 DEF Map
<1>3. QED
  BY <1>1, <1>2

\* Map makes nothing of nothing.
LEMMA MapNothing == ASSUME NEW f PROVE Map(f, <<>>) = <<>>
BY EmptySeq DEF Map

\* Map makes one element more of one element more.
LEMMA MapOneMore ==
    ASSUME NEW S, NEW f
    PROVE  \A t \in Seq(S), c \in S : Map(f, Append(t, c)) = Append(Map(f, t), f[c])
<1> SUFFICES ASSUME NEW t \in Seq(S), NEW c \in S
             PROVE  Map(f, Append(t, c)) = Append(Map(f, t), f[c])
  OBVIOUS
<1> DEFINE T == {f[x] : x \in S}
<1>1. PICK more \in Seq(S) :
        /\ more = Append(t, c) /\ Len(more) = Len(t) + 1 /\ Len(t) \in Nat
        /\ \A i \in 1 .. Len(t) : more[i] = t[i]
        /\ more[Len(t) + 1] = c
  BY AppendProperties, LenProperties
<1> DEFINE u == Map(f, t)
           v == Map(f, more)
<1>2. u \in Seq(T) /\ v \in Seq(T)
  <2>1. \A x \in S : f[x] \in T
    OBVIOUS
  <2> HIDE DEF T, u, v
  <2>2. \A x \in Seq(S) : Map(f, x) \in Seq(T)
    BY <2>1, MapIsSeq
  <2>3. QED
    BY <2>2 DEF u, v
<1>3. /\ Len(u) = Len(t) /\ \A i \in 1 .. Len(t) : u[i] = f[t[i]]
      /\ Len(v) = Len(more) /\ \A i \in 1 .. Len(more) : v[i] = f[more[i]]
  BY MapIs
<1> HIDE DEF u, v
<1>4. \A i \in 1 .. Len(u) : v[i] = u[i]
  BY <1>1, <1>2, <1>3
<1>5. v[Len(u) + 1] = f[c] /\ f[c] \in T
  <2>1. Len(u) + 1 \in 1 .. Len(more) /\ Len(u) + 1 = Len(t) + 1
    BY <1>1, <1>3
  <2>2. v[Len(u) + 1] = f[more[Len(t) + 1]]
    BY <1>3, <2>1
  <2>3. QED
    BY <1>1, <2>2
<1>6. v = Append(u, f[c])
  BY <1>1, <1>2, <1>3, <1>4, <1>5, MoreIsAppend
<1>7. QED
  BY <1>1, <1>6 DEF u, v

\* What writeEscaped makes of a character
EscapedBy(class) == [c \in Char |-> Escaped(c, class)]

\* writeEscaped puts together what it makes of each character.
LEMMA WrittenParts ==
    ASSUME NEW text \in Seq(Char), NEW class
    PROVE  /\ \A c \in Char : EscapedBy(class)[c] \in Seq(Char)
           /\ writeEscaped(text, class) = FlattenSeq(Map(EscapedBy(class), text))
<1>1. \A c \in Char : EscapedBy(class)[c] \in Seq(Char)
  BY EscapedIsText DEF EscapedBy
<1>2. \A i \in DOMAIN text : text[i] \in Char
  BY ElementOfSeq, LenProperties
<1>3. Map(EscapedBy(class), text) = [i \in DOMAIN text |-> Escaped(text[i], class)]
  BY <1>2 DEF Map, EscapedBy
<1>4. QED
  BY <1>1, <1>3 DEF writeEscaped

\* Nothing is written for an empty text.
LEMMA EscapedNothing == ASSUME NEW class PROVE writeEscaped(<<>>, class) = <<>>
BY WrittenParts, MapNothing, FlatNothing, EmptySeq

\* One character more is written after those before it.
LEMMA EscapedOneMore ==
    ASSUME NEW text \in Seq(Char), NEW c \in Char, NEW class
    PROVE  writeEscaped(Append(text, c), class) = writeEscaped(text, class) \o Escaped(c, class)
<1> DEFINE f == EscapedBy(class)
<1>1. (\A x \in Char : f[x] \in Seq(Char)) /\ f[c] = Escaped(c, class)
  BY WrittenParts DEF EscapedBy
<1>2. Append(text, c) \in Seq(Char)
  BY AppendProperties
<1>3. writeEscaped(Append(text, c), class) = FlattenSeq(Map(f, Append(text, c)))
  BY <1>2, WrittenParts
<1>4. writeEscaped(text, class) = FlattenSeq(Map(f, text))
  BY WrittenParts
<1> HIDE DEF f
<1>5. Map(f, Append(text, c)) = Append(Map(f, text), f[c])
  BY <1>1, MapOneMore
<1>6. Map(f, text) \in Seq(Seq(Char))
  BY <1>1, MapIsSeq
<1>7. FlattenSeq(Append(Map(f, text), f[c])) = FlattenSeq(Map(f, text)) \o f[c]
  BY <1>1, <1>6, EscapedIsText, FlatOneMore
<1>8. QED
  BY <1>1, <1>3, <1>4, <1>5, <1>7

\* What writeEscaped writes is a text.
LEMMA EscapedIsSeq ==
    ASSUME NEW text \in Seq(Char), NEW class
    PROVE  writeEscaped(text, class) \in Seq(Char)
<1>1. Map(EscapedBy(class), text) \in Seq(Seq(Char))
  BY WrittenParts, MapIsSeq
<1>2. QED
  BY <1>1, WrittenParts, FlatIsSeq

\* One character more of a name is read after those before it.
LEMMA FeedEscaped ==
    ASSUME NEW s, NEW text \in Seq(Char), NEW c \in Char, NEW class
    PROVE  Feed(s, writeEscaped(Append(text, c), class))
             = Feed(Feed(s, writeEscaped(text, class)), Escaped(c, class))
<1> DEFINE u == writeEscaped(text, class)
           x == Escaped(c, class)
<1>1. u \in Seq(Char) /\ x \in Seq(Char)
  BY EscapedIsSeq, EscapedIsText
<1>2. writeEscaped(Append(text, c), class) = u \o x
  BY EscapedOneMore
<1> HIDE DEF u, x
<1>3. Feed(s, u \o x) = Feed(Feed(s, u), x)
  BY <1>1, FeedBoth
<1>4. QED
  BY <1>2, <1>3 DEF u, x

\* What the reader makes of a character of a name
PlainBy(class) == [c \in Char |-> Plain(c, class)]
Tok == [char : Char, raw : BOOLEAN]

\* The characters of a name are read as tokens.
LEMMA PlainIsTok == ASSUME NEW class PROVE \A c \in Char : PlainBy(class)[c] \in Tok
BY DEF PlainBy, Plain, Raw, Literal, Tok

\* A name is read as it was, and nothing around it is disturbed.
LEMMA NameIsRead ==
    ASSUME NEW l, NEW w, NEW i, NEW p,
           NEW class \in {"measurement", "tag"},
           class = "measurement" => w = <<>> /\ i = <<>>,
           ~ (Len(w) = 1 /\ Len(p) = 1)
    PROVE  \A name \in Name : Feed(At(l, w, i, p, <<>>), writeEscaped(name, class))
                                = At(l, w, i, p, Map(PlainBy(class), name))
<1> DEFINE s == At(l, w, i, p, <<>>)
           T == {t \in Name : Feed(s, writeEscaped(t, class)) = At(l, w, i, p, Map(PlainBy(class), t))}
           S == Char \ Newlines
<1>1. <<>> \in T
  BY EscapedNothing, FeedNothing, MapNothing, EmptySeq DEF Name
<1>2. ASSUME NEW t \in Seq(S), NEW c \in S, t \in T PROVE Append(t, c) \in T
  <2>1. c \in Char /\ t \in Seq(Char) /\ Append(t, c) \in Name
    BY AppendProperties DEF Name
  <2>4. Feed(s, writeEscaped(Append(t, c), class)) = Feed(Feed(s, writeEscaped(t, class)), Escaped(c, class))
    BY <2>1, FeedEscaped
  <2>5. Feed(s, writeEscaped(t, class)) = At(l, w, i, p, Map(PlainBy(class), t))
    BY <1>2
  <2>6. Feed(At(l, w, i, p, Map(PlainBy(class), t)), Escaped(c, class))
          = At(l, w, i, p, Append(Map(PlainBy(class), t), Plain(c, class)))
    BY CharIsRead
  <2>7. Map(PlainBy(class), Append(t, c)) = Append(Map(PlainBy(class), t), Plain(c, class))
    <3>1. PlainBy(class)[c] = Plain(c, class)
      BY <2>1 DEF PlainBy
    <3>2. Map(PlainBy(class), Append(t, c)) = Append(Map(PlainBy(class), t), PlainBy(class)[c])
      BY <2>1, MapOneMore
    <3>3. QED
      BY <3>1, <3>2
  <2>8. QED
    BY <2>1, <2>4, <2>5, <2>6, <2>7
<1> HIDE DEF T, S
<1>3. Seq(S) \subseteq T
  BY <1>1, <1>2, SeqInduct
<1>4. QED
  BY <1>3 DEF T, S, Name

-----------------------------------------------------------------------------
(* Numbers and strings *)

\* The characters of numbers, of their mark, and of booleans
Digits == Digit \union {"i", "T", "F"}
RawBy == [c \in Digits |-> Raw(c)]

\* The text of a number is read as it is.
LEMMA DigitsAreRead ==
    ASSUME NEW l, NEW w, NEW i, NEW p
    PROVE  \A text \in Seq(Digits) : Feed(At(l, w, i, p, <<>>), text) = At(l, w, i, p, Map(RawBy, text))
<1> DEFINE s == At(l, w, i, p, <<>>)
           T == {t \in Seq(Digits) : Feed(s, t) = At(l, w, i, p, Map(RawBy, t))}
<1>1. <<>> \in T
  BY FeedNothing, MapNothing, EmptySeq
<1>2. ASSUME NEW t \in Seq(Digits), NEW c \in Digits, t \in T PROVE Append(t, c) \in T
  <2>1. Append(t, c) \in Seq(Digits)
    BY AppendProperties
  <2>2. Feed(s, Append(t, c)) = Lex(Feed(s, t), c)
    BY FeedOneMore
  <2>3. Feed(s, t) = At(l, w, i, p, Map(RawBy, t))
    BY <1>2
  <2>4. Lex(At(l, w, i, p, Map(RawBy, t)), c) = At(l, w, i, p, Append(Map(RawBy, t), Raw(c)))
    BY DEF Lex, At, Takes, Digits, Digit
  <2>5. Map(RawBy, Append(t, c)) = Append(Map(RawBy, t), Raw(c))
    <3>1. RawBy[c] = Raw(c)
      BY DEF RawBy
    <3>2. QED
      BY <3>1, MapOneMore
  <2>6. QED
    BY <2>1, <2>2, <2>3, <2>4, <2>5
<1> HIDE DEF T
<1>3. Seq(Digits) \subseteq T
  BY <1>1, <1>2, SeqInduct
<1>4. QED
  BY <1>3 DEF T

\* A character of a string as it is meant
Clean(c) == IF c \in Newlines THEN " " ELSE c
CleanBy == [c \in Char |-> Literal(Clean(c))]

\* The encoder's form of one character of a string is read as this character, a
\* newline as a space, and the string goes on.
LEMMA StringCharIsRead ==
    ASSUME NEW l, NEW w, NEW i, NEW p, NEW t, NEW c \in Char
    PROVE  Feed(InString(l, w, i, p, t), Escaped(c, "string"))
             = InString(l, w, i, p, Append(t, Literal(Clean(c))))
<1> DEFINE s == InString(l, w, i, p, t)
<1>1. CASE c \in Newlines
  <2>1. Escaped(c, "string") = <<" ">> /\ Clean(c) = " "
    BY <1>1 DEF Escaped, Clean
  <2>2. Lex(s, " ") = InString(l, w, i, p, Append(t, Literal(" ")))
    BY DEF Lex, InString, Takes
  <2>3. Feed(s, <<" ">>) = Lex(s, " ")
    BY FeedOne
  <2>4. QED
    BY <2>1, <2>2, <2>3
<1>2. CASE c \notin Newlines /\ c \in {"\"", "\\"}
  <2>1. Escaped(c, "string") = <<"\\", c>> /\ Clean(c) = c
    BY <1>2 DEF Escaped, Clean, Escapes
  <2>2. Lex(Lex(s, "\\"), c) = InString(l, w, i, p, Append(t, Literal(c)))
    BY DEF Lex, InString, Takes
  <2>3. Feed(s, <<"\\", c>>) = Lex(Lex(s, "\\"), c)
    BY FeedTwo
  <2>4. QED
    BY <2>1, <2>2, <2>3
<1>3. CASE c \notin Newlines /\ c \notin {"\"", "\\"}
  <2>1. Escaped(c, "string") = <<c>> /\ Clean(c) = c
    BY <1>3 DEF Escaped, Clean, Escapes
  <2>2. Lex(s, c) = InString(l, w, i, p, Append(t, Literal(c)))
    BY <1>3 DEF Lex, InString, Takes
  <2>3. Feed(s, <<c>>) = Lex(s, c)
    BY FeedOne
  <2>4. QED
    BY <2>1, <2>2, <2>3
<1>4. QED
  BY <1>1, <1>2, <1>3

\* The characters of a string are read as tokens.
LEMMA CleanIsTok == \A c \in Char : CleanBy[c] \in Tok
<1>1. " " \in Char
  BY DEF Char, Written
<1>2. QED
  BY <1>1 DEF CleanBy, Clean, Literal, Tok

\* A string is read to its end, whatever is in it.
LEMMA StringIsRead ==
    ASSUME NEW l, NEW w, NEW i, NEW p, NEW t \in Seq(Tok)
    PROVE  \A text \in Seq(Char) : Feed(InString(l, w, i, p, t), writeEscaped(text, "string"))
                                     = InString(l, w, i, p, t \o Map(CleanBy, text))
<1> DEFINE s == InString(l, w, i, p, t)
           T == {u \in Seq(Char) : Feed(s, writeEscaped(u, "string"))
                                     = InString(l, w, i, p, t \o Map(CleanBy, u))}
<1>1. <<>> \in T
  <2>1. t \o <<>> = t
    BY ConcatEmptySeq
  <2>2. QED
    BY <2>1, EscapedNothing, FeedNothing, MapNothing, EmptySeq
<1>2. ASSUME NEW u \in Seq(Char), NEW c \in Char, u \in T PROVE Append(u, c) \in T
  <2>1. Append(u, c) \in Seq(Char)
    BY AppendProperties
  <2>4. Feed(s, writeEscaped(Append(u, c), "string"))
          = Feed(Feed(s, writeEscaped(u, "string")), Escaped(c, "string"))
    BY FeedEscaped
  <2>5. Feed(s, writeEscaped(u, "string")) = InString(l, w, i, p, t \o Map(CleanBy, u))
    BY <1>2
  <2>6. Feed(InString(l, w, i, p, t \o Map(CleanBy, u)), Escaped(c, "string"))
          = InString(l, w, i, p, Append(t \o Map(CleanBy, u), Literal(Clean(c))))
    BY StringCharIsRead
  <2>7. t \o Map(CleanBy, Append(u, c)) = Append(t \o Map(CleanBy, u), Literal(Clean(c)))
    <3> DEFINE m == Map(CleanBy, u)
               x == Literal(Clean(c))
    <3>1. Map(CleanBy, Append(u, c)) = Append(m, CleanBy[c])
      BY MapOneMore
    <3>2. x \in Tok /\ x = CleanBy[c]
      BY CleanIsTok DEF CleanBy
    <3>3. m \in Seq(Tok)
      BY CleanIsTok, MapIsSeq
    <3> HIDE DEF m, x
    <3>4. Append(m, x) = m \o <<x>> /\ <<x>> \in Seq(Tok)
      BY <3>2, <3>3, AppendIsConcat
    <3>5. t \o (m \o <<x>>) = (t \o m) \o <<x>>
      BY <3>3, <3>4, ConcatAssociative
    <3>6. t \o m \in Seq(Tok)
      BY <3>3, ConcatProperties
    <3>7. Append(t \o m, x) = (t \o m) \o <<x>>
      BY <3>2, <3>6, AppendIsConcat
    <3>8. QED
      BY <3>1, <3>2, <3>4, <3>5, <3>7 DEF m, x
  <2>8. QED
    BY <2>1, <2>4, <2>5, <2>6, <2>7
<1> HIDE DEF T
<1>3. Seq(Char) \subseteq T
  BY <1>1, <1>2, SeqInduct
<1>4. QED
  BY <1>3 DEF T

-----------------------------------------------------------------------------
(* Values, as they are read *)

\* Three texts are read one after the other.
LEMMA FeedThree ==
    ASSUME NEW S, NEW a \in Seq(S), NEW b \in Seq(S), NEW c \in Seq(S), NEW base
    PROVE  Feed(base, a \o b \o c) = Feed(Feed(Feed(base, a), b), c)
<1>1. a \o b \in Seq(S)
  BY ConcatProperties
<1>2. Feed(base, a \o b) = Feed(Feed(base, a), b)
  BY FeedBoth
<1>3. ASSUME NEW ab \in Seq(S) PROVE Feed(base, ab \o c) = Feed(Feed(base, ab), c)
  BY FeedBoth
<1>4. Feed(base, (a \o b) \o c) = Feed(Feed(base, a \o b), c)
  BY <1>1, <1>3
<1>5. QED
  BY <1>2, <1>4

\* The values of the fields that can be written
Numeral == Seq(Digit) \ {<<>>}
Values ==
    [kind : {"float", "huge", "int", "uint"}, text : Numeral]
        \union [kind : {"bool"}, text : {<<"T">>, <<"F">>}]
        \union [kind : {"string"}, text : Seq(Char)]

\* What the reader makes of a value
ValueTokens(v) ==
    CASE v.kind = "string" -> Append(<<Raw("\"")>> \o Map(CleanBy, v.text), Raw("\""))
      [] v.kind \in {"int", "uint"} -> Append(Map(RawBy, v.text), Raw("i"))
      [] OTHER -> Map(RawBy, v.text)

\* The kinds of values, and what their texts are.
LEMMA Kinds ==
    ASSUME NEW v \in Values
    PROVE  \/ v.kind \in {"float", "huge"} /\ v.text \in Seq(Digits) /\ v.text \in Numeral
           \/ v.kind \in {"int", "uint"} /\ v.text \in Seq(Digits)
           \/ v.kind = "bool" /\ v.text \in {<<"T">>, <<"F">>} /\ v.text \in Seq(Digits)
           \/ v.kind = "string" /\ v.text \in Seq(Char)
<1>1. \A t \in Numeral : t \in Seq(Digits)
  <2> SUFFICES ASSUME NEW t \in Seq(Digit) PROVE t \in Seq(Digits)
    BY DEF Numeral
  <2>1. Digit \subseteq Digits
    BY DEF Digits
  <2>2. QED
    BY <2>1, SeqMonotonic
<1>2. <<"T">> \in Seq(Digits) /\ <<"F">> \in Seq(Digits)
  <2>1. "T" \in Digits /\ "F" \in Digits
    BY DEF Digits
  <2>2. QED
    BY <2>1, OneOrTwo
<1>3. QED
  BY <1>1, <1>2 DEF Values

\* Where the value of a field begins, what writeValue writes is read as the tokens of
\* this value.
LEMMA ValueIsRead ==
    ASSUME NEW l, NEW w, NEW i, NEW p, Len(w) = 1, Len(p) = 1, NEW v \in Values
    PROVE  Feed(At(l, w, i, p, <<>>), writeValue(v)) = At(l, w, i, p, ValueTokens(v))
<1> DEFINE s == At(l, w, i, p, <<>>)
<1>1. CASE v.kind \in {"float", "huge", "bool"}
  <2>1. writeValue(v) = v.text /\ ValueTokens(v) = Map(RawBy, v.text) /\ v.text \in Seq(Digits)
    BY <1>1, Kinds DEF writeValue, ValueTokens
  <2>2. QED
    BY <2>1, DigitsAreRead
<1>2. CASE v.kind \in {"int", "uint"}
  <2>1. /\ writeValue(v) = v.text \o <<"i">> /\ ValueTokens(v) = Append(Map(RawBy, v.text), Raw("i"))
        /\ v.text \in Seq(Digits)
    BY <1>2, Kinds DEF writeValue, ValueTokens
  <2>2. "i" \in Digits
    BY DEF Digits
  <2>3. v.text \o <<"i">> = Append(v.text, "i") /\ Append(v.text, "i") \in Seq(Digits)
    BY <2>1, <2>2, AppendIsConcat, AppendProperties
  <2>4. Map(RawBy, Append(v.text, "i")) = Append(Map(RawBy, v.text), Raw("i"))
    <3>1. RawBy["i"] = Raw("i")
      BY <2>2 DEF RawBy
    <3>2. QED
      BY <2>1, <2>2, <3>1, MapOneMore
  <2>5. Feed(s, Append(v.text, "i")) = At(l, w, i, p, Map(RawBy, Append(v.text, "i")))
    BY <2>3, DigitsAreRead
  <2>6. QED
    BY <2>1, <2>3, <2>4, <2>5
<1>3. CASE v.kind = "string"
  <2> DEFINE q == "\""
             t == <<Raw(q)>>
             u == writeEscaped(v.text, "string")
  <2>1. /\ writeValue(v) = <<q>> \o u \o <<q>> /\ ValueTokens(v) = Append(t \o Map(CleanBy, v.text), Raw(q))
        /\ v.text \in Seq(Char)
    BY <1>3, Kinds DEF writeValue, ValueTokens
  <2>2. q \in Char /\ <<q>> \in Seq(Char) /\ u \in Seq(Char) /\ t \in Seq(Tok)
    <3>1. q \in Char
      BY DEF Char, Written
    <3>2. Raw(q) \in Tok
      BY <3>1 DEF Raw, Tok
    <3>3. QED
      BY <2>1, <3>1, <3>2, OneOrTwo, EscapedIsSeq
  <2>3. Lex(s, q) = InString(l, w, i, p, t)
    <3>1. Lex(s, q) = InString(l, w, i, p, Append(<<>>, Raw(q)))
      BY DEF Lex, At, InString, Takes, AtFieldValue
    <3>2. Append(<<>>, Raw(q)) = t
      OBVIOUS
    <3>3. QED
      BY <3>1, <3>2
  <2>4. Lex(InString(l, w, i, p, t \o Map(CleanBy, v.text)), q)
          = At(l, w, i, p, Append(t \o Map(CleanBy, v.text), Raw(q)))
    BY DEF Lex, At, InString, Takes
  <2>5. writeValue(v) = <<q>> \o u \o <<q>>
    BY <2>1
  <2>6. ValueTokens(v) = Append(t \o Map(CleanBy, v.text), Raw(q))
    BY <2>1
  <2> HIDE DEF t
  <2>7. Feed(InString(l, w, i, p, t), u) = InString(l, w, i, p, t \o Map(CleanBy, v.text))
    <3>1. v.text \in Seq(Char) /\ t \in Seq(Tok)
      BY <2>1, <2>2
    <3>2. ASSUME NEW x \in Seq(Char)
          PROVE  Feed(InString(l, w, i, p, t), writeEscaped(x, "string"))
                   = InString(l, w, i, p, t \o Map(CleanBy, x))
      BY <3>1, StringIsRead
    <3>3. QED
      BY <3>1, <3>2
  <2> HIDE DEF s, u
  <2>8. Feed(s, <<q>> \o u \o <<q>>) = Feed(Feed(Feed(s, <<q>>), u), <<q>>)
    <3> DEFINE x == <<q>>
    <3>1. x \in Seq(Char) /\ u \in Seq(Char)
      BY <2>2
    <3> HIDE DEF x
    <3>2. Feed(s, x \o u \o x) = Feed(Feed(Feed(s, x), u), x)
      BY <3>1, FeedThree
    <3>3. QED
      BY <3>2 DEF x
  <2>9. \A x : Feed(x, <<q>>) = Lex(x, q)
    BY FeedOne
  <2>10. QED
    BY <2>3, <2>4, <2>5, <2>6, <2>7, <2>8, <2>9 DEF s
<1>4. QED
  BY <1>1, <1>2, <1>3, Kinds

-----------------------------------------------------------------------------
(* Values, as they are understood *)

\* The tokens of a name spell the name.
LEMMA NameText ==
    ASSUME NEW name \in Seq(Char), NEW class
    PROVE  Text(Map(PlainBy(class), name)) = name
<1>1. /\ DOMAIN Map(PlainBy(class), name) = 1 .. Len(name) /\ DOMAIN name = 1 .. Len(name)
      /\ \A i \in 1 .. Len(name) : name[i] \in Char /\ Map(PlainBy(class), name)[i] = PlainBy(class)[name[i]]
  BY MapIs, LenProperties
<1>2. \A c \in Char : PlainBy(class)[c].char = c
  BY DEF PlainBy, Plain, Raw, Literal
<1>3. Text(Map(PlainBy(class), name)) = [i \in 1 .. Len(name) |-> name[i]]
  BY <1>1, <1>2 DEF Text
<1>4. name = [i \in 1 .. Len(name) |-> name[i]]
  BY LenProperties
<1>5. QED
  BY <1>3, <1>4

\* The tokens of a number spell the number.
LEMMA DigitsText ==
    ASSUME NEW text \in Seq(Digits)
    PROVE  Text(Map(RawBy, text)) = text
<1>1. /\ DOMAIN Map(RawBy, text) = 1 .. Len(text)
      /\ \A i \in 1 .. Len(text) : text[i] \in Digits /\ Map(RawBy, text)[i] = RawBy[text[i]]
  BY MapIs, LenProperties
<1>2. \A c \in Digits : RawBy[c].char = c
  BY DEF RawBy, Raw
<1>3. Text(Map(RawBy, text)) = [i \in 1 .. Len(text) |-> text[i]]
  BY <1>1, <1>2 DEF Text
<1>4. text = [i \in 1 .. Len(text) |-> text[i]]
  BY LenProperties
<1>5. QED
  BY <1>3, <1>4

\* The ends of a sequence that got one element more.
LEMMA Ended ==
    ASSUME NEW S, NEW q \in S, NEW u \in Seq(S)
    PROVE  /\ Append(u, q) # <<>> /\ Last(Append(u, q)) = q /\ Front(Append(u, q)) = u
           /\ Head(Append(u, q)) = IF Len(u) = 0 THEN q ELSE u[1]
<1>1. PICK m \in Seq(S) : /\ m = Append(u, q) /\ Len(m) = Len(u) + 1 /\ m[Len(u) + 1] = q /\ Len(u) \in Nat
                          /\ \A i \in 1 .. Len(u) : m[i] = u[i]
  <2>1. /\ Append(u, q) \in Seq(S) /\ Len(Append(u, q)) = Len(u) + 1
        /\ Append(u, q)[Len(u) + 1] = q /\ Len(u) \in Nat
        /\ \A i \in 1 .. Len(u) : Append(u, q)[i] = u[i]
    BY AppendProperties, LenProperties
  <2>2. QED
    BY <2>1
<1>2. m # <<>> /\ Head(m) = m[1] /\ Last(m) = q /\ Front(m) = SubSeq(m, 1, Len(u))
  BY <1>1 DEF Last, Front
<1>3. SubSeq(m, 1, Len(u)) = u
  <2>1. /\ SubSeq(m, 1, Len(u)) \in Seq(S) /\ Len(SubSeq(m, 1, Len(u))) = Len(u)
        /\ \A i \in 1 .. Len(u) : SubSeq(m, 1, Len(u))[i] = u[i]
    BY <1>1
  <2>2. QED
    BY <1>1, <2>1, SeqEqual
<1>4. m[1] = IF Len(u) = 0 THEN q ELSE u[1]
  BY <1>1
<1>5. QED
  BY <1>1, <1>2, <1>3, <1>4

\* What is left of a sequence between two quotes.
LEMMA Enclosed ==
    ASSUME NEW S, NEW q \in S, NEW u \in Seq(S)
    PROVE  /\ Append(<<q>> \o u, q) # <<>> /\ Head(Append(<<q>> \o u, q)) = q
           /\ SubSeq(Append(<<q>> \o u, q), 2, Len(Append(<<q>> \o u, q)) - 1) = u
<1>1. PICK x \in Seq(S) : x = <<q>> /\ Len(x) = 1 /\ x[1] = q
  <2>1. <<q>> \in Seq(S) /\ Len(<<q>>) = 1 /\ <<q>>[1] = q
    OBVIOUS
  <2>2. QED
    BY <2>1
<1>2. PICK t \in Seq(S) : /\ t = x \o u /\ Len(t) = 1 + Len(u) /\ Len(u) \in Nat
                          /\ \A i \in 1 .. 1 + Len(u) : t[i] = IF i <= 1 THEN x[i] ELSE u[i - 1]
  <2>1. /\ x \o u \in Seq(S) /\ Len(x \o u) = 1 + Len(u) /\ Len(u) \in Nat
        /\ \A i \in 1 .. 1 + Len(u) : (x \o u)[i] = IF i <= 1 THEN x[i] ELSE u[i - 1]
    BY <1>1, ConcatProperties, LenProperties
  <2>2. QED
    BY <2>1
<1>3. t[1] = q /\ \A i \in 1 .. Len(u) : t[i + 1] = u[i]
  <2>1. 1 \in 1 .. 1 + Len(u)
    BY <1>2
  <2>2. \A i \in 1 .. Len(u) : i + 1 \in 1 .. 1 + Len(u) /\ ~ (i + 1 <= 1) /\ (i + 1) - 1 = i
    BY <1>2
  <2>3. QED
    BY <1>1, <1>2, <2>1, <2>2
<1>4. PICK m \in Seq(S) : /\ m = Append(t, q) /\ Len(m) = Len(t) + 1
                          /\ \A i \in 1 .. Len(t) : m[i] = t[i]
  <2>1. /\ Append(t, q) \in Seq(S) /\ Len(Append(t, q)) = Len(t) + 1
        /\ \A i \in 1 .. Len(t) : Append(t, q)[i] = t[i]
    BY AppendProperties
  <2>2. QED
    BY <2>1
<1>5. m[1] = q /\ \A i \in 1 .. Len(u) : m[i + 1] = u[i]
  <2>1. 1 \in 1 .. Len(t) /\ \A i \in 1 .. Len(u) : i + 1 \in 1 .. Len(t)
    BY <1>2
  <2>2. QED
    BY <1>3, <1>4, <2>1
<1>6. SubSeq(m, 2, Len(m) - 1) = u
  <2>1. /\ SubSeq(m, 2, Len(m) - 1) \in Seq(S) /\ Len(SubSeq(m, 2, Len(m) - 1)) = Len(u)
        /\ \A i \in 1 .. Len(u) : SubSeq(m, 2, Len(m) - 1)[i] = m[i + 1]
    BY <1>2, <1>4
  <2>2. QED
    BY <1>5, <2>1, SeqEqual
<1>7. m # <<>> /\ Head(m) = q
  BY <1>2, <1>4, <1>5
<1>8. QED
  BY <1>1, <1>2, <1>4, <1>6, <1>7

\* The characters of numbers are not quotes.
LEMMA RawIs == \A c \in Digits : RawBy[c] = Raw(c) /\ Raw(c) \in Tok /\ Raw(c).char = c /\ Raw(c) # Raw("\"")
BY DEF RawBy, Raw, Tok, Digits, Digit, Char, Written

\* The tokens of a number, one by one.
LEMMA RawsAre ==
    ASSUME NEW text \in Seq(Digits)
    PROVE  /\ Map(RawBy, text) \in Seq(Tok) /\ Len(Map(RawBy, text)) = Len(text)
           /\ \A i \in 1 .. Len(text) : text[i] \in Digits /\ Map(RawBy, text)[i] = Raw(text[i])
<1>1. \A c \in Digits : RawBy[c] \in Tok
  BY RawIs
<1>2. \A t \in Seq(Digits) : Map(RawBy, t) \in Seq(Tok)
  BY <1>1, MapIsSeq
<1>3. /\ Len(Map(RawBy, text)) = Len(text)
      /\ \A i \in 1 .. Len(text) : text[i] \in Digits /\ Map(RawBy, text)[i] = RawBy[text[i]]
  BY MapIs
<1>4. QED
  BY <1>2, <1>3, RawIs

\* A text without a quote and a mark at its end is a float or a boolean.
LEMMA BareIsRead ==
    ASSUME NEW text \in Seq(Digits), text # <<>>, text[Len(text)] # "i"
    PROVE  ReadValue(Map(RawBy, text))
             = [kind |-> IF text[Len(text)] \in {"T", "F"} THEN "bool" ELSE "float", text |-> text]
<1> DEFINE c == text[Len(text)]
<1>1. Len(text) \in Nat \ {0} /\ 1 \in 1 .. Len(text) /\ Len(text) \in 1 .. Len(text)
  BY EmptySeq
<1>2. PICK m \in Seq(Tok) :
        /\ m = Map(RawBy, text) /\ Len(m) = Len(text)
        /\ \A i \in 1 .. Len(text) : text[i] \in Digits /\ m[i] = Raw(text[i])
  BY RawsAre
<1>3. Text(m) = text
  BY <1>2, DigitsText
<1>4. m # <<>> /\ Head(m) = m[1] /\ Last(m) = m[Len(text)]
  BY <1>1, <1>2 DEF Last
<1>5. Head(m) # Raw("\"")
  <2>1. text[1] \in Digits /\ m[1] = Raw(text[1])
    BY <1>1, <1>2
  <2>2. QED
    BY <1>4, <2>1, RawIs
<1>6. Last(m) = Raw(c) /\ Raw(c).char = c
  BY <1>1, <1>2, <1>4, RawIs
<1>7. Last(m) # Raw("i")
  BY <1>6 DEF Raw
<1>8. ReadValue(m) = [kind |-> IF c \in {"T", "F"} THEN "bool" ELSE "float", text |-> text]
  BY <1>3, <1>4, <1>5, <1>6, <1>7 DEF ReadValue
<1>9. QED
  BY <1>2, <1>8

\* A number with an i at its end is an integer.
LEMMA IntegerIsRead ==
    ASSUME NEW text \in Seq(Digits)
    PROVE  ReadValue(Append(Map(RawBy, text), Raw("i"))) = [kind |-> "int", text |-> text]
<1>1. PICK u \in Seq(Tok) :
        /\ u = Map(RawBy, text) /\ Len(u) = Len(text)
        /\ \A i \in 1 .. Len(text) : text[i] \in Digits /\ u[i] = Raw(text[i])
  BY RawsAre
<1>2. Text(u) = text
  BY <1>1, DigitsText
<1>3. "i" \in Digits
  BY DEF Digits
<1>4. PICK q \in Tok : q = Raw("i") /\ q # Raw("\"")
  BY <1>3, RawIs
<1>5. /\ Append(u, q) # <<>> /\ Last(Append(u, q)) = q /\ Front(Append(u, q)) = u
      /\ Head(Append(u, q)) = IF Len(u) = 0 THEN q ELSE u[1]
  BY Ended
<1>6. Head(Append(u, q)) # Raw("\"")
  <2>1. CASE Len(u) = 0
    BY <1>4, <1>5, <2>1
  <2>2. CASE Len(u) # 0
    <3>1. 1 \in 1 .. Len(text)
      BY <1>1, <2>2, LenProperties
    <3>2. u[1] # Raw("\"")
      BY <1>1, <3>1, RawIs
    <3>3. QED
      BY <1>5, <2>2, <3>2
  <2>3. QED
    BY <2>1, <2>2
<1>7. ReadValue(Append(u, q)) = [kind |-> "int", text |-> text]
  BY <1>2, <1>4, <1>5, <1>6 DEF ReadValue
<1>8. QED
  BY <1>1, <1>4, <1>7

\* A text between quotes is a string.
LEMMA QuotedIsRead ==
    ASSUME NEW text \in Seq(Char)
    PROVE  ReadValue(Append(<<Raw("\"")>> \o Map(CleanBy, text), Raw("\"")))
             = [kind |-> "string", text |-> [i \in DOMAIN text |-> Clean(text[i])]]
<1>1. PICK q \in Tok : q = Raw("\"")
  <2>1. "\"" \in Char
    BY DEF Char, Written
  <2>2. QED
    BY <2>1 DEF Raw, Tok
<1>2. PICK u \in Seq(Tok) : u = Map(CleanBy, text)
  BY CleanIsTok, MapIsSeq
<1>3. Text(u) = [i \in DOMAIN text |-> Clean(text[i])]
  <2>1. /\ DOMAIN u = DOMAIN text /\ DOMAIN text = 1 .. Len(text)
        /\ \A i \in 1 .. Len(text) : text[i] \in Char /\ u[i] = CleanBy[text[i]]
    BY <1>2, MapIs, LenProperties
  <2>2. \A c \in Char : CleanBy[c].char = Clean(c)
    BY DEF CleanBy, Literal
  <2>3. QED
    BY <2>1, <2>2 DEF Text
<1>4. /\ Append(<<q>> \o u, q) # <<>> /\ Head(Append(<<q>> \o u, q)) = q
      /\ SubSeq(Append(<<q>> \o u, q), 2, Len(Append(<<q>> \o u, q)) - 1) = u
  BY Enclosed
<1> DEFINE m == Append(<<q>> \o u, q)
<1> HIDE DEF m
<1>5. ReadValue(m) = [kind |-> "string", text |-> Text(u)]
  BY <1>1, <1>4 DEF ReadValue, m
<1>6. QED
  BY <1>1, <1>2, <1>3, <1>5 DEF m

-----------------------------------------------------------------------------
(* Keys and values *)

\* The tokens of a value are understood as the value that is meant.
LEMMA ValueMeans ==
    ASSUME NEW v \in Values
    PROVE  ReadValue(ValueTokens(v)) = Meant(v)
<1>0. v = [kind |-> v.kind, text |-> v.text]
  BY DEF Values
<1>1. CASE v.kind \in {"float", "huge"} /\ v.text \in Numeral /\ v.text \in Seq(Digits)
  <2>1. Len(v.text) \in 1 .. Len(v.text) /\ v.text # <<>> /\ v.text \in Seq(Digit)
    BY <1>1, EmptySeq DEF Numeral
  <2>2. v.text[Len(v.text)] \notin {"i", "T", "F"}
    <3>1. v.text[Len(v.text)] \in Digit
      BY <2>1
    <3>2. QED
      BY <3>1 DEF Digit
  <2>3. ValueTokens(v) = Map(RawBy, v.text)
    BY <1>1 DEF ValueTokens
  <2>4. ReadValue(ValueTokens(v)) = [kind |-> "float", text |-> v.text]
    BY <1>1, <2>1, <2>2, <2>3, BareIsRead
  <2>5. Meant(v) = [kind |-> "float", text |-> v.text]
    BY <1>0, <1>1 DEF Meant
  <2>6. QED
    BY <2>4, <2>5
<1>2. CASE v.kind \in {"int", "uint"} /\ v.text \in Seq(Digits)
  <2>1. ReadValue(ValueTokens(v)) = [kind |-> "int", text |-> v.text]
    BY <1>2, IntegerIsRead DEF ValueTokens
  <2>2. Meant(v) = [kind |-> "int", text |-> v.text]
    BY <1>0, <1>2 DEF Meant
  <2>3. QED
    BY <2>1, <2>2
<1>3. CASE v.kind = "bool" /\ v.text \in {<<"T">>, <<"F">>} /\ v.text \in Seq(Digits)
  <2>1. v.text # <<>> /\ v.text[Len(v.text)] \in {"T", "F"}
    BY <1>3
  <2>2. ValueTokens(v) = Map(RawBy, v.text)
    BY <1>3 DEF ValueTokens
  <2>3. ReadValue(ValueTokens(v)) = [kind |-> "bool", text |-> v.text]
    BY <1>3, <2>1, <2>2, BareIsRead
  <2>4. Meant(v) = [kind |-> "bool", text |-> v.text]
    BY <1>0, <1>3 DEF Meant
  <2>5. QED
    BY <2>3, <2>4
<1>4. CASE v.kind = "string" /\ v.text \in Seq(Char)
  <2>1. ReadValue(ValueTokens(v)) = [kind |-> "string", text |-> [i \in DOMAIN v.text |-> Clean(v.text[i])]]
    BY <1>4, QuotedIsRead DEF ValueTokens
  <2>2. Meant(v) = [kind |-> "string", text |-> [i \in DOMAIN v.text |-> Clean(v.text[i])]]
    BY <1>0, <1>4 DEF Meant, Clean
  <2>3. QED
    BY <2>1, <2>2
<1>5. QED
  BY <1>1, <1>2, <1>3, <1>4, Kinds

\* What the reader makes of a key
NameTokens(name) == Map(PlainBy("tag"), name)

\* A delimiter ends the text before it.
LEMMA EndOfPart ==
    ASSUME NEW l, NEW w, NEW i, NEW p, NEW t
    PROVE  EndPart(At(l, w, i, p, t)) = At(l, w, i, Append(p, t), <<>>)
<1> DEFINE a == At(l, w, i, p, t)
           r == [a EXCEPT !.parts = Append(p, t)]
<1>1. a.text = t /\ a.parts = p
  BY DEF At
<1> HIDE DEF a, r
<1>2. EndPart(a) = [r EXCEPT !.text = <<>>]
  BY <1>1 DEF EndPart, r
<1>3. r = At(l, w, i, Append(p, t), t)
  BY DEF r, At, a
<1>4. [At(l, w, i, Append(p, t), t) EXCEPT !.text = <<>>] = At(l, w, i, Append(p, t), <<>>)
  BY DEF At
<1>5. QED
  BY <1>2, <1>3, <1>4 DEF a

\* A comma ends an item.
LEMMA EndOfItem ==
    ASSUME NEW l, NEW w, NEW i, NEW p, NEW t
    PROVE  EndItem(At(l, w, i, p, t)) = At(l, w, Append(i, Append(p, t)), <<>>, <<>>)
<1> DEFINE q == Append(p, t)
           a == At(l, w, i, q, <<>>)
           r == [a EXCEPT !.items = Append(i, q)]
<1>1. a.items = i /\ a.parts = q
  BY DEF At
<1>2. EndPart(At(l, w, i, p, t)) = a
  BY EndOfPart
<1> HIDE DEF a, r, q
<1>3. EndItem(At(l, w, i, p, t)) = [r EXCEPT !.parts = <<>>]
  BY <1>1, <1>2 DEF EndItem, r
<1>4. r = At(l, w, Append(i, q), q, <<>>)
  BY DEF r, At, a
<1>5. [At(l, w, Append(i, q), q, <<>>) EXCEPT !.parts = <<>>] = At(l, w, Append(i, q), <<>>, <<>>)
  BY DEF At
<1>6. QED
  BY <1>3, <1>4, <1>5 DEF q

\* A space ends a word.
LEMMA EndOfWord ==
    ASSUME NEW l, NEW w, NEW i, NEW p, NEW t
    PROVE  EndWord(At(l, w, i, p, t)) = At(l, Append(w, Append(i, Append(p, t))), <<>>, <<>>, <<>>)
<1> DEFINE q == Append(i, Append(p, t))
           a == At(l, w, q, <<>>, <<>>)
           r == [a EXCEPT !.words = Append(w, q)]
<1>1. a.words = w /\ a.items = q
  BY DEF At
<1>2. EndItem(At(l, w, i, p, t)) = a
  BY EndOfItem
<1> HIDE DEF a, r, q
<1>3. EndWord(At(l, w, i, p, t)) = [r EXCEPT !.items = <<>>]
  BY <1>1, <1>2 DEF EndWord, r
<1>4. r = At(l, Append(w, q), q, <<>>, <<>>)
  BY DEF r, At, a
<1>5. [At(l, Append(w, q), q, <<>>, <<>>) EXCEPT !.items = <<>>] = At(l, Append(w, q), <<>>, <<>>, <<>>)
  BY DEF At
<1>6. QED
  BY <1>3, <1>4, <1>5 DEF q

\* A newline ends a line.
LEMMA EndOfLine ==
    ASSUME NEW l, NEW w, NEW i, NEW p, NEW t
    PROVE  EndLine(At(l, w, i, p, t))
             = At(Append(l, Append(w, Append(i, Append(p, t)))), <<>>, <<>>, <<>>, <<>>)
<1> DEFINE q == Append(w, Append(i, Append(p, t)))
           a == At(l, q, <<>>, <<>>, <<>>)
           r == [a EXCEPT !.lines = Append(l, q)]
<1>1. a.lines = l /\ a.words = q
  BY DEF At
<1>2. EndWord(At(l, w, i, p, t)) = a
  BY EndOfWord
<1> HIDE DEF a, r, q
<1>3. EndLine(At(l, w, i, p, t)) = [r EXCEPT !.words = <<>>]
  BY <1>1, <1>2 DEF EndLine, r
<1>4. r = At(Append(l, q), q, <<>>, <<>>, <<>>)
  BY DEF r, At, a
<1>5. [At(Append(l, q), q, <<>>, <<>>, <<>>) EXCEPT !.words = <<>>] = At(Append(l, q), <<>>, <<>>, <<>>, <<>>)
  BY DEF At
<1>6. QED
  BY <1>3, <1>4, <1>5 DEF q

\* A key is read up to its equals sign.
LEMMA PairIsRead ==
    ASSUME NEW l, NEW w, NEW i, NEW key \in Name, NEW text \in Seq(Char), w # <<>> \/ i # <<>>
    PROVE  Feed(At(l, w, i, <<>>, <<>>), Pair(key, text))
             = Feed(At(l, w, i, <<NameTokens(key)>>, <<>>), text)
<1> DEFINE s == At(l, w, i, <<>>, <<>>)
           u == writeEscaped(key, "tag")
           e == <<"=">>
<1>1. u \in Seq(Char) /\ e \in Seq(Char)
  <2>1. "=" \in Char
    BY DEF Char, Written
  <2>2. key \in Seq(Char)
    BY SeqMonotonic DEF Name
  <2>3. QED
    BY <2>1, <2>2, OneOrTwo, EscapedIsSeq
<1>2. Feed(s, u) = At(l, w, i, <<>>, NameTokens(key))
  <2>1. ~ (Len(w) = 1 /\ Len(<<>>) = 1)
    OBVIOUS
  <2>2. QED
    BY <2>1, NameIsRead DEF NameTokens
<1>3. Lex(At(l, w, i, <<>>, NameTokens(key)), "=") = At(l, w, i, <<NameTokens(key)>>, <<>>)
  <2> DEFINE x == NameTokens(key)
             a == At(l, w, i, <<>>, x)
  <2> HIDE DEF x
  <2>1. ~ InMeasurement(a)
    BY DEF InMeasurement, At
  <2>2. Lex(a, "=") = EndPart(a)
    <3>1. a.escape = "none" /\ a.mode = "line"
      BY DEF At
    <3> HIDE DEF a
    <3>2. QED
      BY <2>1, <3>1 DEF Lex
  <2> DEFINE e1 == <<>>
  <2>3. Append(e1, x) = <<x>>
    OBVIOUS
  <2> HIDE DEF e1
  <2>4. EndPart(At(l, w, i, e1, x)) = At(l, w, i, Append(e1, x), <<>>)
    BY EndOfPart
  <2>5. QED
    BY <2>2, <2>3, <2>4 DEF x, e1
<1>4. Pair(key, text) = u \o e \o text
  BY DEF Pair
<1>5. \A x : Feed(x, e) = Lex(x, "=")
  BY FeedOne
<1> HIDE DEF s, u, e
<1>6. Feed(s, u \o e \o text) = Feed(Feed(Feed(s, u), e), text)
  BY <1>1, FeedThree
<1>7. QED
  BY <1>2, <1>3, <1>4, <1>5, <1>6 DEF s

\* The tags and the fields that can be written
TagSet == [key : Name, value : Name]
FieldSet == [key : Name, value : Values]

\* A name is a text.
LEMMA NameIsText == \A name \in Name : name \in Seq(Char)
BY SeqMonotonic DEF Name

\* A tag is read as its key and its value.
LEMMA TagIsRead ==
    ASSUME NEW l, NEW i, i # <<>>, NEW t \in TagSet
    PROVE  Feed(At(l, <<>>, i, <<>>, <<>>), Pair(t.key, writeEscaped(t.value, "tag")))
             = At(l, <<>>, i, <<NameTokens(t.key)>>, NameTokens(t.value))
<1>1. t.key \in Name /\ t.value \in Name
  BY DEF TagSet
<1>2. writeEscaped(t.value, "tag") \in Seq(Char)
  BY <1>1, NameIsText, EscapedIsSeq
<1>3. ~ (Len(<<>>) = 1 /\ Len(<<NameTokens(t.key)>>) = 1)
  OBVIOUS
<1>4. Feed(At(l, <<>>, i, <<NameTokens(t.key)>>, <<>>), writeEscaped(t.value, "tag"))
        = At(l, <<>>, i, <<NameTokens(t.key)>>, NameTokens(t.value))
  BY <1>1, <1>3, NameIsRead DEF NameTokens
<1>5. QED
  BY <1>1, <1>2, <1>4, PairIsRead

\* What writeValue writes is a text.
LEMMA ValueIsText == \A v \in Values : writeValue(v) \in Seq(Char)
<1> SUFFICES ASSUME NEW v \in Values PROVE writeValue(v) \in Seq(Char)
  OBVIOUS
<1>1. \A t \in Seq(Digits) : t \in Seq(Char)
  <2>1. Digits \subseteq Char
    BY DEF Digits, Char, Written
  <2>2. QED
    BY <2>1, SeqMonotonic
<1>2. <<"i">> \in Seq(Char) /\ <<"\"">> \in Seq(Char)
  <2>1. "i" \in Char /\ "\"" \in Char
    BY DEF Char, Written
  <2>2. QED
    BY <2>1, OneOrTwo
<1>3. CASE v.kind \in {"float", "huge", "bool"}
  BY <1>1, <1>3, Kinds DEF writeValue
<1>4. CASE v.kind \in {"int", "uint"}
  BY <1>1, <1>2, <1>4, Kinds, ConcatProperties DEF writeValue
<1>5. CASE v.kind = "string"
  BY <1>2, <1>5, Kinds, EscapedIsSeq, ConcatProperties DEF writeValue
<1>6. QED
  BY <1>3, <1>4, <1>5, Kinds

\* A field is read as its key and its value.
LEMMA FieldIsRead ==
    ASSUME NEW l, NEW w, NEW i, Len(w) = 1, w # <<>>, NEW f \in FieldSet
    PROVE  Feed(At(l, w, i, <<>>, <<>>), Pair(f.key, writeValue(f.value)))
             = At(l, w, i, <<NameTokens(f.key)>>, ValueTokens(f.value))
<1>1. f.key \in Name /\ f.value \in Values
  BY DEF FieldSet
<1>2. writeValue(f.value) \in Seq(Char)
  BY <1>1, ValueIsText
<1>3. Len(<<NameTokens(f.key)>>) = 1
  OBVIOUS
<1>4. Feed(At(l, w, i, <<NameTokens(f.key)>>, <<>>), writeValue(f.value))
        = At(l, w, i, <<NameTokens(f.key)>>, ValueTokens(f.value))
  BY <1>1, <1>3, ValueIsRead
<1>5. QED
  BY <1>1, <1>2, <1>4, PairIsRead

-----------------------------------------------------------------------------
(* The tags *)

\* The first character of a text is read before the others.
LEMMA FeedFirst ==
    ASSUME NEW S, NEW c \in S, NEW text \in Seq(S), NEW base
    PROVE  Feed(base, <<c>> \o text) = Feed(Lex(base, c), text)
<1>1. PICK x \in Seq(S) : x = <<c>>
  BY OneOrTwo
<1>2. Feed(base, x \o text) = Feed(Feed(base, x), text)
  BY FeedBoth
<1>3. Feed(base, x) = Lex(base, c)
  BY <1>1, FeedOne
<1>4. QED
  BY <1>1, <1>2, <1>3

\* What is written for a tag, and read of it
TagText(t) == <<",">> \o Pair(t.key, writeEscaped(t.value, "tag"))
TagTextBy == [t \in TagSet |-> TagText(t)]
PairTokens(t) == <<NameTokens(t.key), NameTokens(t.value)>>

\* A key and its value are written as a text.
LEMMA PairIsText ==
    ASSUME NEW key \in Name, NEW text \in Seq(Char)
    PROVE  Pair(key, text) \in Seq(Char)
<1>1. "=" \in Char
  BY DEF Char, Written
<1>2. <<"=">> \in Seq(Char) /\ writeEscaped(key, "tag") \in Seq(Char)
  BY <1>1, NameIsText, OneOrTwo, EscapedIsSeq
<1>3. QED
  BY <1>2, ConcatProperties DEF Pair

\* A tag is written as a text.
LEMMA TagIsText ==
    \A t \in TagSet : Pair(t.key, writeEscaped(t.value, "tag")) \in Seq(Char) /\ TagText(t) \in Seq(Char)
<1> SUFFICES ASSUME NEW t \in TagSet
             PROVE  Pair(t.key, writeEscaped(t.value, "tag")) \in Seq(Char) /\ TagText(t) \in Seq(Char)
  OBVIOUS
<1>1. t.key \in Name /\ t.value \in Name
  BY DEF TagSet
<1>2. Pair(t.key, writeEscaped(t.value, "tag")) \in Seq(Char)
  BY <1>1, NameIsText, EscapedIsSeq, PairIsText
<1>3. "," \in Char
  BY DEF Char, Written
<1>4. <<",">> \in Seq(Char)
  BY <1>3, OneOrTwo
<1>5. QED
  BY <1>2, <1>4, ConcatProperties DEF TagText

\* TagsText puts together what is written for each tag.
LEMMA TagsTextIs ==
    ASSUME NEW tags \in Seq(TagSet)
    PROVE  TagsText(tags) = FlattenSeq(Map(TagTextBy, tags)) /\ Map(TagTextBy, tags) \in Seq(Seq(Char))
<1>1. \A i \in DOMAIN tags : tags[i] \in TagSet
  BY LenProperties, ElementOfSeq
<1>2. Map(TagTextBy, tags)
        = [i \in DOMAIN tags |-> <<",">> \o Pair(tags[i].key, writeEscaped(tags[i].value, "tag"))]
  BY <1>1 DEF Map, TagTextBy, TagText
<1>3. \A t \in TagSet : TagTextBy[t] \in Seq(Char)
  BY TagIsText DEF TagTextBy
<1>4. \A t \in Seq(TagSet) : Map(TagTextBy, t) \in Seq(Seq(Char))
  BY <1>3, MapIsSeq
<1>5. QED
  BY <1>2, <1>4 DEF TagsText

\* Nothing is written for no tags.
LEMMA TagsTextNothing == TagsText(<<>>) = <<>>
BY TagsTextIs, MapNothing, FlatNothing, EmptySeq

\* One tag more is written after those before it.
LEMMA TagsTextOneMore ==
    ASSUME NEW tags \in Seq(TagSet), NEW t \in TagSet
    PROVE  TagsText(Append(tags, t)) = TagsText(tags) \o TagText(t)
<1>1. TagTextBy[t] = TagText(t) /\ TagText(t) \in Seq(Char)
  BY TagIsText DEF TagTextBy
<1>2. Append(tags, t) \in Seq(TagSet)
  BY AppendProperties
<1>3. TagsText(Append(tags, t)) = FlattenSeq(Map(TagTextBy, Append(tags, t)))
  BY <1>2, TagsTextIs
<1>4. Map(TagTextBy, Append(tags, t)) = Append(Map(TagTextBy, tags), TagText(t))
  BY <1>1, MapOneMore
<1>5. Map(TagTextBy, tags) \in Seq(Seq(Char)) /\ TagsText(tags) = FlattenSeq(Map(TagTextBy, tags))
  BY TagsTextIs
<1>6. FlattenSeq(Append(Map(TagTextBy, tags), TagText(t))) = FlattenSeq(Map(TagTextBy, tags)) \o TagText(t)
  BY <1>1, <1>5, FlatOneMore
<1>7. QED
  BY <1>3, <1>4, <1>5, <1>6

\* The first word of a line: the measurement and an item for each tag
HeadOf(m, tags) ==
    [i \in 1 .. Len(tags) + 1 |-> IF i = 1 THEN <<Map(PlainBy("measurement"), m)>> ELSE PairTokens(tags[i - 1])]

\* One tag more is one item more of the first word.
LEMMA HeadOneMore ==
    ASSUME NEW m, NEW tags \in Seq(TagSet), NEW t \in TagSet
    PROVE  HeadOf(m, Append(tags, t)) = Append(HeadOf(m, tags), PairTokens(t))
<1> DEFINE T == {<<Map(PlainBy("measurement"), m)>>} \union {PairTokens(x) : x \in TagSet}
           h == <<Map(PlainBy("measurement"), m)>>
<1>1. h \in T /\ \A x \in TagSet : PairTokens(x) \in T
  OBVIOUS
<1> HIDE DEF T, h
<1>2. PICK more \in Seq(TagSet) :
        /\ more = Append(tags, t) /\ Len(more) = Len(tags) + 1 /\ Len(tags) \in Nat
        /\ \A i \in 1 .. Len(tags) : more[i] = tags[i] /\ tags[i] \in TagSet
        /\ more[Len(tags) + 1] = t
  <2>1. /\ Append(tags, t) \in Seq(TagSet) /\ Len(Append(tags, t)) = Len(tags) + 1 /\ Len(tags) \in Nat
        /\ \A i \in 1 .. Len(tags) : Append(tags, t)[i] = tags[i] /\ tags[i] \in TagSet
        /\ Append(tags, t)[Len(tags) + 1] = t
    BY AppendProperties, LenProperties, ElementOfSeq
  <2>2. QED
    BY <2>1
<1>3. ASSUME NEW x \in Seq(TagSet)
      PROVE  /\ HeadOf(m, x) \in Seq(T) /\ Len(HeadOf(m, x)) = Len(x) + 1
             /\ \A i \in 1 .. Len(x) + 1 : HeadOf(m, x)[i] = IF i = 1 THEN h ELSE PairTokens(x[i - 1])
  <2>1. Len(x) \in Nat /\ \A i \in 1 .. Len(x) : x[i] \in TagSet
    BY LenProperties, ElementOfSeq
  <2>2. HeadOf(m, x) = [i \in 1 .. Len(x) + 1 |-> IF i = 1 THEN h ELSE PairTokens(x[i - 1])]
    BY DEF HeadOf, h
  <2>3. \A i \in 1 .. Len(x) + 1 : (IF i = 1 THEN h ELSE PairTokens(x[i - 1])) \in T
    <3> SUFFICES ASSUME NEW i \in 1 .. Len(x) + 1, i # 1 PROVE PairTokens(x[i - 1]) \in T
      BY <1>1
    <3>1. i - 1 \in 1 .. Len(x)
      BY <2>1
    <3>2. QED
      BY <1>1, <2>1, <3>1
  <2>4. QED
    BY <2>1, <2>2, <2>3
<1>4. PICK u \in Seq(T) :
        /\ u = HeadOf(m, tags) /\ Len(u) = Len(tags) + 1
        /\ \A i \in 1 .. Len(tags) + 1 : u[i] = IF i = 1 THEN h ELSE PairTokens(tags[i - 1])
  BY <1>3
<1>5. PICK v \in Seq(T) :
        /\ v = HeadOf(m, more) /\ Len(v) = Len(tags) + 2
        /\ \A i \in 1 .. Len(tags) + 2 : v[i] = IF i = 1 THEN h ELSE PairTokens(more[i - 1])
  <2>1. Len(more) + 1 = Len(tags) + 2
    BY <1>2
  <2>2. /\ HeadOf(m, more) \in Seq(T) /\ Len(HeadOf(m, more)) = Len(more) + 1
        /\ \A i \in 1 .. Len(more) + 1 : HeadOf(m, more)[i] = IF i = 1 THEN h ELSE PairTokens(more[i - 1])
    BY <1>3
  <2>3. QED
    BY <2>1, <2>2
<1>6. ASSUME NEW i \in 1 .. Len(u) PROVE v[i] = u[i]
  <2>1. i = 1 \/ i - 1 \in 1 .. Len(tags)
    BY <1>2, <1>4
  <2>2. i \in 1 .. Len(tags) + 2 /\ i \in 1 .. Len(tags) + 1
    BY <1>2, <1>4
  <2>3. i # 1 => more[i - 1] = tags[i - 1]
    BY <1>2, <2>1
  <2>4. QED
    BY <1>4, <1>5, <2>2, <2>3
<1>7. v[Len(u) + 1] = PairTokens(t)
  <2>1. Len(u) + 1 \in 1 .. Len(tags) + 2 /\ Len(u) + 1 # 1 /\ (Len(u) + 1) - 1 = Len(tags) + 1
    BY <1>2, <1>4
  <2>2. v[Len(u) + 1] = PairTokens(more[Len(tags) + 1])
    BY <1>5, <2>1
  <2>3. QED
    BY <1>2, <2>2
<1>8. Len(v) = Len(u) + 1
  BY <1>2, <1>4, <1>5
<1>9. v = Append(u, PairTokens(t))
  BY <1>1, <1>6, <1>7, <1>8, MoreIsAppend
<1>10. QED
  BY <1>2, <1>4, <1>5, <1>9

\* Without tags the first word is the measurement.
LEMMA HeadStart == ASSUME NEW m PROVE HeadOf(m, <<>>) = <<<<Map(PlainBy("measurement"), m)>>>>
<1>1. Len(<<>>) + 1 = 1 /\ 1 .. 1 = {1}
  OBVIOUS
<1>2. HeadOf(m, <<>>)
        = [i \in 1 .. 1 |-> IF i = 1 THEN <<Map(PlainBy("measurement"), m)>> ELSE PairTokens(<<>>[i - 1])]
  BY <1>1 DEF HeadOf
<1> DEFINE x == <<Map(PlainBy("measurement"), m)>>
<1> HIDE DEF x
<1>3. HeadOf(m, <<>>) = [i \in 1 .. 1 |-> x]
  BY <1>1, <1>2 DEF x
<1>4. [i \in 1 .. 1 |-> x] = <<x>>
  OBVIOUS
<1>5. QED
  BY <1>3, <1>4 DEF x

\* A reader that has come to the end of an item, which no delimiter has closed yet
Ending(s, l, w, items) == \E i, p, t : s = At(l, w, i, p, t) /\ items = Append(i, Append(p, t))

\* A comma ends the item that the reader is at.
LEMMA ItemEnds ==
    ASSUME NEW l, NEW w, NEW s, NEW items, Ending(s, l, w, items)
    PROVE  Lex(s, ",") = At(l, w, items, <<>>, <<>>)
<1>1. PICK i, p, t : s = At(l, w, i, p, t) /\ items = Append(i, Append(p, t))
  BY DEF Ending
<1>2. s.escape = "none" /\ s.mode = "line"
  BY <1>1 DEF At
<1>3. Lex(s, ",") = EndItem(s)
  BY <1>2 DEF Lex
<1>4. EndItem(At(l, w, i, p, t)) = At(l, w, Append(i, Append(p, t)), <<>>, <<>>)
  BY EndOfItem
<1>5. QED
  BY <1>1, <1>3, <1>4

\* A space ends the word that the reader is at.
LEMMA WordEnds ==
    ASSUME NEW l, NEW w, NEW s, NEW items, Ending(s, l, w, items)
    PROVE  Lex(s, " ") = At(l, Append(w, items), <<>>, <<>>, <<>>)
<1>1. PICK i, p, t : s = At(l, w, i, p, t) /\ items = Append(i, Append(p, t))
  BY DEF Ending
<1>2. s.escape = "none" /\ s.mode = "line"
  BY <1>1 DEF At
<1>3. Lex(s, " ") = EndWord(s)
  BY <1>2 DEF Lex
<1>4. EndWord(At(l, w, i, p, t)) = At(l, Append(w, Append(i, Append(p, t))), <<>>, <<>>, <<>>)
  BY EndOfWord
<1>5. QED
  BY <1>1, <1>3, <1>4

\* A newline ends the line that the reader is at.
LEMMA LineEnds ==
    ASSUME NEW l, NEW w, NEW s, NEW items, Ending(s, l, w, items)
    PROVE  Lex(s, "\n") = At(Append(l, Append(w, items)), <<>>, <<>>, <<>>, <<>>)
<1>1. PICK i, p, t : s = At(l, w, i, p, t) /\ items = Append(i, Append(p, t))
  BY DEF Ending
<1>2. s.escape = "none" /\ s.mode = "line"
  BY <1>1 DEF At
<1>3. Lex(s, "\n") = EndLine(s)
  BY <1>2 DEF Lex
<1>4. EndLine(At(l, w, i, p, t)) = At(Append(l, Append(w, Append(i, Append(p, t)))), <<>>, <<>>, <<>>, <<>>)
  BY EndOfLine
<1>5. QED
  BY <1>1, <1>3, <1>4

\* One element and one more are two.
LEMMA AppendOne == ASSUME NEW a, NEW b PROVE Append(<<a>>, b) = <<a, b>>
<1> DEFINE S == {a, b}
<1>1. a \in S /\ b \in S
  OBVIOUS
<1> HIDE DEF S
<1>2. <<a>> \in Seq(S)
  BY <1>1
<1>3. /\ Append(<<a>>, b) \in Seq(S) /\ Len(Append(<<a>>, b)) = 2
      /\ Append(<<a>>, b)[1] = a /\ Append(<<a>>, b)[2] = b
  BY <1>1, <1>2, AppendProperties
<1>4. <<a, b>> \in Seq(S) /\ Len(<<a, b>>) = 2 /\ <<a, b>>[1] = a /\ <<a, b>>[2] = b
  BY <1>1
<1>5. \A i \in 1 .. 2 : i = 1 \/ i = 2
  OBVIOUS
<1>6. QED
  BY <1>3, <1>4, <1>5, SeqEqual

\* Each tag is one item more, whatever the ones before it.
LEMMA TagFollows ==
    ASSUME NEW l, NEW s, NEW items, items # <<>>, Ending(s, l, <<>>, items), NEW t \in TagSet
    PROVE  Ending(Feed(s, TagText(t)), l, <<>>, Append(items, PairTokens(t)))
<1>2. Lex(s, ",") = At(l, <<>>, items, <<>>, <<>>)
  BY ItemEnds
<1>3. PICK u \in Seq(Char) : u = Pair(t.key, writeEscaped(t.value, "tag"))
  BY TagIsText
<1>4. Feed(s, <<",">> \o u) = Feed(Lex(s, ","), u)
  <2>1. "," \in Char
    BY DEF Char, Written
  <2>2. QED
    BY <2>1, FeedFirst
<1>5. Feed(At(l, <<>>, items, <<>>, <<>>), u) = At(l, <<>>, items, <<NameTokens(t.key)>>, NameTokens(t.value))
  BY <1>3, TagIsRead
<1>6. Feed(s, TagText(t)) = At(l, <<>>, items, <<NameTokens(t.key)>>, NameTokens(t.value))
  BY <1>2, <1>3, <1>4, <1>5 DEF TagText
<1>7. Append(<<NameTokens(t.key)>>, NameTokens(t.value)) = PairTokens(t)
  BY AppendOne DEF PairTokens
<1>8. QED
  BY <1>6, <1>7 DEF Ending

\* The measurement and all tags are read as the first word of a line.
LEMMA TagsAreRead ==
    ASSUME NEW l, NEW m \in Name
    PROVE  \A tags \in Seq(TagSet) :
              Ending(Feed(At(l, <<>>, <<>>, <<>>, <<>>), writeEscaped(m, "measurement") \o TagsText(tags)),
                     l, <<>>, HeadOf(m, tags))
<1> DEFINE s == At(l, <<>>, <<>>, <<>>, <<>>)
           u == writeEscaped(m, "measurement")
           T == {tags \in Seq(TagSet) : Ending(Feed(s, u \o TagsText(tags)), l, <<>>, HeadOf(m, tags))}
<1>1. u \in Seq(Char)
  BY NameIsText, EscapedIsSeq
<1>2. <<>> \in T
  <2>1. u \o <<>> = u
    BY <1>1, ConcatEmptySeq
  <2>2. Feed(s, u) = At(l, <<>>, <<>>, <<>>, Map(PlainBy("measurement"), m))
    <3>1. ~ (Len(<<>>) = 1 /\ Len(<<>>) = 1)
      OBVIOUS
    <3>2. QED
      BY <3>1, NameIsRead
  <2> DEFINE x == Map(PlainBy("measurement"), m)
  <2>3. HeadOf(m, <<>>) = <<<<x>>>>
    BY HeadStart
  <2> HIDE DEF x
  <2>4. Append(<<>>, Append(<<>>, x)) = <<<<x>>>>
    OBVIOUS
  <2>5. Ending(At(l, <<>>, <<>>, <<>>, x), l, <<>>, <<<<x>>>>)
    BY <2>4 DEF Ending
  <2>6. <<>> \in Seq(TagSet)
    BY EmptySeq
  <2>7. Ending(Feed(s, u), l, <<>>, HeadOf(m, <<>>))
    BY <2>2, <2>3, <2>5 DEF x
  <2>8. QED
    BY <2>1, <2>6, <2>7, TagsTextNothing
<1>3. ASSUME NEW tags \in Seq(TagSet), NEW t \in TagSet, tags \in T PROVE Append(tags, t) \in T
  <2>1. TagsText(tags) \in Seq(Char) /\ TagText(t) \in Seq(Char)
    BY TagsTextIs, TagIsText, FlatIsSeq
  <2>2. TagsText(Append(tags, t)) = TagsText(tags) \o TagText(t)
    BY TagsTextOneMore
  <2> DEFINE a == Feed(s, u \o TagsText(tags))
  <2>3. u \o TagsText(Append(tags, t)) = (u \o TagsText(tags)) \o TagText(t)
    <3> DEFINE w == TagsText(tags)
               v == TagText(t)
    <3>1. u \in Seq(Char) /\ w \in Seq(Char) /\ v \in Seq(Char)
      BY <1>1, <2>1
    <3> HIDE DEF s, u, T, a, w, v
    <3>2. (u \o w) \o v = u \o (w \o v)
      BY <3>1, ConcatAssociative
    <3>3. QED
      BY <2>2, <3>2 DEF w, v
  <2>4. Feed(s, u \o TagsText(Append(tags, t))) = Feed(a, TagText(t))
    <3> DEFINE x == u \o TagsText(tags)
               y == TagText(t)
    <3>1. x \in Seq(Char) /\ y \in Seq(Char)
      BY <1>1, <2>1, ConcatProperties
    <3> HIDE DEF x, y, s
    <3>2. Feed(s, x \o y) = Feed(Feed(s, x), y)
      BY <3>1, FeedBoth
    <3>3. QED
      BY <2>3, <3>2 DEF x, y
  <2>5. HeadOf(m, Append(tags, t)) = Append(HeadOf(m, tags), PairTokens(t))
    BY HeadOneMore
  <2>6. HeadOf(m, tags) # <<>>
    <3>1. 1 \in 1 .. Len(tags) + 1
      BY LenProperties
    <3>2. 1 \in DOMAIN HeadOf(m, tags)
      BY <3>1 DEF HeadOf
    <3> HIDE DEF T
    <3>3. QED
      BY <3>2
  <2>7. Ending(a, l, <<>>, HeadOf(m, tags))
    BY <1>3
  <2> HIDE DEF a
  <2>8. Ending(Feed(a, TagText(t)), l, <<>>, Append(HeadOf(m, tags), PairTokens(t)))
    BY <2>6, <2>7, TagFollows
  <2>9. Append(tags, t) \in Seq(TagSet)
    BY AppendProperties
  <2>10. QED
    BY <2>4, <2>5, <2>8, <2>9
<1> HIDE DEF T
<1>4. Seq(TagSet) \subseteq T
  BY <1>2, <1>3, SeqInduct
<1>5. QED
  BY <1>4 DEF T

-----------------------------------------------------------------------------
(* The fields *)

\* What is written for a field, and read of it
FieldText(f) == Pair(f.key, writeValue(f.value))
FieldTokens(f) == <<NameTokens(f.key), ValueTokens(f.value)>>
FieldBy == [f \in FieldSet |-> FieldTokens(f)]

\* A field is written as a text, with a comma before it or not.
LEMMA FieldIsText == \A f \in FieldSet : FieldText(f) \in Seq(Char) /\ <<",">> \o FieldText(f) \in Seq(Char)
<1> SUFFICES ASSUME NEW f \in FieldSet PROVE FieldText(f) \in Seq(Char) /\ <<",">> \o FieldText(f) \in Seq(Char)
  OBVIOUS
<1>1. f.key \in Name /\ f.value \in Values
  BY DEF FieldSet
<1>2. FieldText(f) \in Seq(Char)
  BY <1>1, ValueIsText, PairIsText DEF FieldText
<1>3. "," \in Char
  BY DEF Char, Written
<1>4. <<",">> \in Seq(Char)
  BY <1>3, OneOrTwo
<1>5. QED
  BY <1>2, <1>4, ConcatProperties

\* What is written for field number i
Separated(i, f) == (IF i > 1 THEN <<",">> ELSE <<>>) \o FieldText(f)
FieldTexts(fields) == [i \in DOMAIN fields |-> Separated(i, fields[i])]

\* The first field has no comma before it, each of the others has.
LEMMA SeparatedIs ==
    \A f \in FieldSet : /\ Separated(1, f) = FieldText(f)
                        /\ \A i \in Nat : /\ Separated(i, f) \in Seq(Char)
                                          /\ i > 1 => Separated(i, f) = <<",">> \o FieldText(f)
<1> SUFFICES ASSUME NEW f \in FieldSet
             PROVE  /\ Separated(1, f) = FieldText(f)
                    /\ \A i \in Nat : /\ Separated(i, f) \in Seq(Char)
                                      /\ i > 1 => Separated(i, f) = <<",">> \o FieldText(f)
  OBVIOUS
<1> DEFINE x == FieldText(f)
           y == <<",">>
<1>1. x \in Seq(Char) /\ y \o x \in Seq(Char)
  BY FieldIsText
<1> HIDE DEF x, y
<1>2. <<>> \o x = x
  BY <1>1, ConcatEmptySeq
<1>3. ASSUME NEW i \in Nat PROVE Separated(i, f) = IF i > 1 THEN y \o x ELSE <<>> \o x
  BY DEF Separated, x, y
<1>4. Separated(1, f) = x
  <2>1. 1 \in Nat /\ ~ (1 > 1)
    OBVIOUS
  <2>2. QED
    BY <1>2, <1>3, <2>1
<1>5. ASSUME NEW i \in Nat PROVE Separated(i, f) \in Seq(Char) /\ (i > 1 => Separated(i, f) = y \o x)
  BY <1>1, <1>2, <1>3
<1>6. QED
  BY <1>4, <1>5 DEF x, y

\* What is written for each field.
LEMMA FieldTextsAre ==
    ASSUME NEW fields \in Seq(FieldSet)
    PROVE  /\ FieldTexts(fields) \in Seq(Seq(Char)) /\ Len(FieldTexts(fields)) = Len(fields)
           /\ \A i \in 1 .. Len(fields) : FieldTexts(fields)[i] = Separated(i, fields[i])
<1>1. DOMAIN fields = 1 .. Len(fields) /\ Len(fields) \in Nat /\ \A i \in 1 .. Len(fields) : fields[i] \in FieldSet
  BY LenProperties, ElementOfSeq
<1>2. \A i \in 1 .. Len(fields) : Separated(i, fields[i]) \in Seq(Char)
  <2>1. \A i \in 1 .. Len(fields) : i \in Nat
    BY <1>1
  <2>2. QED
    BY <1>1, <2>1, SeparatedIs
<1>3. FieldTexts(fields) = [i \in 1 .. Len(fields) |-> Separated(i, fields[i])]
  BY <1>1 DEF FieldTexts
<1>4. QED
  BY <1>1, <1>2, <1>3

\* FieldsText puts together what is written for each field.
LEMMA FieldsTextIs ==
    ASSUME NEW fields
    PROVE  FieldsText(fields) = FlattenSeq(FieldTexts(fields))
BY DEF FieldsText, FieldTexts, Separated, FieldText

\* Nothing is written for no fields.
LEMMA FieldsTextNothing == FieldsText(<<>>) = <<>>
<1>1. FieldTexts(<<>>) = <<>>
  BY EmptySeq DEF FieldTexts
<1>2. QED
  BY <1>1, FieldsTextIs, FlatNothing

\* The fields are written as a text.
LEMMA FieldsTextIsText ==
    ASSUME NEW fields \in Seq(FieldSet)
    PROVE  FieldsText(fields) \in Seq(Char)
BY FieldTextsAre, FieldsTextIs, FlatIsSeq

\* One field more is written after those before it.
LEMMA FieldsTextOneMore ==
    ASSUME NEW fields \in Seq(FieldSet), NEW f \in FieldSet
    PROVE  FieldsText(Append(fields, f)) = FieldsText(fields) \o Separated(Len(fields) + 1, f)
<1>1. PICK more \in Seq(FieldSet) :
        /\ more = Append(fields, f) /\ Len(more) = Len(fields) + 1 /\ Len(fields) \in Nat
        /\ \A i \in 1 .. Len(fields) : more[i] = fields[i]
        /\ more[Len(fields) + 1] = f
  <2>1. /\ Append(fields, f) \in Seq(FieldSet) /\ Len(Append(fields, f)) = Len(fields) + 1 /\ Len(fields) \in Nat
        /\ \A i \in 1 .. Len(fields) : Append(fields, f)[i] = fields[i]
        /\ Append(fields, f)[Len(fields) + 1] = f
    BY AppendProperties, LenProperties
  <2>2. QED
    BY <2>1
<1>2. PICK u \in Seq(Seq(Char)) :
        /\ u = FieldTexts(fields) /\ Len(u) = Len(fields)
        /\ \A i \in 1 .. Len(fields) : u[i] = Separated(i, fields[i])
  BY FieldTextsAre
<1>3. PICK v \in Seq(Seq(Char)) :
        /\ v = FieldTexts(more) /\ Len(v) = Len(fields) + 1
        /\ \A i \in 1 .. Len(fields) + 1 : v[i] = Separated(i, more[i])
  <2>1. /\ FieldTexts(more) \in Seq(Seq(Char)) /\ Len(FieldTexts(more)) = Len(more)
        /\ \A i \in 1 .. Len(more) : FieldTexts(more)[i] = Separated(i, more[i])
    BY FieldTextsAre
  <2>2. QED
    BY <1>1, <2>1
<1>4. PICK x \in Seq(Char) : x = Separated(Len(fields) + 1, f)
  <2>1. Len(fields) + 1 \in Nat
    BY <1>1
  <2>2. QED
    BY <2>1, SeparatedIs
<1>5. \A i \in 1 .. Len(u) : v[i] = u[i]
  BY <1>1, <1>2, <1>3
<1>6. v[Len(u) + 1] = x
  <2>1. Len(u) + 1 \in 1 .. Len(fields) + 1 /\ Len(u) + 1 = Len(fields) + 1
    BY <1>1, <1>2
  <2>2. v[Len(u) + 1] = Separated(Len(fields) + 1, more[Len(fields) + 1])
    BY <1>3, <2>1
  <2>3. QED
    BY <1>1, <1>4, <2>2
<1>7. v = Append(u, x)
  BY <1>2, <1>3, <1>5, <1>6, MoreIsAppend
<1>8. FlattenSeq(Append(u, x)) = FlattenSeq(u) \o x
  BY FlatOneMore
<1>9. QED
  BY <1>1, <1>2, <1>3, <1>4, <1>7, <1>8, FieldsTextIs

\* Each field is one item more, whatever the ones before it.
LEMMA FieldFollows ==
    ASSUME NEW l, NEW w, Len(w) = 1, w # <<>>, NEW items, NEW f \in FieldSet
    PROVE  Ending(Feed(At(l, w, items, <<>>, <<>>), FieldText(f)), l, w, Append(items, FieldTokens(f)))
<1>1. Feed(At(l, w, items, <<>>, <<>>), FieldText(f))
        = At(l, w, items, <<NameTokens(f.key)>>, ValueTokens(f.value))
  BY FieldIsRead DEF FieldText
<1>2. Append(<<NameTokens(f.key)>>, ValueTokens(f.value)) = FieldTokens(f)
  BY AppendOne DEF FieldTokens
<1>3. QED
  BY <1>1, <1>2 DEF Ending

\* All fields are read as the second word of a line.
LEMMA FieldsAreRead ==
    ASSUME NEW l, NEW w, Len(w) = 1, w # <<>>
    PROVE  \A fields \in Seq(FieldSet) :
              fields # <<>> =>
                  Ending(Feed(At(l, w, <<>>, <<>>, <<>>), FieldsText(fields)), l, w, Map(FieldBy, fields))
<1> DEFINE s == At(l, w, <<>>, <<>>, <<>>)
           Good(fields) == Ending(Feed(s, FieldsText(fields)), l, w, Map(FieldBy, fields))
           T == {fields \in Seq(FieldSet) : fields # <<>> => Good(fields)}
<1>1. <<>> \in T
  BY EmptySeq
<1>2. ASSUME NEW fields \in Seq(FieldSet), NEW f \in FieldSet, fields \in T PROVE Append(fields, f) \in T
  <2>1. Append(fields, f) \in Seq(FieldSet)
    BY AppendProperties
  <2>2. Map(FieldBy, Append(fields, f)) = Append(Map(FieldBy, fields), FieldTokens(f))
    <3>1. FieldBy[f] = FieldTokens(f)
      BY DEF FieldBy
    <3>2. QED
      BY <3>1, MapOneMore
  <2>3. FieldsText(Append(fields, f)) = FieldsText(fields) \o Separated(Len(fields) + 1, f)
    BY FieldsTextOneMore
  <2>4. Len(fields) \in Nat /\ (Len(fields) = 0 <=> fields = <<>>)
    BY EmptySeq, LenProperties
  <2>5. CASE fields = <<>>
    <3>1. Separated(Len(fields) + 1, f) = FieldText(f)
      <4>1. Len(fields) + 1 = 1
        BY <2>4, <2>5
      <4>2. QED
        BY <4>1, SeparatedIs
    <3>2. <<>> \o FieldText(f) = FieldText(f)
      BY FieldIsText, ConcatEmptySeq
    <3>3. FieldsText(Append(fields, f)) = FieldText(f)
      BY <2>3, <2>5, <3>1, <3>2, FieldsTextNothing
    <3>4. Map(FieldBy, Append(fields, f)) = Append(<<>>, FieldTokens(f))
      BY <2>2, <2>5, MapNothing
    <3>5. Ending(Feed(s, FieldText(f)), l, w, Append(<<>>, FieldTokens(f)))
      BY FieldFollows
    <3>6. Good(Append(fields, f))
      BY <3>3, <3>4, <3>5
    <3>7. QED
      BY <2>1, <3>6
  <2>6. CASE fields # <<>>
    <3>1. Separated(Len(fields) + 1, f) = <<",">> \o FieldText(f)
      <4>1. Len(fields) + 1 \in Nat /\ Len(fields) + 1 > 1
        BY <2>4, <2>6
      <4>2. QED
        BY <4>1, SeparatedIs
    <3> DEFINE a == Feed(s, FieldsText(fields))
               x == FieldsText(fields)
               y == <<",">> \o FieldText(f)
    <3>2. x \in Seq(Char) /\ y \in Seq(Char)
      BY FieldsTextIsText, FieldIsText
    <3>3. Ending(a, l, w, Map(FieldBy, fields))
      BY <1>2, <2>6
    <3>4. Feed(s, FieldsText(Append(fields, f))) = Feed(a, y)
      <4> HIDE DEF s, x, y
      <4>1. Feed(s, x \o y) = Feed(Feed(s, x), y)
        BY <3>2, FeedBoth
      <4>2. QED
        BY <2>3, <3>1, <4>1 DEF x, y
    <3> HIDE DEF a
    <3>5. Lex(a, ",") = At(l, w, Map(FieldBy, fields), <<>>, <<>>)
      BY <3>3, ItemEnds
    <3>6. Feed(a, y) = Feed(Lex(a, ","), FieldText(f))
      <4>1. "," \in Char
        BY DEF Char, Written
      <4>2. FieldText(f) \in Seq(Char)
        BY FieldIsText
      <4>3. QED
        BY <4>1, <4>2, FeedFirst
    <3>7. Ending(Feed(At(l, w, Map(FieldBy, fields), <<>>, <<>>), FieldText(f)), l, w,
                 Append(Map(FieldBy, fields), FieldTokens(f)))
      BY FieldFollows
    <3>8. Good(Append(fields, f))
      BY <2>2, <3>4, <3>5, <3>6, <3>7
    <3>9. QED
      BY <2>1, <3>8
  <2>7. QED
    BY <2>5, <2>6
<1> HIDE DEF T
<1>3. Seq(FieldSet) \subseteq T
  BY <1>1, <1>2, SeqInduct
<1>4. QED
  BY <1>3 DEF T

-----------------------------------------------------------------------------
(* A line *)

\* The lines that can be written, an empty time for none
LineSet ==
    [measurement : Name, tags : Seq(TagSet), fields : Seq(FieldSet) \ {<<>>},
     time : Numeral \union {<<>>}]

LineText(x) == Line(x.measurement, x.tags, x.fields, x.time)

\* What is written for the time
TimeText(time) == IF time = <<>> THEN <<>> ELSE <<" ">> \o time

\* The words of a line
Words(head, body, time) ==
    IF time = <<>> THEN <<head, body>> ELSE <<head, body, <<<<Map(RawBy, time)>>>>>>
LineWords(x) == Words(HeadOf(x.measurement, x.tags), Map(FieldBy, x.fields), x.time)

\* A time is the text of a number.
LEMMA TimeIsText ==
    ASSUME NEW time \in Numeral
    PROVE  time \in Seq(Digits) /\ time \in Seq(Char) /\ time # <<>>
<1>1. Digit \subseteq Digits /\ Digit \subseteq Char
  BY DEF Digits, Char, Written
<1>2. Seq(Digit) \subseteq Seq(Digits) /\ Seq(Digit) \subseteq Seq(Char)
  BY <1>1, SeqMonotonic
<1>3. QED
  BY <1>2 DEF Numeral

\* The characters between words and lines are texts.
LEMMA BreakIsText == <<" ">> \in Seq(Char) /\ <<"\n">> \in Seq(Char)
<1>1. " " \in Char /\ "\n" \in Char
  BY DEF Char, Written
<1>2. QED
  BY <1>1, OneOrTwo

\* Two elements and one more are three.
LEMMA AppendTwo == ASSUME NEW a, NEW b, NEW c PROVE Append(<<a, b>>, c) = <<a, b, c>>
<1> DEFINE S == {a, b, c}
<1>1. a \in S /\ b \in S /\ c \in S
  OBVIOUS
<1> HIDE DEF S
<1>2. <<a, b>> \in Seq(S) /\ Len(<<a, b>>) = 2 /\ <<a, b>>[1] = a /\ <<a, b>>[2] = b
  BY <1>1
<1>3. /\ Append(<<a, b>>, c) \in Seq(S) /\ Len(Append(<<a, b>>, c)) = 3
      /\ Append(<<a, b>>, c)[1] = a /\ Append(<<a, b>>, c)[2] = b /\ Append(<<a, b>>, c)[3] = c
  BY <1>1, <1>2, AppendProperties
<1>4. /\ <<a, b, c>> \in Seq(S) /\ Len(<<a, b, c>>) = 3
      /\ <<a, b, c>>[1] = a /\ <<a, b, c>>[2] = b /\ <<a, b, c>>[3] = c
  BY <1>1
<1>5. \A i \in 1 .. 3 : i = 1 \/ i = 2 \/ i = 3
  OBVIOUS
<1>6. QED
  BY <1>3, <1>4, <1>5, SeqEqual

\* The last character of a text is read from where the ones before it leave the reader.
LEMMA FeedLast ==
    ASSUME NEW S, NEW c \in S, NEW base
    PROVE  \A text \in Seq(S) : Feed(base, text \o <<c>>) = Lex(Feed(base, text), c)
<1> SUFFICES ASSUME NEW text \in Seq(S) PROVE Feed(base, text \o <<c>>) = Lex(Feed(base, text), c)
  OBVIOUS
<1>1. PICK x \in Seq(S) : x = <<c>>
  BY OneOrTwo
<1>2. Feed(base, text \o x) = Feed(Feed(base, text), x)
  BY FeedBoth
<1>3. \A b : Feed(b, x) = Lex(b, c)
  BY <1>1, FeedOne
<1>4. QED
  BY <1>1, <1>2, <1>3

\* The time, if there is one, is read as the third word, and the newline ends the line.
LEMMA TimeIsRead ==
    ASSUME NEW l, NEW head, NEW body, NEW time \in Numeral \union {<<>>}, NEW text \in Seq(Char), NEW base,
           Ending(Feed(base, text), l, <<head>>, body)
    PROVE  Feed(base, text \o TimeText(time) \o <<"\n">>)
             = At(Append(l, Words(head, body, time)), <<>>, <<>>, <<>>, <<>>)
<1> DEFINE w == <<head>>
           s == Feed(base, text)
<1>1. Append(w, body) = <<head, body>>
  BY AppendOne
<1>2. "\n" \in Char /\ " " \in Char /\ <<" ">> \in Seq(Char)
  BY BreakIsText DEF Char, Written
<1>3. CASE time = <<>>
  <2>1. text \o <<>> = text
    BY ConcatEmptySeq
  <2>2. Feed(base, text \o <<"\n">>) = Lex(s, "\n")
    BY <1>2, FeedLast
  <2>3. Lex(s, "\n") = At(Append(l, Append(w, body)), <<>>, <<>>, <<>>, <<>>)
    <3>1. Ending(s, l, w, body)
      OBVIOUS
    <3> HIDE DEF w, s
    <3>2. QED
      BY <3>1, LineEnds
  <2>4. TimeText(time) = <<>> /\ Words(head, body, time) = <<head, body>>
    BY <1>3 DEF TimeText, Words
  <2>5. QED
    BY <1>1, <2>1, <2>2, <2>3, <2>4
<1>4. CASE time # <<>>
  <2> DEFINE t == Map(RawBy, time)
             v == <<head, body>>
  <2>1. time \in Seq(Digits) /\ time \in Seq(Char)
    BY <1>4, TimeIsText
  <2>2. Feed(base, text \o (<<" ">> \o time)) = Feed(s, <<" ">> \o time) /\ text \o (<<" ">> \o time) \in Seq(Char)
    <3> DEFINE y == <<" ">> \o time
    <3>1. y \in Seq(Char)
      BY <1>2, <2>1, ConcatProperties
    <3> HIDE DEF y
    <3>2. Feed(base, text \o y) = Feed(Feed(base, text), y) /\ text \o y \in Seq(Char)
      BY <3>1, FeedBoth, ConcatProperties
    <3>3. QED
      BY <3>2 DEF y
  <2>3. Feed(s, <<" ">> \o time) = Feed(Lex(s, " "), time)
    BY <1>2, <2>1, FeedFirst
  <2>4. Lex(s, " ") = At(l, v, <<>>, <<>>, <<>>)
    <3>1. Ending(s, l, w, body) /\ Append(w, body) = v
      BY <1>1
    <3> HIDE DEF w, v, s
    <3>2. Lex(s, " ") = At(l, Append(w, body), <<>>, <<>>, <<>>)
      BY <3>1, WordEnds
    <3>3. QED
      BY <3>1, <3>2
  <2> HIDE DEF v
  <2>5. Feed(At(l, v, <<>>, <<>>, <<>>), time) = At(l, v, <<>>, <<>>, t)
    BY <2>1, DigitsAreRead
  <2> DEFINE all == text \o (<<" ">> \o time)
  <2>6. Feed(base, all) = At(l, v, <<>>, <<>>, t)
    BY <2>2, <2>3, <2>4, <2>5
  <2>7. Feed(base, all \o <<"\n">>) = Lex(Feed(base, all), "\n")
    <3>1. all \in Seq(Char)
      BY <2>2
    <3> HIDE DEF all
    <3>2. QED
      BY <1>2, <3>1, FeedLast
  <2>8. Ending(At(l, v, <<>>, <<>>, t), l, v, <<<<t>>>>)
    <3> HIDE DEF t
    <3>1. Append(<<>>, Append(<<>>, t)) = <<<<t>>>>
      OBVIOUS
    <3>2. QED
      BY <3>1 DEF Ending
  <2> DEFINE last == <<<<t>>>>
  <2>9. Lex(At(l, v, <<>>, <<>>, t), "\n") = At(Append(l, Append(v, last)), <<>>, <<>>, <<>>, <<>>)
    <3> HIDE DEF last, t
    <3>1. Ending(At(l, v, <<>>, <<>>, t), l, v, last)
      BY <2>8 DEF last
    <3>2. QED
      BY <3>1, LineEnds
  <2>10. Append(v, last) = <<head, body, last>>
    <3> HIDE DEF last
    <3>1. QED
      BY AppendTwo DEF v
  <2>11. Feed(base, all \o <<"\n">>) = At(Append(l, <<head, body, last>>), <<>>, <<>>, <<>>, <<>>)
    BY <2>6, <2>7, <2>9, <2>10
  <2>12. TimeText(time) = <<" ">> \o time /\ Words(head, body, time) = <<head, body, last>>
    BY <1>4 DEF TimeText, Words
  <2>13. QED
    BY <2>11, <2>12
<1>5. QED
  BY <1>3, <1>4

\* A line is read as its words, after whatever lines, and the reader is ready for the next.
LEMMA LineIsRead ==
    ASSUME NEW l
    PROVE  \A x \in LineSet : /\ LineText(x) \in Seq(Char)
                              /\ Feed(At(l, <<>>, <<>>, <<>>, <<>>), LineText(x))
                                   = At(Append(l, LineWords(x)), <<>>, <<>>, <<>>, <<>>)
<1> SUFFICES ASSUME NEW x \in LineSet
             PROVE  /\ LineText(x) \in Seq(Char)
                    /\ Feed(At(l, <<>>, <<>>, <<>>, <<>>), LineText(x))
                         = At(Append(l, LineWords(x)), <<>>, <<>>, <<>>, <<>>)
  OBVIOUS
<1> DEFINE s == At(l, <<>>, <<>>, <<>>, <<>>)
           u == writeEscaped(x.measurement, "measurement") \o TagsText(x.tags)
           f == FieldsText(x.fields)
           end == TimeText(x.time)
           head == HeadOf(x.measurement, x.tags)
           body == Map(FieldBy, x.fields)
<1>1. /\ x.measurement \in Name /\ x.tags \in Seq(TagSet)
      /\ x.fields \in Seq(FieldSet) /\ x.fields # <<>> /\ x.time \in Numeral \union {<<>>}
  BY DEF LineSet
<1>2. u \in Seq(Char)
  <2>1. TagsText(x.tags) \in Seq(Char)
    BY <1>1, TagsTextIs, FlatIsSeq
  <2>2. writeEscaped(x.measurement, "measurement") \in Seq(Char)
    BY <1>1, NameIsText, EscapedIsSeq
  <2>3. QED
    BY <2>1, <2>2, ConcatProperties
<1>3. f \in Seq(Char) /\ end \in Seq(Char) /\ <<" ">> \in Seq(Char) /\ <<"\n">> \in Seq(Char)
  <2>1. f \in Seq(Char)
    BY <1>1, FieldsTextIsText
  <2>2. ASSUME x.time # <<>> PROVE <<" ">> \o x.time \in Seq(Char)
    BY <1>1, <2>2, TimeIsText, BreakIsText, ConcatProperties
  <2>3. <<>> \in Seq(Char)
    BY EmptySeq
  <2>4. end \in Seq(Char)
    BY <2>2, <2>3 DEF TimeText
  <2>5. QED
    BY <2>1, <2>4, BreakIsText
<1>4. LineText(x) = u \o <<" ">> \o f \o end \o <<"\n">>
  BY DEF LineText, Line, TimeText
<1>5. Ending(Feed(s, u), l, <<>>, head)
  BY <1>1, TagsAreRead
<1>6. Feed(s, u \o <<" ">>) = At(l, <<head>>, <<>>, <<>>, <<>>) /\ u \o <<" ">> \in Seq(Char)
  <2> HIDE DEF s, u, head
  <2>1. " " \in Char
    BY DEF Char, Written
  <2>2. Feed(s, u \o <<" ">>) = Lex(Feed(s, u), " ")
    BY <1>2, <2>1, FeedLast
  <2>3. Lex(Feed(s, u), " ") = At(l, Append(<<>>, head), <<>>, <<>>, <<>>)
    BY <1>5, WordEnds
  <2>4. Append(<<>>, head) = <<head>>
    OBVIOUS
  <2>5. u \o <<" ">> \in Seq(Char)
    BY <1>2, <1>3, ConcatProperties
  <2>6. QED
    BY <2>2, <2>3, <2>4, <2>5
<1> DEFINE a == u \o <<" ">>
           w == <<head>>
<1>7. Ending(Feed(s, a \o f), l, w, body) /\ a \o f \in Seq(Char)
  <2>1. Len(w) = 1 /\ w # <<>>
    <3> HIDE DEF head
    <3>1. QED
      OBVIOUS
  <2>2. a \in Seq(Char) /\ Feed(s, a) = At(l, w, <<>>, <<>>, <<>>)
    BY <1>6
  <2> HIDE DEF a, s, w
  <2>3. Ending(Feed(At(l, w, <<>>, <<>>, <<>>), FieldsText(x.fields)), l, w, body)
    BY <1>1, <2>1, FieldsAreRead
  <2> HIDE DEF body
  <2>4. f \in Seq(Char)
    BY <1>3
  <2> HIDE DEF f, end, u
  <2>5. Feed(s, a \o f) = Feed(Feed(s, a), f)
    BY <2>2, <2>4, FeedBoth
  <2>6. a \o f \in Seq(Char)
    BY <2>2, <2>4, ConcatProperties
  <2>7. QED
    BY <2>2, <2>3, <2>5, <2>6 DEF f
<1>8. Feed(s, a \o f \o end \o <<"\n">>) = At(Append(l, LineWords(x)), <<>>, <<>>, <<>>, <<>>)
  <2> DEFINE text == a \o f
             time == x.time
  <2>1. text \in Seq(Char) /\ Ending(Feed(s, text), l, <<head>>, body) /\ time \in Numeral \union {<<>>}
    BY <1>1, <1>7
  <2>2. LineWords(x) = Words(head, body, time)
    BY DEF LineWords
  <2> HIDE DEF s, head, body, text, time, w, u, f, a
  <2>3. Feed(s, text \o TimeText(time) \o <<"\n">>)
          = At(Append(l, Words(head, body, time)), <<>>, <<>>, <<>>, <<>>)
    BY <2>1, TimeIsRead
  <2>4. QED
    BY <2>2, <2>3 DEF text, time
<1>9. a \o f \o end \o <<"\n">> \in Seq(Char)
  BY <1>3, <1>7, ConcatProperties
<1>10. QED
  BY <1>4, <1>8, <1>9

-----------------------------------------------------------------------------
(* What a line means, and the text of some lines *)

\* What is meant by a line
PairsOf(tags) == {<<tags[i].key, tags[i].value>> : i \in DOMAIN tags}
LineMeaning(x) == MeantLine(x.measurement, PairsOf(x.tags), x.fields, x.time)

\* The items of the first word.
LEMMA HeadIs ==
    ASSUME NEW m, NEW tags \in Seq(TagSet)
    PROVE  /\ Len(HeadOf(m, tags)) = Len(tags) + 1
           /\ HeadOf(m, tags)[1] = <<Map(PlainBy("measurement"), m)>>
           /\ \A i \in 1 .. Len(tags) : tags[i] \in TagSet /\ HeadOf(m, tags)[i + 1] = PairTokens(tags[i])
<1> DEFINE h == <<Map(PlainBy("measurement"), m)>>
           n == Len(tags) + 1
           x == [i \in 1 .. n |-> IF i = 1 THEN h ELSE PairTokens(tags[i - 1])]
<1>1. Len(tags) \in Nat /\ \A i \in 1 .. Len(tags) : tags[i] \in TagSet
  BY LenProperties, ElementOfSeq
<1>2. HeadOf(m, tags) = x
  BY DEF HeadOf
<1> HIDE DEF h
<1>3. n \in Nat
  BY <1>1
<1>4. DOMAIN x = 1 .. n /\ x[1] = h
  BY <1>1
<1>5. Len(x) = n
  BY <1>3, <1>4
<1>6. ASSUME NEW i \in 1 .. Len(tags) PROVE x[i + 1] = PairTokens(tags[i])
  <2>1. i + 1 \in 1 .. n /\ i + 1 # 1 /\ (i + 1) - 1 = i
    BY <1>1
  <2>2. QED
    BY <2>1
<1> HIDE DEF x
<1>7. QED
  BY <1>1, <1>2, <1>4, <1>5, <1>6 DEF h

\* The tokens of a tag spell its key and its value.
LEMMA PairIs == \A t \in TagSet : /\ Len(PairTokens(t)) = 2
                                  /\ Text(PairTokens(t)[1]) = t.key /\ Text(PairTokens(t)[2]) = t.value
<1> SUFFICES ASSUME NEW t \in TagSet
             PROVE  /\ Len(PairTokens(t)) = 2
                    /\ Text(PairTokens(t)[1]) = t.key /\ Text(PairTokens(t)[2]) = t.value
  OBVIOUS
<1>1. t.key \in Seq(Char) /\ t.value \in Seq(Char)
  BY NameIsText DEF TagSet
<1>2. Text(NameTokens(t.key)) = t.key /\ Text(NameTokens(t.value)) = t.value
  BY <1>1, NameText DEF NameTokens
<1> DEFINE a == NameTokens(t.key)
           b == NameTokens(t.value)
<1> HIDE DEF a, b
<1>3. Len(<<a, b>>) = 2 /\ <<a, b>>[1] = a /\ <<a, b>>[2] = b
  OBVIOUS
<1>4. PairTokens(t) = <<a, b>>
  BY DEF PairTokens, a, b
<1>5. QED
  BY <1>2, <1>3, <1>4 DEF a, b

\* The tokens of a field spell its key and mean its value.
LEMMA FieldIs == \A f \in FieldSet : /\ Len(FieldTokens(f)) = 2
                                     /\ Text(FieldTokens(f)[1]) = f.key
                                     /\ ReadValue(FieldTokens(f)[2]) = Meant(f.value)
<1> SUFFICES ASSUME NEW f \in FieldSet
             PROVE  /\ Len(FieldTokens(f)) = 2
                    /\ Text(FieldTokens(f)[1]) = f.key
                    /\ ReadValue(FieldTokens(f)[2]) = Meant(f.value)
  OBVIOUS
<1>1. f.key \in Seq(Char) /\ f.value \in Values
  BY NameIsText DEF FieldSet
<1>2. Text(NameTokens(f.key)) = f.key /\ ReadValue(ValueTokens(f.value)) = Meant(f.value)
  BY <1>1, NameText, ValueMeans DEF NameTokens
<1> DEFINE a == NameTokens(f.key)
           b == ValueTokens(f.value)
<1> HIDE DEF a, b
<1>3. Len(<<a, b>>) = 2 /\ <<a, b>>[1] = a /\ <<a, b>>[2] = b
  OBVIOUS
<1>4. FieldTokens(f) = <<a, b>>
  BY DEF FieldTokens, a, b
<1>5. QED
  BY <1>2, <1>3, <1>4 DEF a, b

\* The first word is understood as the measurement and the tags.
LEMMA HeadMeans ==
    ASSUME NEW m \in Name, NEW tags \in Seq(TagSet), NEW head, head = HeadOf(m, tags)
    PROVE  /\ Len(head[1]) = 1 /\ \A i \in 2 .. Len(head) : Len(head[i]) = 2
           /\ Text(head[1][1]) = m
           /\ {<<Text(head[i][1]), Text(head[i][2])>> : i \in 2 .. Len(head)} = PairsOf(tags)
<1>1. /\ Len(head) = Len(tags) + 1 /\ Len(tags) \in Nat /\ DOMAIN tags = 1 .. Len(tags)
      /\ \A i \in 1 .. Len(tags) : tags[i] \in TagSet /\ head[i + 1] = PairTokens(tags[i])
  BY HeadIs, LenProperties
<1>2. \A i \in 1 .. Len(tags) : /\ Len(head[i + 1]) = 2
                                /\ Text(head[i + 1][1]) = tags[i].key /\ Text(head[i + 1][2]) = tags[i].value
  BY <1>1, PairIs
<1>3. \A i \in 2 .. Len(head) : i - 1 \in 1 .. Len(tags) /\ (i - 1) + 1 = i
  BY <1>1
<1>4. \A i \in 1 .. Len(tags) : i + 1 \in 2 .. Len(head)
  BY <1>1
<1>5. \A i \in 2 .. Len(head) : /\ Len(head[i]) = 2
                                /\ Text(head[i][1]) = tags[i - 1].key /\ Text(head[i][2]) = tags[i - 1].value
  BY <1>2, <1>3
<1>6. {<<Text(head[i][1]), Text(head[i][2])>> : i \in 2 .. Len(head)} = PairsOf(tags)
  <2> DEFINE A == {<<Text(head[i][1]), Text(head[i][2])>> : i \in 2 .. Len(head)}
             B == {<<tags[i].key, tags[i].value>> : i \in 1 .. Len(tags)}
  <2>1. ASSUME NEW p \in A PROVE p \in B
    <3>1. PICK i \in 2 .. Len(head) : p = <<Text(head[i][1]), Text(head[i][2])>>
      OBVIOUS
    <3>2. p = <<tags[i - 1].key, tags[i - 1].value>>
      BY <1>5, <3>1
    <3>3. QED
      BY <1>3, <3>2
  <2>2. ASSUME NEW p \in B PROVE p \in A
    <3>1. PICK i \in 1 .. Len(tags) : p = <<tags[i].key, tags[i].value>>
      OBVIOUS
    <3>2. p = <<Text(head[i + 1][1]), Text(head[i + 1][2])>>
      BY <1>2, <3>1
    <3>3. QED
      BY <1>4, <3>2
  <2>3. PairsOf(tags) = B
    BY <1>1 DEF PairsOf
  <2> HIDE DEF A, B
  <2>4. A = B
    BY <2>1, <2>2
  <2>5. QED
    BY <2>3, <2>4 DEF A
<1>7. Len(head[1]) = 1 /\ Text(head[1][1]) = m
  <2> DEFINE t == Map(PlainBy("measurement"), m)
  <2>1. Text(t) = m
    BY NameIsText, NameText
  <2>2. head[1] = <<t>>
    BY HeadIs
  <2> HIDE DEF t
  <2>3. Len(<<t>>) = 1 /\ <<t>>[1] = t
    OBVIOUS
  <2>4. QED
    BY <2>1, <2>2, <2>3
<1>8. QED
  BY <1>5, <1>6, <1>7

\* The second word is understood as the fields.
LEMMA FieldsMean ==
    ASSUME NEW fields \in Seq(FieldSet), NEW body, body = Map(FieldBy, fields)
    PROVE  /\ \A i \in DOMAIN body : Len(body[i]) = 2
           /\ [i \in DOMAIN body |-> <<Text(body[i][1]), ReadValue(body[i][2])>>]
                = [i \in DOMAIN fields |-> <<fields[i].key, Meant(fields[i].value)>>]
<1>1. /\ DOMAIN body = DOMAIN fields /\ DOMAIN fields = 1 .. Len(fields)
      /\ \A i \in 1 .. Len(fields) : fields[i] \in FieldSet /\ body[i] = FieldBy[fields[i]]
  BY MapIs, LenProperties
<1>2. \A i \in 1 .. Len(fields) : body[i] = FieldTokens(fields[i])
  BY <1>1 DEF FieldBy
<1>3. \A i \in 1 .. Len(fields) : /\ Len(body[i]) = 2 /\ Text(body[i][1]) = fields[i].key
                                  /\ ReadValue(body[i][2]) = Meant(fields[i].value)
  BY <1>1, <1>2, FieldIs
<1>4. QED
  BY <1>1, <1>3

\* The words of a line, one by one.
LEMMA WordsAre ==
    ASSUME NEW head, NEW body, NEW time
    PROVE  /\ Words(head, body, time)[1] = head /\ Words(head, body, time)[2] = body
           /\ time = <<>> => Len(Words(head, body, time)) = 2
           /\ time # <<>> => Len(Words(head, body, time)) = 3
           /\ time # <<>> => Words(head, body, time)[3] = <<<<Map(RawBy, time)>>>>
<1> DEFINE last == <<<<Map(RawBy, time)>>>>
<1> HIDE DEF last
<1>1. Words(head, body, time) = IF time = <<>> THEN <<head, body>> ELSE <<head, body, last>>
  BY DEF Words, last
<1>2. /\ Len(<<head, body>>) = 2 /\ <<head, body>>[1] = head /\ <<head, body>>[2] = body
      /\ Len(<<head, body, last>>) = 3 /\ <<head, body, last>>[1] = head
      /\ <<head, body, last>>[2] = body /\ <<head, body, last>>[3] = last
  OBVIOUS
<1>3. QED
  BY <1>1, <1>2 DEF last

\* The third word is understood as the time.
LEMMA TimeMeans ==
    ASSUME NEW time \in Numeral \union {<<>>}, NEW words,
           time = <<>> => Len(words) = 2, time # <<>> => Len(words) = 3,
           time # <<>> => words[3] = <<<<Map(RawBy, time)>>>>
    PROVE  /\ \A i \in 3 .. Len(words) : Len(words[i]) = 1 /\ Len(words[i][1]) = 1
           /\ (IF Len(words) = 3 THEN Text(words[3][1][1]) ELSE <<>>) = time
<1>1. CASE time = <<>>
  <2>1. Len(words) = 2
    BY <1>1
  <2>2. Len(words) # 3 /\ \A i \in 3 .. Len(words) : FALSE
    BY <2>1
  <2>3. QED
    BY <1>1, <2>2
<1>2. CASE time # <<>>
  <2> DEFINE t == Map(RawBy, time)
  <2>1. Text(t) = time
    BY <1>2, TimeIsText, DigitsText
  <2>2. words[3] = <<<<t>>>> /\ Len(words) = 3
    BY <1>2
  <2> HIDE DEF t
  <2>3. Len(<<<<t>>>>) = 1 /\ <<<<t>>>>[1] = <<t>> /\ Len(<<t>>) = 1 /\ <<t>>[1] = t
    OBVIOUS
  <2>4. \A i \in 3 .. Len(words) : i = 3
    BY <2>2
  <2>5. QED
    BY <2>1, <2>2, <2>3, <2>4
<1>3. QED
  BY <1>1, <1>2

\* The words of a line are understood as the line that is meant.
LEMMA LineMeans == \A x \in LineSet : ReadLine(LineWords(x)) = LineMeaning(x)
<1> SUFFICES ASSUME NEW x \in LineSet PROVE ReadLine(LineWords(x)) = LineMeaning(x)
  OBVIOUS
<1>1. /\ x.measurement \in Name /\ x.tags \in Seq(TagSet)
      /\ x.fields \in Seq(FieldSet) /\ x.time \in Numeral \union {<<>>}
  BY DEF LineSet
<1> DEFINE words == LineWords(x)
           head == HeadOf(x.measurement, x.tags)
           body == Map(FieldBy, x.fields)
<1>2. /\ words[1] = head /\ words[2] = body
      /\ x.time = <<>> => Len(words) = 2
      /\ x.time # <<>> => Len(words) = 3
      /\ x.time # <<>> => words[3] = <<<<Map(RawBy, x.time)>>>>
  <2> DEFINE time == x.time
  <2>1. words = Words(head, body, time)
    BY DEF LineWords
  <2> HIDE DEF words, head, body, time
  <2>2. QED
    BY <2>1, WordsAre DEF time
<1>3. /\ \A i \in 3 .. Len(words) : Len(words[i]) = 1 /\ Len(words[i][1]) = 1
      /\ (IF Len(words) = 3 THEN Text(words[3][1][1]) ELSE <<>>) = x.time
  <2> HIDE DEF words
  <2>1. QED
    BY <1>1, <1>2, TimeMeans
<1>4. /\ Len(head[1]) = 1 /\ \A i \in 2 .. Len(head) : Len(head[i]) = 2
      /\ Text(head[1][1]) = x.measurement
      /\ {<<Text(head[i][1]), Text(head[i][2])>> : i \in 2 .. Len(head)} = PairsOf(x.tags)
  BY <1>1, HeadMeans
<1>5. /\ \A i \in DOMAIN body : Len(body[i]) = 2
      /\ [i \in DOMAIN body |-> <<Text(body[i][1]), ReadValue(body[i][2])>>]
           = [i \in DOMAIN x.fields |-> <<x.fields[i].key, Meant(x.fields[i].value)>>]
  BY <1>1, FieldsMean
<1>6. Len(words) \in {2, 3}
  BY <1>2
<1> HIDE DEF words, head, body
<1>7. ReadLine(words)
        = [measurement |-> Text(head[1][1]),
           tags        |-> {<<Text(head[i][1]), Text(head[i][2])>> : i \in 2 .. Len(head)},
           fields      |-> [i \in DOMAIN body |-> <<Text(body[i][1]), ReadValue(body[i][2])>>],
           time        |-> IF Len(words) = 3 THEN Text(words[3][1][1]) ELSE <<>>]
  BY <1>2, <1>3, <1>4, <1>5, <1>6 DEF ReadLine
<1>8. ReadLine(words)
        = [measurement |-> x.measurement, tags |-> PairsOf(x.tags),
           fields |-> [i \in DOMAIN x.fields |-> <<x.fields[i].key, Meant(x.fields[i].value)>>],
           time |-> x.time]
  BY <1>3, <1>4, <1>5, <1>7
<1>9. QED
  BY <1>8 DEF LineMeaning, MeantLine, words

\* The text of some lines
LineTextBy == [x \in LineSet |-> LineText(x)]
LineWordsBy == [x \in LineSet |-> LineWords(x)]
BatchText(lines) == FlattenSeq(Map(LineTextBy, lines))

\* One line more is written after those before it.
LEMMA BatchOneMore ==
    ASSUME NEW lines \in Seq(LineSet), NEW x \in LineSet
    PROVE  /\ BatchText(lines) \in Seq(Char)
           /\ BatchText(Append(lines, x)) = BatchText(lines) \o LineText(x)
<1> DEFINE texts == Map(LineTextBy, lines)
<1>1. LineText(x) \in Seq(Char) /\ \A y \in LineSet : LineTextBy[y] \in Seq(Char)
  BY LineIsRead DEF LineTextBy
<1>2. texts \in Seq(Seq(Char))
  <2>1. \A ys \in Seq(LineSet) : Map(LineTextBy, ys) \in Seq(Seq(Char))
    BY <1>1, MapIsSeq
  <2>2. QED
    BY <2>1
<1>3. Map(LineTextBy, Append(lines, x)) = Append(texts, LineText(x))
  <2>1. LineTextBy[x] = LineText(x)
    BY DEF LineTextBy
  <2>2. QED
    BY <2>1, MapOneMore
<1> HIDE DEF texts
<1>4. FlattenSeq(Append(texts, LineText(x))) = FlattenSeq(texts) \o LineText(x)
  BY <1>1, <1>2, FlatOneMore
<1>5. FlattenSeq(texts) \in Seq(Char)
  BY <1>2, FlatIsSeq
<1>6. QED
  BY <1>3, <1>4, <1>5 DEF BatchText, texts

\* Whatever the lines, the reader finds each of them, and nothing else.
LEMMA LinesAreRead ==
    \A lines \in Seq(LineSet) :
        Feed(At(<<>>, <<>>, <<>>, <<>>, <<>>), BatchText(lines))
            = At(Map(LineWordsBy, lines), <<>>, <<>>, <<>>, <<>>)
<1> DEFINE s == At(<<>>, <<>>, <<>>, <<>>, <<>>)
           T == {lines \in Seq(LineSet) :
                    Feed(s, BatchText(lines)) = At(Map(LineWordsBy, lines), <<>>, <<>>, <<>>, <<>>)}
<1>1. <<>> \in T
  <2>1. BatchText(<<>>) = <<>>
    BY MapNothing, FlatNothing DEF BatchText
  <2>2. Map(LineWordsBy, <<>>) = <<>>
    BY MapNothing
  <2>3. Feed(s, <<>>) = s
    BY FeedNothing
  <2>4. <<>> \in Seq(LineSet)
    BY EmptySeq
  <2>5. QED
    BY <2>1, <2>2, <2>3, <2>4
<1>2. ASSUME NEW lines \in Seq(LineSet), NEW x \in LineSet, lines \in T PROVE Append(lines, x) \in T
  <2> DEFINE l == Map(LineWordsBy, lines)
  <2>1. Append(lines, x) \in Seq(LineSet)
    BY AppendProperties
  <2>2. LineTextBy[x] = LineText(x) /\ LineWordsBy[x] = LineWords(x)
    BY DEF LineTextBy, LineWordsBy
  <2>3. Map(LineWordsBy, Append(lines, x)) = Append(l, LineWords(x))
    BY <2>2, MapOneMore
  <2>4. LineText(x) \in Seq(Char)
    BY LineIsRead
  <2>5. BatchText(Append(lines, x)) = BatchText(lines) \o LineText(x) /\ BatchText(lines) \in Seq(Char)
    BY BatchOneMore
  <2>6. Feed(s, BatchText(lines) \o LineText(x)) = Feed(Feed(s, BatchText(lines)), LineText(x))
    <3> HIDE DEF s
    <3>1. QED
      BY <2>4, <2>5, FeedBoth
  <2>7. Feed(s, BatchText(lines)) = At(l, <<>>, <<>>, <<>>, <<>>)
    BY <1>2
  <2> HIDE DEF l, s
  <2>8. Feed(At(l, <<>>, <<>>, <<>>, <<>>), LineText(x)) = At(Append(l, LineWords(x)), <<>>, <<>>, <<>>, <<>>)
    BY LineIsRead
  <2>9. QED
    BY <2>1, <2>3, <2>5, <2>6, <2>7, <2>8
<1> HIDE DEF T
<1>3. Seq(LineSet) \subseteq T
  BY <1>1, <1>2, SeqInduct
<1>4. QED
  BY <1>3 DEF T

\* The text of a batch says what was written (lineproto.go 58-215): for any number of
\* lines with any measurements, tags, fields and times, whatever delimiters, quotes and
\* backslashes are in the names and whatever is in the strings, the reader finds these
\* lines in this order with the names and values that are meant, and no others. Only a
\* newline in a name is excluded. BatchReadsBack checks this for two names.
THEOREM BatchTextReadsBack ==
    \A lines \in Seq(LineSet) :
        Read(BatchText(lines)) = [i \in DOMAIN lines |-> LineMeaning(lines[i])]
<1> SUFFICES ASSUME NEW lines \in Seq(LineSet)
             PROVE  Read(BatchText(lines)) = [i \in DOMAIN lines |-> LineMeaning(lines[i])]
  OBVIOUS
<1> DEFINE words == Map(LineWordsBy, lines)
<1>1. Start = At(<<>>, <<>>, <<>>, <<>>, <<>>)
  BY DEF Start, At
<1>2. Feed(Start, BatchText(lines)) = At(words, <<>>, <<>>, <<>>, <<>>)
  BY <1>1, LinesAreRead
<1>3. Feed(Start, BatchText(lines)).lines = words
  <2> HIDE DEF words
  <2>1. At(words, <<>>, <<>>, <<>>, <<>>).lines = words
    BY DEF At
  <2>2. QED
    BY <1>2, <2>1
<1>4. /\ DOMAIN words = DOMAIN lines
      /\ \A i \in DOMAIN lines : lines[i] \in LineSet /\ words[i] = LineWordsBy[lines[i]]
  BY MapIs, LenProperties
<1>5. \A i \in DOMAIN lines : ReadLine(words[i]) = LineMeaning(lines[i])
  BY <1>4, LineMeans DEF LineWordsBy
<1> HIDE DEF words
<1>6. Read(BatchText(lines)) = [i \in DOMAIN words |-> ReadLine(words[i])]
  BY <1>3 DEF Read, Feed
<1>7. QED
  BY <1>4, <1>5, <1>6

-----------------------------------------------------------------------------
(* The encoder *)

\* What Point has to do with: names without a newline, values that are written, a time
Readable(base, p) ==
    /\ p.measurement \in Name /\ p.time \in Numeral \union {<<>>}
    /\ Tags(base, p.tags) \in Seq(TagSet)
    /\ SelectSeq(p.fields, fieldValid) \in Seq(FieldSet)

Writes(p) == p.measurement # <<>> /\ SelectSeq(p.fields, fieldValid) # <<>>

LineOf(base, p) ==
    [measurement |-> p.measurement, tags |-> Tags(base, p.tags),
     fields |-> SelectSeq(p.fields, fieldValid), time |-> p.time]

\* The encoder after some lines
Holding(base, lines) == [buf |-> BatchText(lines), points |-> Len(lines), base |-> base]

\* A point adds its line, or nothing.
LEMMA PointWrites ==
    ASSUME NEW base, NEW lines \in Seq(LineSet), NEW p, Readable(base, p)
    PROVE  IF Writes(p)
           THEN /\ LineOf(base, p) \in LineSet
                /\ Point(Holding(base, lines), p) = Holding(base, Append(lines, LineOf(base, p)))
           ELSE Point(Holding(base, lines), p) = Holding(base, lines)
<1> DEFINE e == Holding(base, lines)
           tags == Tags(base, p.tags)
           fields == SelectSeq(p.fields, fieldValid)
           x == LineOf(base, p)
<1>1. e.buf = BatchText(lines) /\ e.points = Len(lines) /\ e.base = base
  BY Zenon DEF Holding
<1>2. Point(e, p)
        = IF p.measurement = <<>> \/ fields = <<>> THEN e
          ELSE [e EXCEPT !.buf = @ \o Line(p.measurement, Tags(e.base, p.tags), fields, p.time),
                         !.points = @ + 1]
  BY Zenon DEF Point
<1>3. /\ p.measurement \in Name /\ p.time \in Numeral \union {<<>>}
      /\ tags \in Seq(TagSet) /\ fields \in Seq(FieldSet)
  BY Zenon DEF Readable
<1>4. x = [measurement |-> p.measurement, tags |-> tags, fields |-> fields, time |-> p.time]
  BY Zenon DEF LineOf
<1>5. Writes(p) <=> p.measurement # <<>> /\ fields # <<>>
  BY Zenon DEF Writes
<1>6. Tags(e.base, p.tags) = tags
  BY <1>1, Zenon
<1> HIDE DEF tags, fields, x
<1>7. CASE Writes(p)
  <2>1. x \in LineSet
    BY <1>3, <1>4, <1>5, <1>7 DEF LineSet
  <2>2. Line(p.measurement, tags, fields, p.time) = LineText(x)
    BY <1>4 DEF LineText
  <2>3. BatchText(Append(lines, x)) = BatchText(lines) \o LineText(x)
    BY <2>1, BatchOneMore
  <2>4. Len(Append(lines, x)) = Len(lines) + 1
    BY <2>1, AppendProperties
  <2>5. Point(e, p) = [e EXCEPT !.buf = BatchText(Append(lines, x)), !.points = Len(Append(lines, x))]
    BY <1>1, <1>2, <1>5, <1>6, <1>7, <2>2, <2>3, <2>4
  <2>6. Point(e, p) = Holding(base, Append(lines, x))
    BY <2>5 DEF Holding
  <2>7. QED
    BY <1>7, <2>1, <2>6 DEF x
<1>8. CASE ~ Writes(p)
  BY <1>2, <1>5, <1>8
<1>9. QED
  BY <1>7, <1>8

\* The function that Encoded is defined by
IsEncoding(g, base, points, n) ==
    g = [i \in 0 .. n |-> IF i = 0 THEN New(base) ELSE Point(g[i - 1], points[i])]

\* Whatever the points, they can be encoded one by one.
LEMMA EncodingExists ==
    ASSUME NEW n \in Nat, NEW base, NEW points
    PROVE  \E g : IsEncoding(g, base, points, n)
<1> DEFINE T == {m \in Nat : \E g : IsEncoding(g, base, points, m)}
<1>1. 0 \in T
  <2> DEFINE g == [i \in 0 .. 0 |-> New(base)]
  <2>1. g = [i \in 0 .. 0 |-> IF i = 0 THEN New(base) ELSE Point(g[i - 1], points[i])]
    OBVIOUS
  <2>2. IsEncoding(g, base, points, 0)
    BY <2>1 DEF IsEncoding
  <2>3. QED
    BY <2>2
<1>2. ASSUME NEW m \in Nat, m \in T PROVE m + 1 \in T
  <2>1. PICK h : IsEncoding(h, base, points, m)
    BY <1>2
  <2> DEFINE g == [i \in 0 .. m + 1 |-> IF i = m + 1 THEN Point(h[i - 1], points[i]) ELSE h[i]]
  <2>2. ASSUME NEW i \in 0 .. m + 1
        PROVE  g[i] = IF i = 0 THEN New(base) ELSE Point(g[i - 1], points[i])
    <3>1. i # 0 => i - 1 \in 0 .. m + 1 /\ i - 1 # m + 1 /\ g[i - 1] = h[i - 1]
      OBVIOUS
    <3>2. CASE i = m + 1
      BY <3>1, <3>2
    <3>3. CASE i # m + 1
      <4>1. i \in 0 .. m /\ g[i] = h[i]
        BY <3>3
      <4>2. h[i] = IF i = 0 THEN New(base) ELSE Point(h[i - 1], points[i])
        BY <2>1, <4>1 DEF IsEncoding
      <4>3. QED
        BY <3>1, <4>1, <4>2
    <3>4. QED
      BY <3>2, <3>3
  <2>3. g = [i \in 0 .. m + 1 |-> g[i]]
    OBVIOUS
  <2>4. g = [i \in 0 .. m + 1 |-> IF i = 0 THEN New(base) ELSE Point(g[i - 1], points[i])]
    BY <2>2, <2>3
  <2>5. IsEncoding(g, base, points, m + 1)
    BY <2>4 DEF IsEncoding
  <2>6. QED
    BY <2>5
<1> HIDE DEF T
<1>3. Nat \subseteq T
  BY <1>1, <1>2, Induct
<1>4. QED
  BY <1>3 DEF T

\* The lines of the first n points: a point that writes adds its line
LinesUpTo(lines, base, points, n) ==
    /\ lines \in [0 .. n -> Seq(LineSet)]
    /\ lines[0] = <<>>
    /\ \A i \in 1 .. n :
          lines[i] = IF Writes(points[i]) THEN Append(lines[i - 1], LineOf(base, points[i]))
                     ELSE lines[i - 1]

\* After each point the encoder holds the lines of the points so far.
LEMMA EncodingHolds ==
    ASSUME NEW n \in Nat, NEW base, NEW points, NEW g, IsEncoding(g, base, points, n),
           \A i \in 1 .. n : Readable(base, points[i])
    PROVE  \E lines : LinesUpTo(lines, base, points, n) /\ g[n] = Holding(base, lines[n])
<1> DEFINE Good(lines, m) == LinesUpTo(lines, base, points, m) /\ g[m] = Holding(base, lines[m])
           T == {m \in Nat : m <= n => \E lines : Good(lines, m)}
<1>1. 0 \in T
  <2> DEFINE lines == [i \in 0 .. 0 |-> <<>>]
  <2>1. lines \in [0 .. 0 -> Seq(LineSet)] /\ lines[0] = <<>> /\ \A i \in 1 .. 0 : FALSE
    BY EmptySeq
  <2>2. LinesUpTo(lines, base, points, 0)
    BY <2>1 DEF LinesUpTo
  <2>3. g[0] = New(base)
    BY DEF IsEncoding
  <2>4. BatchText(<<>>) = <<>> /\ Len(<<>>) = 0
    BY MapNothing, FlatNothing DEF BatchText
  <2>5. New(base) = Holding(base, <<>>)
    BY <2>4 DEF New, Holding
  <2>6. QED
    BY <2>1, <2>2, <2>3, <2>5
<1>2. ASSUME NEW m \in Nat, m \in T PROVE m + 1 \in T
  <2> SUFFICES ASSUME m + 1 <= n PROVE \E lines : Good(lines, m + 1)
    OBVIOUS
  <2>1. PICK before : Good(before, m)
    BY <1>2
  <2>2. before \in [0 .. m -> Seq(LineSet)] /\ before[m] \in Seq(LineSet)
    BY <2>1 DEF LinesUpTo
  <2> DEFINE p == points[m + 1]
             x == LineOf(base, p)
             last == IF Writes(p) THEN Append(before[m], x) ELSE before[m]
             lines == [i \in 0 .. m + 1 |-> IF i = m + 1 THEN last ELSE before[i]]
  <2>3. m + 1 \in 1 .. n /\ m + 1 \in 0 .. n /\ m + 1 # 0 /\ (m + 1) - 1 = m
    OBVIOUS
  <2>4. g[m + 1] = Point(g[m], p)
    BY <2>3 DEF IsEncoding
  <2>5. Readable(base, p)
    BY <2>3
  <2>6. IF Writes(p)
        THEN /\ x \in LineSet
             /\ Point(Holding(base, before[m]), p) = Holding(base, Append(before[m], x))
        ELSE Point(Holding(base, before[m]), p) = Holding(base, before[m])
    BY <2>2, <2>5, PointWrites
  <2>7. last \in Seq(LineSet) /\ g[m + 1] = Holding(base, last)
    <3> HIDE DEF x, p
    <3>1. CASE Writes(p)
      BY <2>1, <2>2, <2>4, <2>6, <3>1, AppendProperties
    <3>2. CASE ~ Writes(p)
      BY <2>1, <2>2, <2>4, <2>6, <3>2
    <3>3. QED
      BY <3>1, <3>2
  <2>8. lines[m + 1] = last /\ \A i \in 0 .. m : lines[i] = before[i]
    <3> HIDE DEF last
    <3>1. QED
      OBVIOUS
  <2>9. lines \in [0 .. m + 1 -> Seq(LineSet)]
    <3>1. \A i \in 0 .. m + 1 : i # m + 1 => i \in 0 .. m
      OBVIOUS
    <3> HIDE DEF last
    <3>2. QED
      BY <2>2, <2>7, <3>1
  <2>10. LinesUpTo(lines, base, points, m + 1)
    <3> SUFFICES ASSUME NEW i \in 1 .. m + 1
                 PROVE  lines[i] = IF Writes(points[i]) THEN Append(lines[i - 1], LineOf(base, points[i]))
                                   ELSE lines[i - 1]
      <4>1. lines[0] = <<>>
        BY <2>1, <2>8 DEF LinesUpTo
      <4> HIDE DEF lines
      <4>2. QED
        BY <2>9, <4>1 DEF LinesUpTo
    <3>1. i - 1 \in 0 .. m /\ lines[i - 1] = before[i - 1]
      BY <2>8
    <3>2. CASE i = m + 1
      <4>1. lines[i] = last /\ lines[i - 1] = before[m] /\ points[i] = p
        BY <2>8, <3>1, <3>2
      <4> HIDE DEF lines
      <4>2. QED
        BY <4>1
    <3>3. CASE i # m + 1
      <4>1. i \in 1 .. m /\ i \in 0 .. m
        BY <3>3
      <4>2. before[i] = IF Writes(points[i]) THEN Append(before[i - 1], LineOf(base, points[i]))
                        ELSE before[i - 1]
        BY <2>1, <4>1 DEF LinesUpTo
      <4>3. lines[i] = before[i]
        BY <2>8, <4>1
      <4> HIDE DEF lines
      <4>4. QED
        BY <3>1, <4>2, <4>3
    <3>4. QED
      BY <3>2, <3>3
  <2> HIDE DEF last, lines
  <2>11. Good(lines, m + 1)
    BY <2>7, <2>8, <2>10
  <2>12. QED
    BY <2>11
<1> HIDE DEF T
<1>3. Nat \subseteq T
  BY <1>1, <1>2, Induct
<1>4. QED
  BY <1>3 DEF T

\* The text of a batch says what Point was called with (lineproto.go 51-215), for any
\* base tags and any number of points: a point without a measurement or without a valid
\* field writes nothing, each other one writes one line, and the reader finds these lines
\* in the order of the points, each with the measurement, the tags that Tags selects, the
\* valid fields and the time that are meant; the encoder has counted them. This is
\* BatchReadsBack without its bounds, but for what Tags selects.
THEOREM EncodedReadsBack ==
    ASSUME NEW base, NEW points, NEW n \in Nat, n = Len(points),
           \A i \in 1 .. n : Readable(base, points[i])
    PROVE  \E lines :
              /\ LinesUpTo(lines, base, points, n)
              /\ Encoded(base, points).points = Len(lines[n])
              /\ Read(Encoded(base, points).buf) = [i \in DOMAIN lines[n] |-> LineMeaning(lines[n][i])]
<1>1. \E g : IsEncoding(g, base, points, n)
  BY EncodingExists
<1> DEFINE g == CHOOSE f : IsEncoding(f, base, points, n)
<1>2. IsEncoding(g, base, points, n)
  BY <1>1
<1>3. Encoded(base, points) = g[n]
  BY DEF Encoded, IsEncoding
<1> HIDE DEF g
<1>4. PICK lines : LinesUpTo(lines, base, points, n) /\ g[n] = Holding(base, lines[n])
  BY <1>2, EncodingHolds
<1>5. lines[n] \in Seq(LineSet)
  BY <1>4 DEF LinesUpTo
<1> DEFINE e == Encoded(base, points)
<1>6. e.buf = BatchText(lines[n]) /\ e.points = Len(lines[n])
  BY <1>3, <1>4 DEF Holding
<1>7. Read(BatchText(lines[n])) = [i \in DOMAIN lines[n] |-> LineMeaning(lines[n][i])]
  BY <1>5, BatchTextReadsBack
<1> HIDE DEF e
<1>8. Read(e.buf) = [i \in DOMAIN lines[n] |-> LineMeaning(lines[n][i])]
  BY <1>6, <1>7
<1>9. QED
  BY <1>4, <1>6, <1>8 DEF e
=============================================================================
