---------------------------- MODULE MountsProofs ----------------------------
(***************************************************************************)
(* Theorems about Mounts.tla, for any mounts, any table and any limit.     *)
(***************************************************************************)
EXTENDS Mounts, TLAPS

\* A row of timeouts is never longer than the count that ends it.
RowIsCounted == \A m \in live : streak[m] <= mountTimeouts[m]

IInv ==
    /\ TypeOK
    /\ BanIsReported
    /\ MemoryIsBounded
    /\ RowIsCounted

LEMMA InitIInv == Init => IInv
BY MountsAssumption DEF Init, Zero, IInv, TypeOK, BanIsReported, MemoryIsBounded, RowIsCounted, Banned

LEMMA ListKeeps == ASSUME IInv, NEW table \in [Mount -> 0 .. MaxListed], List(table) PROVE IInv'
<1> USE DEF IInv
<1>1. /\ live' \subseteq Mount /\ pc' = "read" /\ cycles' = cycles + 1 /\ cycles < MaxCycles
      /\ todo' = table
      /\ UNCHANGED <<inflight, mountErr, mountTimeouts, reports>>
  BY DEF List, memory
<1>2. /\ streak' = [m \in Mount |-> IF m \in live' \ live THEN 0 ELSE streak[m]]
      /\ reads' = [m \in Mount |-> IF m \in live' \ live THEN 0 ELSE reads[m]]
  BY DEF List
<1>3. TypeOK'
  BY <1>1, <1>2, MountsAssumption DEF TypeOK
<1>4. BanIsReported' /\ MemoryIsBounded'
  BY <1>1 DEF BanIsReported, Banned, MemoryIsBounded
<1>5. RowIsCounted'
  BY <1>1, <1>2 DEF RowIsCounted, TypeOK
<1>6. QED
  BY <1>3, <1>4, <1>5

\* One entry fewer to come to.
LEMMA OneEntryLess ==
    ASSUME TypeOK, NEW m \in Mount, ComesTo(m)
    PROVE  todo' \in [Mount -> 0 .. MaxListed]
<1>1. todo[m] \in 0 .. MaxListed /\ todo[m] > 0
  BY DEF TypeOK, ComesTo
<1>2. todo[m] - 1 \in 0 .. MaxListed
  BY <1>1, MountsAssumption
<1>3. todo' = [todo EXCEPT ![m] = todo[m] - 1]
  BY DEF ComesTo
<1>4. QED
  BY <1>2, <1>3 DEF TypeOK

\* An entry of the table is done with; the memory about its mount changes as said.
LEMMA ReadKeeps ==
    ASSUME IInv, NEW m \in Mount, ComesTo(m), ~Banned(m), inflight' \subseteq Mount,
           reads' = reads \/ reads' = [reads EXCEPT ![m] = @ + 1],
           Counts(m) \/ Remembers(m) \/ Clears(m)
    PROVE  IInv'
<1> USE DEF IInv
<1>1. /\ pc = "read" /\ pc' = "read" /\ todo' \in [Mount -> 0 .. MaxListed]
      /\ UNCHANGED <<cycles, live>>
  BY OneEntryLess DEF ComesTo
<1>2. reads' \in [Mount -> Nat]
  BY DEF TypeOK
<1>3. mountTimeouts[m] \in 0 .. maxMountTimeouts - 1 /\ reports[m] = 0
  BY MountsAssumption DEF TypeOK, Banned, BanIsReported
<1>4. CASE Counts(m)
  <2>1. /\ mountTimeouts' = [mountTimeouts EXCEPT ![m] = @ + 1]
        /\ streak' = [streak EXCEPT ![m] = @ + 1]
        /\ mountErr' = mountErr
    BY <1>4 DEF Counts
  <2>2. mountTimeouts'[m] = mountTimeouts[m] + 1 /\ mountTimeouts' \in [Mount -> 0 .. maxMountTimeouts]
    BY <1>3, <2>1, MountsAssumption DEF TypeOK
  <2>3. reports' = IF mountTimeouts[m] + 1 = maxMountTimeouts
                   THEN [reports EXCEPT ![m] = @ + 1] ELSE reports
    BY <1>4, <2>2 DEF Counts
  <2>4. TypeOK'
    BY <1>1, <1>2, <2>1, <2>2, <2>3 DEF TypeOK
  <2>5. BanIsReported'
    BY <1>3, <2>1, <2>2, <2>3, MountsAssumption DEF BanIsReported, Banned, TypeOK
  <2>6. RowIsCounted' /\ MemoryIsBounded'
    BY <1>1, <2>1, <2>2 DEF RowIsCounted, MemoryIsBounded, TypeOK
  <2>7. QED
    BY <2>4, <2>5, <2>6
<1>5. CASE Remembers(m)
  <2>1. /\ UNCHANGED <<mountTimeouts, reports>> /\ mountErr' = mountErr \union {m}
        /\ streak' = [streak EXCEPT ![m] = 0]
    BY <1>5 DEF Remembers
  <2>2. QED
    BY <1>1, <1>2, <1>3, <2>1 DEF TypeOK, BanIsReported, Banned, RowIsCounted, MemoryIsBounded
<1>6. CASE Clears(m)
  <2>1. /\ UNCHANGED <<mountErr, reports>>
        /\ mountTimeouts' = [mountTimeouts EXCEPT ![m] = 0]
        /\ streak' = [streak EXCEPT ![m] = 0]
    BY <1>6 DEF Clears
  <2>2. QED
    BY <1>1, <1>2, <1>3, <2>1, MountsAssumption
       DEF TypeOK, BanIsReported, Banned, RowIsCounted, MemoryIsBounded
<1>7. QED
  BY <1>4, <1>5, <1>6

LEMMA PruneKeeps == ASSUME IInv, Prune PROVE IInv'
BY MountsAssumption
   DEF Prune, IInv, TypeOK, BanIsReported, Banned, MemoryIsBounded, RowIsCounted

LEMMA NextKeeps == IInv /\ [Next]_vars => IInv'
<1> SUFFICES ASSUME IInv, [Next]_vars PROVE IInv'
  OBVIOUS
<1>1. CASE UNCHANGED vars
  BY <1>1 DEF vars, memory, history, IInv, TypeOK, BanIsReported, Banned, MemoryIsBounded, RowIsCounted
<1>2. ASSUME NEW table \in [Mount -> 0 .. MaxListed], List(table) PROVE IInv'
  BY <1>2, ListKeeps
<1>3. CASE ListFails
  BY <1>3, MountsAssumption DEF ListFails, memory, history, IInv, TypeOK, BanIsReported, Banned,
     MemoryIsBounded, RowIsCounted
<1>4. ASSUME NEW m \in Mount, Skip(m) PROVE IInv'
  BY <1>4, OneEntryLess DEF Skip, ComesTo, memory, history, IInv, TypeOK, BanIsReported, Banned,
     MemoryIsBounded, RowIsCounted
<1>5. ASSUME NEW m \in Mount, TimesOut(m) \/ Fails(m) \/ Answers(m) PROVE IInv'
  <2>1. inflight' \subseteq Mount
    BY <1>5 DEF TimesOut, Fails, Answers, Refused, Starts, LeftBehind, ComesBack, IInv, TypeOK
  <2>2. reads' = reads \/ reads' = [reads EXCEPT ![m] = @ + 1]
    BY <1>5 DEF TimesOut, Fails, Answers, Refused, Starts, LeftBehind, ComesBack
  <2>3. ComesTo(m) /\ ~Banned(m) /\ (Counts(m) \/ Remembers(m) \/ Clears(m))
    BY <1>5 DEF TimesOut, Fails, Answers
  <2>4. QED
    BY <2>1, <2>2, <2>3, ReadKeeps
<1>6. ASSUME NEW m \in Mount, ReadReturns(m) PROVE IInv'
  BY <1>6 DEF ReadReturns, memory, history, IInv, TypeOK, BanIsReported, Banned,
     MemoryIsBounded, RowIsCounted
<1>7. CASE Prune
  BY <1>7, PruneKeeps
<1>8. QED
  BY <1>1, <1>2, <1>3, <1>4, <1>5, <1>6, <1>7 DEF Next

LEMMA Invariance == Spec => []IInv
BY InitIInv, NextKeeps, PTL DEF Spec

\* The memory of collectDisks keeps its shape; no count passes maxMountTimeouts.
THEOREM MemoryTypeCorrect == Spec => []TypeOK
BY Invariance, PTL DEF IInv

\* The agent never stops reading a mount in silence, and says so once
\* (collect.go 468 to 474), for any number of mounts, cycles and stacked mounts.
THEOREM BanNeverSilent == Spec => []BanIsReported
BY Invariance, PTL DEF IInv

\* Between two cycles the maps know only mounts of the last table
\* (collect.go 508 to 519).
THEOREM MemoryBounded == Spec => []MemoryIsBounded
BY Invariance, PTL DEF IInv

\* A mount with no other sign of life is tried at most maxMountTimeouts times.
THEOREM DeadMountDropped == Spec => []DeadMountIsDropped
<1>1. IInv => DeadMountIsDropped
  BY MountsAssumption DEF IInv, TypeOK, RowIsCounted, DeadMountIsDropped
<1>2. QED
  BY <1>1, Invariance, PTL
=============================================================================
