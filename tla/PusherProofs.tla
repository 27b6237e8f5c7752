---------------------------- MODULE PusherProofs ----------------------------
(***************************************************************************)
(* Theorems about Pusher.tla, for every value of its constants.            *)
(***************************************************************************)
EXTENDS Pusher, SequenceTheorems, FiniteSetTheorems, TLAPS

(***************************************************************************)
(* The buffer                                                              *)
(***************************************************************************)

\* A push on a buffer that respects the limit appends, and drops at most the
\* front element (push.go 213-218).
LEMMA BufferAppends ==
    ASSUME NEW q \in Seq(Nat), Len(q) <= MaxBuffered, NEW b \in Nat
    PROVE  /\ Buffer(q, b) \in Seq(Nat)
           /\ Len(q) < MaxBuffered => Buffer(q, b) = Append(q, b)
           /\ Len(q) = MaxBuffered => Buffer(q, b) = Tail(Append(q, b))
<1> DEFINE r == Append(q, b)
<1>1. /\ r \in Seq(Nat) /\ r # <<>> /\ Len(r) = Len(q) + 1
  BY AppendProperties
<1>2. Tail(r) = SubSeq(r, 2, Len(r)) /\ Tail(r) \in Seq(Nat)
  BY <1>1, TailIsSubSeq, HeadTailProperties
<1>3. MaxBuffered \in Nat \ {0} /\ Len(q) \in Nat
  BY PusherAssumption, LenProperties
<1> HIDE DEF r
<1>4. Buffer(q, b) = Newest(r)
  BY DEF Buffer, r
<1>5. CASE Len(q) < MaxBuffered
  <2>1. Len(r) <= MaxBuffered
    BY <1>1, <1>3, <1>5
  <2>2. QED
    BY <1>1, <1>3, <1>4, <1>5, <2>1 DEF Newest, r
<1>6. CASE Len(q) = MaxBuffered
  <2>1. ~(Len(r) <= MaxBuffered) /\ Len(r) - MaxBuffered + 1 = 2
    BY <1>1, <1>3, <1>6
  <2>2. Newest(r) = Tail(r)
    BY <1>2, <2>1 DEF Newest
  <2>3. QED
    BY <1>2, <1>3, <1>4, <1>6, <2>2 DEF r
<1>7. Len(q) < MaxBuffered \/ Len(q) = MaxBuffered
  BY <1>3
<1>8. QED
  BY <1>5, <1>6, <1>7

\* An increasing buffer without its front: the same batches but the oldest.
LEMMA PopOldest ==
    ASSUME NEW q \in Seq(Nat), q # <<>>, Increasing(q)
    PROVE  /\ Tail(q) \in Seq(Nat) /\ Len(Tail(q)) = Len(q) - 1
           /\ Increasing(Tail(q))
           /\ Head(q) \in Elements(q)
           /\ \A b \in Elements(q) : Head(q) <= b
           /\ Elements(Tail(q)) = Elements(q) \ {Head(q)}
<1>1. /\ Tail(q) \in Seq(Nat) /\ Len(Tail(q)) = Len(q) - 1
      /\ \A i \in 1 .. Len(Tail(q)) : Tail(q)[i] = q[i + 1]
  BY HeadTailProperties
<1>2. /\ DOMAIN q = 1 .. Len(q) /\ Len(q) \in Nat \ {0}
      /\ DOMAIN Tail(q) = 1 .. Len(q) - 1
      /\ \A i \in DOMAIN q : q[i] \in Nat
  BY <1>1, LenProperties, EmptySeq, ElementOfSeq
<1>3. Head(q) = q[1] /\ 1 \in DOMAIN q
  BY <1>2
<1>4. Increasing(Tail(q))
  <2> SUFFICES ASSUME NEW i \in DOMAIN Tail(q), NEW j \in DOMAIN Tail(q), i < j
               PROVE  Tail(q)[i] < Tail(q)[j]
    BY DEF Increasing
  <2>1. i + 1 \in DOMAIN q /\ j + 1 \in DOMAIN q /\ i + 1 < j + 1
    BY <1>2
  <2>2. QED
    BY <1>1, <1>2, <2>1 DEF Increasing
<1>5. \A i \in DOMAIN q : i # 1 => q[1] < q[i]
  BY <1>2, <1>3 DEF Increasing
<1>6. Head(q) \in Elements(q) /\ \A b \in Elements(q) : Head(q) <= b
  BY <1>2, <1>3, <1>5 DEF Elements
<1>7. Elements(Tail(q)) \subseteq Elements(q) \ {Head(q)}
  <2> SUFFICES ASSUME NEW i \in DOMAIN Tail(q)
               PROVE  Tail(q)[i] \in Elements(q) /\ Tail(q)[i] # Head(q)
    BY DEF Elements
  <2>1. i + 1 \in DOMAIN q /\ i + 1 # 1 /\ Tail(q)[i] = q[i + 1]
    BY <1>1, <1>2
  <2>2. QED
    BY <1>2, <1>3, <1>5, <2>1 DEF Elements
<1>8. Elements(q) \ {Head(q)} \subseteq Elements(Tail(q))
  <2> SUFFICES ASSUME NEW i \in DOMAIN q, q[i] # Head(q)
               PROVE  q[i] \in Elements(Tail(q))
    BY DEF Elements
  <2>1. i - 1 \in DOMAIN Tail(q) /\ Tail(q)[i - 1] = q[i]
    BY <1>1, <1>2, <1>3
  <2>2. QED
    BY <2>1 DEF Elements
<1>9. QED
  BY <1>1, <1>4, <1>6, <1>7, <1>8

\* An increasing buffer and one younger batch.
LEMMA AddYoungest ==
    ASSUME NEW q \in Seq(Nat), Increasing(q),
           NEW b \in Nat, \A c \in Elements(q) : c < b
    PROVE  /\ Append(q, b) \in Seq(Nat) /\ Len(Append(q, b)) = Len(q) + 1
           /\ Increasing(Append(q, b))
           /\ Elements(Append(q, b)) = Elements(q) \union {b}
<1> DEFINE r == Append(q, b)
<1>1. /\ r \in Seq(Nat) /\ Len(r) = Len(q) + 1
      /\ \A i \in 1 .. Len(q) : r[i] = q[i]
      /\ r[Len(q) + 1] = b
  BY AppendProperties
<1> HIDE DEF r
<1>2. /\ DOMAIN q = 1 .. Len(q) /\ Len(q) \in Nat
      /\ DOMAIN r = 1 .. Len(q) + 1
  BY <1>1, LenProperties
<1>3. Increasing(r)
  <2> SUFFICES ASSUME NEW i \in DOMAIN r, NEW j \in DOMAIN r, i < j
               PROVE  r[i] < r[j]
    BY DEF Increasing
  <2>1. i \in DOMAIN q /\ r[i] = q[i] /\ q[i] \in Elements(q)
    BY <1>1, <1>2 DEF Elements
  <2>2. CASE j \in DOMAIN q
    BY <1>1, <1>2, <2>1, <2>2 DEF Increasing
  <2>3. CASE j = Len(q) + 1
    BY <1>1, <2>1, <2>3
  <2>4. QED
    BY <1>2, <2>2, <2>3
<1>4. Elements(r) = Elements(q) \union {b}
  <2>1. Elements(r) \subseteq Elements(q) \union {b}
    BY <1>1, <1>2 DEF Elements
  <2>2. Elements(q) \subseteq Elements(r)
    BY <1>1, <1>2 DEF Elements
  <2>3. Len(q) + 1 \in DOMAIN r
    BY <1>2
  <2>4. b \in Elements(r)
    BY <1>1, <2>3 DEF Elements
  <2>5. QED
    BY <2>1, <2>2, <2>4
<1>5. QED
  BY <1>1, <1>3, <1>4 DEF r

\* An increasing buffer holds as many batches as it is long.
LEMMA BufferCounts ==
    ASSUME NEW q \in Seq(Nat), Increasing(q)
    PROVE  IsFiniteSet(Elements(q)) /\ Cardinality(Elements(q)) = Len(q)
<1> DEFINE S == 1 .. Len(q)
           f == [i \in S |-> q[i]]
<1>1. DOMAIN q = S /\ Len(q) \in Nat /\ \A i \in S : q[i] \in Nat
  BY LenProperties, ElementOfSeq
<1>2. IsFiniteSet(S) /\ Cardinality(S) = Len(q)
  BY <1>1, FS_Interval
<1>3. \A i, j \in S : i # j => q[i] # q[j]
  BY <1>1 DEF Increasing
<1>4. f \in Bijection(S, Elements(q))
  <2>1. f \in [S -> Elements(q)]
    BY <1>1 DEF Elements
  <2>2. \A i, j \in S : f[i] = f[j] => i = j
    BY <1>3
  <2>3. \A e \in Elements(q) : \E i \in S : f[i] = e
    BY <1>1 DEF Elements
  <2> HIDE DEF f, S
  <2>4. f \in Injection(S, Elements(q))
    BY <2>1, <2>2 DEF Injection, IsInjective
  <2>5. f \in Surjection(S, Elements(q))
    BY <2>1, <2>3 DEF Surjection
  <2>6. QED
    BY <2>4, <2>5 DEF Bijection
<1>5. ExistsBijection(S, Elements(q))
  BY <1>4 DEF ExistsBijection
<1>6. QED
  BY <1>2, <1>5, FS_Bijection

(***************************************************************************)
(* What a step does to the batches.  Whatever the program counter, the     *)
(* time and the server do, a step of the pusher is one of seven moves.     *)
(***************************************************************************)

Adds(cs) ==
    \A c \in Counters \ {"Failures"} :
        stats'[c] = IF c \in cs THEN stats[c] + 1 ELSE stats[c]

Quiet == Adds({}) /\ UNCHANGED <<made, cur, pending, fates>>

Taken ==
    /\ cur = 0 /\ made' = made + 1 /\ cur' = made + 1
    /\ Adds({}) /\ UNCHANGED <<pending, fates>>

Acked ==
    /\ cur # 0 /\ cur' = 0
    /\ acked' = acked \union {cur}
    /\ Adds({"Batches"})
    /\ UNCHANGED <<made, pending, recovered, refused, evicted, givenUp>>

GivenUp ==
    /\ cur # 0 /\ cur' = 0
    /\ givenUp' = givenUp \union {cur}
    /\ Adds({})
    /\ UNCHANGED <<made, pending, acked, recovered, refused, evicted>>

Buffered ==
    /\ cur # 0 /\ cur' = 0
    /\ pending' = Buffer(pending, cur)
    /\ evicted' = evicted \union ((Elements(pending) \union {cur}) \ Elements(pending'))
    /\ Adds({"Dropped"})
    /\ UNCHANGED <<made, acked, recovered, refused, givenUp>>

Recovered ==
    /\ pending # <<>> /\ pending' = Tail(pending)
    /\ recovered' = recovered \union {Head(pending)}
    /\ Adds({"Batches", "Retried"})
    /\ UNCHANGED <<made, cur, acked, refused, evicted, givenUp>>

Refused ==
    /\ pending # <<>> /\ pending' = Tail(pending)
    /\ refused' = refused \union {Head(pending)}
    /\ Adds({"RejectedDropped"})
    /\ UNCHANGED <<made, cur, acked, recovered, evicted, givenUp>>

Move == Quiet \/ Taken \/ Acked \/ GivenUp \/ Buffered \/ Recovered \/ Refused

LEMMA CountAdds ==
    ASSUME TypeOK, NEW cs, Count(cs)
    PROVE  stats' \in [Counters -> Nat] /\ Adds(cs)
BY DEF TypeOK, Count, Adds

\* Every step is one of the moves: an action of the pusher changes the batches in
\* one way only, or not at all.
LEMMA EveryStepMoves == TypeOK /\ Control /\ [Next]_vars => Move
<1> SUFFICES ASSUME TypeOK, Control, [Next]_vars
             PROVE  Move
  OBVIOUS
<1> USE DEF Move, Quiet, fates, context, server, Control
<1>1. ASSUME UNCHANGED stats PROVE Adds({})
  BY <1>1 DEF Adds
<1>2. ASSUME Count({"Failures"}) PROVE Adds({})
  BY <1>2, CountAdds DEF Adds
<1>3. ASSUME Count({"Failures", "Dropped"}) PROVE Adds({"Dropped"})
  BY <1>3, CountAdds DEF Adds
<1>4. ASSUME NEW cs, Drop(cs), cs \subseteq {"Failures"}, cur # 0, made' = made
      PROVE  Buffered
  <2>1. Adds(cs \union {"Dropped"})
    BY <1>4, CountAdds DEF Drop
  <2>2. Adds({"Dropped"})
    BY <1>4, <2>1 DEF Adds
  <2>3. QED
    BY <1>4, <2>2 DEF Drop, Return, Buffered
<1>5. ASSUME NEW cs, OnceGivesUp(cs), cs \subseteq {"Failures"}, cur # 0, made' = made
      PROVE  GivenUp
  <2>1. Adds(cs)
    BY <1>5, CountAdds DEF OnceGivesUp
  <2>2. Adds({})
    BY <1>5, <2>1 DEF Adds
  <2>3. QED
    BY <1>5, <2>2 DEF OnceGivesUp, Return, GivenUp
<1>6. CASE Call
  <2>1. pc = "idle" /\ cur = 0
    BY <1>6 DEF Call, CallSend, CallSendEmpty, CallFlush, CallSendOnce, Begin
  <2>2. QED
    BY <1>1, <1>6, <2>1 DEF Call, CallSend, CallSendEmpty, CallFlush, CallSendOnce,
                           Begin, Brings, BringsNothing, Taken
<1>7. CASE FlushDone
  BY <1>1, <1>7 DEF FlushDone, FlushEnds, Return
<1>8. CASE FlushPost \/ SendPost \/ OncePost
  BY <1>1, <1>8 DEF FlushPost, SendPost, OncePost
<1>9. CASE SendWakes \/ OnceWakes
  BY <1>1, <1>9 DEF SendWakes, OnceWakes
<1>10. ASSUME NEW d \in Ticks, FlushAccepted(d) PROVE Move
  BY <1>10, CountAdds DEF FlushAccepted, Recovered
<1>11. ASSUME NEW d \in Ticks, FlushRejected(d) PROVE Move
  <2>1. Adds({"Failures", "RejectedDropped"})
    BY <1>11, CountAdds DEF FlushRejected
  <2>2. QED
    BY <1>11, <2>1 DEF FlushRejected, Refused, Adds
<1>12. ASSUME NEW d \in Ticks, FlushFailed(d) PROVE Move
  BY <1>2, <1>12 DEF FlushFailed, FlushEnds, Return
<1>13. ASSUME NEW d \in Ticks, SendAccepted(d) \/ OnceAccepted(d) PROVE Move
  BY <1>13, CountAdds DEF SendAccepted, OnceAccepted, Acked, Return
<1>14. ASSUME NEW d \in Ticks, SendRejected(d) PROVE Move
  BY <1>4, <1>14 DEF SendRejected
<1>15. ASSUME SendRetries \/ SendGivesUp, cur # 0, made' = made PROVE Move
  BY <1>2, <1>4, <1>15 DEF SendRetries, SendGivesUp
<1>16. ASSUME NEW d \in Ticks, SendFailed(d) PROVE Move
  BY <1>15, <1>16 DEF SendFailed
<1>17. CASE SendExpired
  BY <1>15, <1>17 DEF SendExpired
<1>18. CASE SendCut
  BY <1>4, <1>18 DEF SendCut
<1>19. ASSUME NEW d \in Ticks, OnceRejected(d) PROVE Move
  BY <1>5, <1>19 DEF OnceRejected
<1>20. ASSUME OnceAgain \/ OnceGivesUp({"Failures"}), cur # 0, made' = made PROVE Move
  BY <1>2, <1>5, <1>20 DEF OnceAgain
<1>21. ASSUME NEW d \in Ticks, OnceFailed(d) PROVE Move
  BY <1>20, <1>21 DEF OnceFailed
<1>22. CASE OnceExpired
  BY <1>20, <1>22 DEF OnceExpired
<1>23. CASE OnceCut
  BY <1>5, <1>23 DEF OnceCut
<1>24. CASE Cancel \/ \E b \in wire : ServerStores(b)
  BY <1>1, <1>24 DEF Cancel, ServerStores, caller
<1>25. CASE UNCHANGED vars
  BY <1>1, <1>25 DEF vars, caller
<1>26. QED
  BY <1>6, <1>7, <1>8, <1>9, <1>10, <1>11, <1>12, <1>13, <1>14, <1>16, <1>17, <1>18,
     <1>19, <1>21, <1>22, <1>23, <1>24, <1>25 DEF Next, Step, Outcome

(***************************************************************************)
(* The boxes the batches are in, and their order                           *)
(***************************************************************************)

\* What Send's drop does to the buffer: the batch in hand becomes its youngest
\* element, and the oldest one leaves exactly when the buffer was full.
LEMMA BufferedEffect ==
    ASSUME TypeOK, Control, OldestFirst, cur # 0, pending' = Buffer(pending, cur)
    PROVE  /\ pending' \in Seq(Nat)
           /\ Increasing(pending)'
           /\ Len(pending) < MaxBuffered =>
                /\ Len(pending') = Len(pending) + 1
                /\ Elements(pending') = Elements(pending) \union {cur}
           /\ Len(pending) = MaxBuffered =>
                /\ pending # <<>>
                /\ Len(pending') = Len(pending)
                /\ Elements(pending') = (Elements(pending) \ {Head(pending)}) \union {cur}
<1>1. /\ pending \in Seq(Nat) /\ Len(pending) <= MaxBuffered /\ Len(pending) \in Nat
      /\ cur \in Nat /\ MaxBuffered \in Nat \ {0}
      /\ Increasing(pending) /\ \A c \in Elements(pending) : c < cur
  BY LenProperties, PusherAssumption DEF TypeOK, OldestFirst, InHand
<1> DEFINE r == Append(pending, cur)
<1>2. /\ r \in Seq(Nat) /\ Len(r) = Len(pending) + 1
      /\ Increasing(r) /\ Elements(r) = Elements(pending) \union {cur}
  BY <1>1, AddYoungest
<1>3. CASE Len(pending) < MaxBuffered
  <2>1. pending' = r
    BY <1>1, <1>3, BufferAppends
  <2>2. QED
    BY <1>1, <1>2, <1>3, <2>1
<1>4. CASE Len(pending) = MaxBuffered
  <2>1. pending' = Tail(r)
    BY <1>1, <1>4, BufferAppends
  <2>2. pending # <<>> /\ Head(pending) \in Elements(pending)
    BY <1>1, <1>4, EmptySeq, PopOldest
  <2>3. Head(r) = Head(pending) /\ r # <<>>
    BY <1>1, <1>4, <2>2, AppendProperties
  <2> HIDE DEF r
  <2>4. /\ Tail(r) \in Seq(Nat) /\ Len(Tail(r)) = Len(r) - 1
        /\ Increasing(Tail(r)) /\ Elements(Tail(r)) = Elements(r) \ {Head(r)}
    BY <1>2, <2>3, PopOldest
  <2>5. Head(pending) # cur
    BY <1>1, <2>2
  <2>6. Elements(Tail(r)) = (Elements(pending) \ {Head(pending)}) \union {cur}
    BY <1>2, <2>3, <2>4, <2>5
  <2>7. QED
    BY <1>1, <1>2, <1>4, <2>1, <2>2, <2>4, <2>6
<1>5. QED
  BY <1>1, <1>3, <1>4

\* What a settled front element does to the buffer.
LEMMA PoppedEffect ==
    ASSUME TypeOK, OldestFirst, pending # <<>>, pending' = Tail(pending)
    PROVE  /\ pending' \in Seq(Nat) /\ Len(pending') = Len(pending) - 1
           /\ Increasing(pending)'
           /\ Head(pending) \in Elements(pending)
           /\ \A b \in Elements(pending) : Head(pending) <= b
           /\ Elements(pending') = Elements(pending) \ {Head(pending)}
BY PopOldest DEF TypeOK, OldestFirst

BoxTypeOK ==
    /\ pending \in Seq(Nat) /\ Len(pending) <= MaxBuffered
    /\ Elements(pending) \subseteq Batches
    /\ cur \in 0 .. made /\ made \in Nat
    /\ acked \subseteq Batches /\ recovered \subseteq Batches
    /\ refused \subseteq Batches /\ evicted \subseteq Batches
    /\ givenUp \subseteq Batches

\* Each move leaves well-formed boxes and keeps the order of ages.
LEMMA MoveKeepsOrder ==
    TypeOK /\ Control /\ OldestFirst /\ Move => BoxTypeOK' /\ OldestFirst'
<1> SUFFICES ASSUME TypeOK, Control, OldestFirst, Move
             PROVE  BoxTypeOK' /\ OldestFirst'
  OBVIOUS
<1>1. /\ Elements(pending) \subseteq Batches /\ made \in Nat /\ cur \in 0 .. made
      /\ Len(pending) \in Nat /\ Len(pending) <= MaxBuffered /\ MaxBuffered \in Nat
      /\ \A b \in Elements(pending) : b \in Nat /\ b <= made
  BY PusherAssumption, LenProperties DEF TypeOK, Batches
<1>2. CASE Quiet
  BY <1>2 DEF Quiet, fates, TypeOK, BoxTypeOK, OldestFirst, Batches, InHand
<1>3. CASE Taken
  BY <1>1, <1>3 DEF Taken, fates, TypeOK, BoxTypeOK, OldestFirst, Batches, InHand
<1>4. CASE Acked \/ GivenUp
  <2>1. /\ UNCHANGED <<made, pending, recovered, refused, evicted>> /\ cur' = 0 /\ cur # 0
        /\ acked' \subseteq acked \union {cur} /\ givenUp' \subseteq givenUp \union {cur}
    BY <1>4 DEF Acked, GivenUp
  <2>2. cur \in Batches
    BY <1>1, <2>1 DEF Batches
  <2>3. BoxTypeOK'
    BY <1>1, <2>1, <2>2 DEF TypeOK, BoxTypeOK, Batches
  <2>4. OldestFirst'
    BY <2>1 DEF OldestFirst, InHand
  <2>5. QED
    BY <2>3, <2>4
<1>5. CASE Buffered
  <2>1. cur # 0 /\ pending' = Buffer(pending, cur)
    BY <1>5 DEF Buffered
  <2>2. /\ pending' \in Seq(Nat) /\ Increasing(pending)'
        /\ Elements(pending') \subseteq Elements(pending) \union {cur}
        /\ Len(pending') <= MaxBuffered
    BY <1>1, <2>1, BufferedEffect
  <2>3. \A b \in Elements(pending) : b < cur
    BY <2>1 DEF OldestFirst, InHand
  <2>4. cur' = 0 /\ made' = made
    BY <1>5 DEF Buffered
  <2>5. BoxTypeOK'
    <3>1. cur \in Batches /\ Batches' = Batches
      BY <1>1, <2>1, <2>4 DEF Batches
    <3>2. Elements(pending)' \subseteq Batches /\ evicted' \subseteq Batches
      BY <1>5, <2>2, <3>1 DEF Buffered, TypeOK
    <3>3. UNCHANGED <<acked, recovered, refused, givenUp>>
      BY <1>5 DEF Buffered
    <3>4. QED
      BY <1>1, <2>2, <2>4, <3>1, <3>2, <3>3 DEF BoxTypeOK, TypeOK
  <2>6. \A e \in evicted', b \in Elements(pending)' : e < b
    <3> SUFFICES ASSUME NEW b \in Elements(pending'), NEW e \in evicted'
                 PROVE  e < b
      OBVIOUS
    <3>1. CASE e \in evicted
      BY <2>1, <2>2, <3>1 DEF OldestFirst, InHand
    <3>2. CASE e \notin evicted
      <4>1. e \in (Elements(pending) \union {cur}) \ Elements(pending')
        BY <1>5, <3>2 DEF Buffered
      <4>2. /\ pending # <<>>
            /\ Elements(pending') = (Elements(pending) \ {Head(pending)}) \union {cur}
        BY <1>1, <2>1, <4>1, BufferedEffect
      <4>3. e = Head(pending) /\ b \in (Elements(pending) \ {e}) \union {cur}
        BY <4>1, <4>2
      <4>4. e \in Elements(pending) /\ \A c \in Elements(pending) : e <= c
        BY <4>2, <4>3, PopOldest DEF TypeOK, OldestFirst
      <4>5. QED
        BY <1>1, <2>3, <4>3, <4>4
    <3>3. QED
      BY <3>1, <3>2
  <2>7. QED
    BY <2>2, <2>4, <2>5, <2>6 DEF OldestFirst, InHand
<1>6. CASE Recovered \/ Refused
  <2>1. /\ pending # <<>> /\ pending' = Tail(pending)
        /\ UNCHANGED <<made, cur, acked, evicted, givenUp>>
        /\ recovered' \subseteq recovered \union {Head(pending)}
        /\ refused' \subseteq refused \union {Head(pending)}
    BY <1>6 DEF Recovered, Refused
  <2>2. /\ pending' \in Seq(Nat) /\ Increasing(pending)'
        /\ Elements(pending') \subseteq Elements(pending)
        /\ Head(pending) \in Elements(pending)
        /\ Len(pending') = Len(pending) - 1
    BY <2>1, PoppedEffect
  <2>3. QED
    BY <1>1, <2>1, <2>2 DEF BoxTypeOK, TypeOK, OldestFirst, Batches, InHand
<1>7. QED
  BY <1>2, <1>3, <1>4, <1>5, <1>6 DEF Move

(***************************************************************************)
(* The rest of the state: the program counter, the context, the server     *)
(***************************************************************************)

CallTypeOK ==
    /\ stats \in [Counters -> Nat]
    /\ pc \in Labels /\ attempt \in Nat
    /\ left \in Nat /\ cancelled \in BOOLEAN
    /\ calls \in 0 .. MaxCalls
    /\ wire \subseteq Batches /\ stored \subseteq Batches

LEMMA CountTypeOK ==
    ASSUME TypeOK, NEW cs, Count(cs)
    PROVE  stats' \in [Counters -> Nat]
BY CountAdds

\* The outcome of a post leaves a budget that is still a number of ticks.
LEMMA SpendTypeOK ==
    ASSUME TypeOK, NEW d \in Ticks, d <= Limit, Spend(d)
    PROVE  left' \in Nat
BY PusherAssumption DEF TypeOK, Ticks, Limit, Spend

LEMMA StepKeepsCall ==
    TypeOK /\ Control /\ [Next]_vars => CallTypeOK' /\ Control'
<1> SUFFICES ASSUME TypeOK, Control, [Next]_vars
             PROVE  CallTypeOK' /\ Control'
  OBVIOUS
<1> USE DEF CallTypeOK, Control, context, server, caller
<1>1. /\ CallTypeOK /\ made \in Nat /\ cur \in 0 .. made
      /\ pending # <<>> => Head(pending) \in Batches
  <2>1. pending # <<>> => Head(pending) \in Elements(pending)
    BY LenProperties, EmptySeq DEF TypeOK, Elements
  <2>2. QED
    BY <2>1 DEF TypeOK
<1>2. CASE Call
  <2>1. PICK c \in BOOLEAN :
           CallSend(c) \/ CallSendEmpty(c)
           \/ \E budget \in Budgets : CallFlush(budget, c) \/ CallSendOnce(budget, c)
    BY <1>2 DEF Call
  <2>2. /\ pc = "idle" /\ calls < MaxCalls /\ calls' = calls + 1
        /\ cancelled' \in BOOLEAN /\ left' \in Nat
        /\ UNCHANGED <<stats, attempt, wire, stored>>
        /\ \/ pc' = "flush" /\ (Brings \/ BringsNothing)
           \/ pc' = "once" /\ Brings
    BY <2>1, PusherAssumption
       DEF CallSend, CallSendEmpty, CallFlush, CallSendOnce, Begin
  <2>3. calls' \in 0 .. MaxCalls
    BY <1>1, <2>2, PusherAssumption
  <2>4. pc' \in Labels
    BY <2>2 DEF Labels
  <2>5. CASE Brings
    <3>1. made' = made + 1 /\ cur' = made + 1 /\ cur' # 0
      BY <1>1, <2>5 DEF Brings
    <3>2. Batches \subseteq Batches'
      BY <1>1, <3>1 DEF Batches
    <3>3. QED
      BY <1>1, <2>2, <2>3, <2>4, <3>1, <3>2
  <2>6. CASE BringsNothing /\ pc' = "flush"
    BY <1>1, <2>2, <2>3, <2>4, <2>6 DEF BringsNothing, Batches
  <2>7. QED
    BY <2>2, <2>5, <2>6
<1>3. ASSUME ~Call PROVE UNCHANGED <<made, calls>>
  BY <1>3 DEF Next, Step, Outcome, vars, FlushDone, FlushPost, FlushAccepted,
       FlushRejected, FlushFailed, SendPost, SendAccepted, SendRejected, SendFailed,
       SendExpired, SendWakes, SendCut, OncePost, OnceAccepted, OnceRejected,
       OnceFailed, OnceExpired, OnceWakes, OnceCut, ServerStores, Cancel
<1>4. ASSUME UNCHANGED <<made, calls>> PROVE Batches' = Batches
  BY <1>4 DEF Batches
<1>5. ASSUME Return PROVE pc' = "idle" /\ cur' = 0 /\ attempt' \in Nat /\ pc' \in Labels
  BY <1>5 DEF Return, Labels
<1>6. CASE FlushDone
  BY <1>1, <1>4, <1>5, <1>6 DEF FlushDone, FlushEnds, Labels
<1>7. CASE FlushPost \/ SendPost \/ OncePost
  <2>1. /\ UNCHANGED <<made, calls, stats, attempt, cur, left, cancelled, stored, pending>>
        /\ pc' \in {"flushPost", "sendPost", "oncePost"}
        /\ pc' = "flushPost" => pending # <<>>
        /\ pc' # "flushPost" => cur # 0
    BY <1>7 DEF FlushPost, SendPost, OncePost
  <2>2. wire' \subseteq Batches
    <3>1. cur # 0 => cur \in Batches
      BY <1>1 DEF Batches
    <3>2. \E b \in Batches : wire' = wire \union {b}
      BY <1>1, <1>7, <3>1 DEF FlushPost, SendPost, OncePost, Request
    <3>3. QED
      BY <1>1, <3>2
  <2>3. QED
    BY <1>1, <1>4, <2>1, <2>2 DEF Labels
<1>8. CASE SendWakes \/ OnceWakes
  <2>1. /\ UNCHANGED <<made, calls, stats, cur, cancelled, wire, stored, pending>>
        /\ attempt' = attempt + 1
        /\ pc' \in {"send", "once"} /\ cur # 0
    BY <1>8 DEF SendWakes, OnceWakes
  <2>2. left' \in Nat
    <3>1. CASE SendWakes
      <4>1. attempt + 1 \in 1 .. Len(backoff) /\ backoff \in Seq(Nat)
        BY <1>1, <3>1, PusherAssumption, LenProperties DEF SendWakes
      <4>2. backoff[attempt + 1] \in Nat
        BY <4>1, ElementOfSeq
      <4>3. QED
        BY <1>1, <3>1, <4>2 DEF SendWakes, Spend
    <3>2. CASE OnceWakes
      BY <1>1, <3>2, PusherAssumption DEF OnceWakes, Spend
    <3>3. QED
      BY <1>8, <3>1, <3>2
  <2>3. attempt' \in Nat
    BY <1>1, <2>1
  <2>4. QED
    BY <1>1, <1>4, <2>1, <2>2, <2>3 DEF Labels
<1>9. ASSUME NEW d \in Ticks, Outcome(d) PROVE CallTypeOK' /\ Control'
  <2>1. /\ d <= Limit /\ Spend(d)
        /\ UNCHANGED <<made, calls, cancelled, wire, stored>>
    BY <1>9 DEF Outcome, FlushAccepted, FlushRejected, FlushFailed, SendAccepted,
         SendRejected, SendFailed, OnceAccepted, OnceRejected, OnceFailed,
         Accepted, Rejected, Retryable
  <2>2. left' \in Nat
    BY <2>1, SpendTypeOK
  <2>3. stats' \in [Counters -> Nat]
    BY <1>9, CountTypeOK
       DEF Outcome, FlushAccepted, FlushRejected, FlushFailed, SendAccepted,
         SendRejected, SendFailed, OnceAccepted, OnceRejected, OnceFailed,
         SendRetries, SendGivesUp, Drop, OnceAgain, OnceGivesUp
  <2>4. /\ attempt' \in Nat /\ pc' \in Labels
        /\ Control'
    <3>1. CASE FlushAccepted(d) \/ FlushRejected(d)
      BY <1>1, <3>1 DEF FlushAccepted, FlushRejected, Labels
    <3>2. CASE FlushFailed(d)
      BY <1>1, <1>5, <3>2 DEF FlushFailed, FlushEnds, Labels
    <3>3. CASE SendAccepted(d) \/ SendRejected(d) \/ OnceAccepted(d) \/ OnceRejected(d)
      BY <1>5, <3>3 DEF SendAccepted, SendRejected, OnceAccepted, OnceRejected,
                        Drop, OnceGivesUp
    <3>4. CASE SendFailed(d)
      BY <1>1, <1>5, <3>4 DEF SendFailed, SendRetries, SendGivesUp, Backs, Drop, Labels
    <3>5. CASE OnceFailed(d)
      BY <1>1, <1>5, <3>5 DEF OnceFailed, OnceAgain, OnceGivesUp, Labels
    <3>6. QED
      BY <1>9, <3>1, <3>2, <3>3, <3>4, <3>5 DEF Outcome
  <2>5. QED
    BY <1>1, <1>4, <2>1, <2>2, <2>3, <2>4
<1>10. CASE SendExpired
  BY <1>1, <1>4, <1>5, <1>10, CountTypeOK
     DEF SendExpired, SendRetries, SendGivesUp, Backs, Drop, Labels
<1>11. CASE OnceExpired
  BY <1>1, <1>4, <1>5, <1>11, CountTypeOK DEF OnceExpired, OnceAgain, OnceGivesUp, Labels
<1>12. CASE SendCut \/ OnceCut
  <2>1. left' \in Nat
    BY <1>1, <1>12 DEF SendCut, OnceCut
  <2>2. QED
    BY <1>1, <1>4, <1>5, <1>12, <2>1, CountTypeOK DEF SendCut, OnceCut, Drop, OnceGivesUp
<1>13. CASE Cancel
  BY <1>1, <1>4, <1>13 DEF Cancel
<1>14. ASSUME NEW b \in wire, ServerStores(b) PROVE CallTypeOK' /\ Control'
  <2>1. /\ wire' \subseteq Batches /\ stored' \subseteq Batches
    BY <1>1, <1>14 DEF ServerStores
  <2>2. QED
    BY <1>1, <1>4, <1>14, <2>1 DEF ServerStores
<1>15. CASE UNCHANGED vars
  BY <1>1, <1>4, <1>15 DEF vars
<1>16. QED
  BY <1>2, <1>6, <1>7, <1>8, <1>9, <1>10, <1>11, <1>12, <1>13, <1>14, <1>15
     DEF Next, Step

(***************************************************************************)
(* The theorems                                                            *)
(***************************************************************************)

\* The inductive invariant: types, the meaning of the program counter, and the
\* order of ages.  The order is needed for what comes next: it makes the front
\* of the buffer the oldest batch and all batches distinct.
IInv == TypeOK /\ Control /\ OldestFirst

LEMMA InitIInv == Init => IInv
<1> SUFFICES ASSUME Init PROVE IInv
  OBVIOUS
<1>1. pending = <<>> /\ DOMAIN pending = {} /\ Elements(pending) = {} /\ Len(pending) = 0
  BY DEF Init, Elements
<1>2. TypeOK
  <2>1. <<>> \in Seq(Nat) /\ MaxBuffered \in Nat /\ MaxCalls \in Nat
    BY PusherAssumption, EmptySeq
  <2>2. stats \in [Counters -> Nat]
    BY DEF Init
  <2>3. Elements(pending) \subseteq Batches /\ 0 \in 0 .. made /\ 0 \in 0 .. MaxCalls
    BY <1>1, <2>1 DEF Init
  <2>4. pending \in Seq(Nat) /\ Len(pending) <= MaxBuffered
    BY <1>1, <2>1
  <2>5. /\ cur \in 0 .. made /\ calls \in 0 .. MaxCalls
        /\ attempt \in Nat /\ left \in Nat /\ made \in Nat
    BY <2>3 DEF Init
  <2>6. pc \in Labels /\ cancelled \in BOOLEAN
    BY DEF Init, Labels
  <2>7. /\ wire \subseteq Batches /\ stored \subseteq Batches
        /\ acked \subseteq Batches /\ recovered \subseteq Batches
        /\ refused \subseteq Batches /\ evicted \subseteq Batches
        /\ givenUp \subseteq Batches
    BY DEF Init
  <2>8. QED
    BY <2>2, <2>3, <2>4, <2>5, <2>6, <2>7 DEF TypeOK
<1>3. Control
  BY DEF Init, Control
<1>4. OldestFirst
  BY <1>1 DEF Init, OldestFirst, Increasing
<1>5. QED
  BY <1>2, <1>3, <1>4 DEF IInv

LEMMA NextIInv == IInv /\ [Next]_vars => IInv'
<1> SUFFICES ASSUME IInv, [Next]_vars PROVE IInv'
  OBVIOUS
<1>1. BoxTypeOK' /\ OldestFirst'
  BY EveryStepMoves, MoveKeepsOrder DEF IInv
<1>2. CallTypeOK' /\ Control'
  BY StepKeepsCall DEF IInv
<1>3. TypeOK'
  BY <1>1, <1>2 DEF BoxTypeOK, CallTypeOK, TypeOK
<1>4. QED
  BY <1>1, <1>2, <1>3 DEF IInv

LEMMA Invariance == Spec => []IInv
<1>1. QED
  BY InitIInv, NextIInv, PTL DEF Spec

\* Every state of the pusher is well typed; in particular the buffer never
\* outgrows MaxBuffered.
THEOREM TypeCorrect == Spec => []TypeOK
<1>1. IInv => TypeOK
  BY DEF IInv
<1>2. QED
  BY <1>1, Invariance, PTL

\* flushPending really goes oldest first, and the limit takes the oldest: the
\* buffer is in the order of the calls, younger than what the limit pushed out
\* and older than what is in hand.
THEOREM BufferInOrder == Spec => []OldestFirst
<1>1. IInv => OldestFirst
  BY DEF IInv
<1>2. QED
  BY <1>1, Invariance, PTL

(***************************************************************************)
(* No batch is lost silently                                               *)
(***************************************************************************)

\* NothingLost, spelled out for the provers.
Apart ==
    /\ Elements(pending) \cap (InHand \union acked \union recovered \union refused
                               \union evicted \union givenUp) = {}
    /\ InHand \cap (acked \union recovered \union refused \union evicted \union givenUp) = {}
    /\ acked \cap (recovered \union refused \union evicted \union givenUp) = {}
    /\ recovered \cap (refused \union evicted \union givenUp) = {}
    /\ refused \cap (evicted \union givenUp) = {}
    /\ evicted \cap givenUp = {}

Together ==
    Batches \subseteq Elements(pending) \union InHand \union acked \union recovered
                        \union refused \union evicted \union givenUp

LEMMA PlacesSpelledOut == Apart /\ Together => NothingLost
<1> SUFFICES ASSUME Apart, Together, NEW b \in Batches
             PROVE  \E i \in DOMAIN Places :
                       /\ b \in Places[i]
                       /\ \A j \in DOMAIN Places : b \in Places[j] => j = i
  BY DEF NothingLost
<1>1. /\ DOMAIN Places = {1, 2, 3, 4, 5, 6, 7}
      /\ Places[1] = Elements(pending) /\ Places[2] = InHand /\ Places[3] = acked
      /\ Places[4] = recovered /\ Places[5] = refused /\ Places[6] = evicted
      /\ Places[7] = givenUp
  BY DEF Places
<1>2. \A i, j \in DOMAIN Places : b \in Places[i] /\ b \in Places[j] => i = j
  BY <1>1 DEF Apart
<1>3. \E i \in DOMAIN Places : b \in Places[i]
  BY <1>1 DEF Together
<1>4. QED
  BY <1>2, <1>3

LEMMA MoveKeepsPlaces ==
    IInv /\ Apart /\ Together /\ Move => Apart' /\ Together'
<1> SUFFICES ASSUME IInv, Apart, Together, Move
             PROVE  Apart' /\ Together'
  OBVIOUS
<1>1. /\ TypeOK /\ Control /\ OldestFirst /\ made \in Nat
      /\ \A b \in Elements(pending) \union acked \union recovered \union refused
                  \union evicted \union givenUp : b \in Batches
  BY DEF IInv, TypeOK
<1>2. CASE Quiet
  BY <1>2 DEF Quiet, fates, Apart, Together, InHand, Batches
<1>3. CASE Taken
  <2>1. /\ InHand = {} /\ InHand' = {made + 1} /\ Batches' = Batches \union {made + 1}
        /\ made + 1 \notin Batches /\ UNCHANGED <<Elements(pending), fates>>
    BY <1>1, <1>3 DEF Taken, InHand, Batches
  <2>2. QED
    BY <1>1, <2>1 DEF fates, Apart, Together
<1>4. ASSUME cur # 0, cur' = 0 PROVE InHand = {cur} /\ InHand' = {}
  BY <1>4 DEF InHand
<1>5. ASSUME made' = made PROVE Batches' = Batches
  BY <1>5 DEF Batches
<1>6. CASE Acked
  BY <1>4, <1>5, <1>6 DEF Acked, Apart, Together
<1>7. CASE GivenUp
  BY <1>4, <1>5, <1>7 DEF GivenUp, Apart, Together
<1>8. CASE Buffered
  <2>1. Elements(pending') \subseteq Elements(pending) \union {cur}
    BY <1>1, <1>8, BufferedEffect, PusherAssumption, LenProperties DEF Buffered, TypeOK
  <2>2. QED
    BY <1>4, <1>5, <1>8, <2>1 DEF Buffered, Apart, Together
<1>9. CASE Recovered
  <2>1. /\ Elements(pending') = Elements(pending) \ {Head(pending)}
        /\ Head(pending) \in Elements(pending) /\ InHand' = InHand
    BY <1>1, <1>9, PoppedEffect DEF Recovered, InHand
  <2>2. QED
    BY <1>5, <1>9, <2>1 DEF Recovered, Apart, Together
<1>10. CASE Refused
  <2>1. /\ Elements(pending') = Elements(pending) \ {Head(pending)}
        /\ Head(pending) \in Elements(pending) /\ InHand' = InHand
    BY <1>1, <1>10, PoppedEffect DEF Refused, InHand
  <2>2. QED
    BY <1>5, <1>10, <2>1 DEF Refused, Apart, Together
<1>11. QED
  BY <1>2, <1>3, <1>6, <1>7, <1>8, <1>9, <1>10 DEF Move

LEMMA PlacesInvariance == Spec => [](IInv /\ Apart /\ Together)
<1>1. Init => Apart /\ Together
  BY DEF Init, Apart, Together, InHand, Batches, Elements
<1>2. IInv /\ (Apart /\ Together) /\ [Next]_vars => (Apart /\ Together)'
  BY EveryStepMoves, MoveKeepsPlaces DEF IInv
<1>3. QED
  BY <1>1, <1>2, Invariance, PTL DEF Spec

\* Every batch a caller brings is, at every moment, in exactly one place.
THEOREM NoSilentLoss == Spec => []NothingLost
<1>1. QED
  BY PlacesInvariance, PlacesSpelledOut, PTL

(***************************************************************************)
(* The counters                                                            *)
(***************************************************************************)

LEMMA FatesFinite ==
    ASSUME TypeOK
    PROVE  /\ IsFiniteSet(acked) /\ IsFiniteSet(recovered) /\ IsFiniteSet(refused)
           /\ IsFiniteSet(evicted)
           /\ Cardinality(acked) \in Nat /\ Cardinality(recovered) \in Nat
           /\ Cardinality(refused) \in Nat /\ Cardinality(evicted) \in Nat
<1>1. IsFiniteSet(Batches)
  BY FS_Interval DEF TypeOK, Batches
<1>2. QED
  BY <1>1, FS_Subset, FS_CardinalityType DEF TypeOK

LEMMA MoveKeepsCounters ==
    IInv /\ Apart /\ Together /\ CountersAddUp /\ Move => CountersAddUp'
<1> SUFFICES ASSUME IInv, Apart, Together, CountersAddUp, Move
             PROVE  CountersAddUp'
  OBVIOUS
<1> USE DEF Counters
<1>1. /\ TypeOK /\ Control /\ OldestFirst
      /\ stats \in [Counters -> Nat] /\ Len(pending) \in Nat
      /\ Len(pending) <= MaxBuffered /\ MaxBuffered \in Nat
  BY PusherAssumption, LenProperties DEF IInv, TypeOK
<1>2. /\ IsFiniteSet(acked) /\ IsFiniteSet(recovered) /\ IsFiniteSet(refused)
      /\ IsFiniteSet(evicted)
      /\ Cardinality(acked) \in Nat /\ Cardinality(recovered) \in Nat
      /\ Cardinality(refused) \in Nat /\ Cardinality(evicted) \in Nat
  BY <1>1, FatesFinite
<1>3. CASE Quiet \/ Taken \/ GivenUp
  BY <1>1, <1>3 DEF Quiet, Taken, GivenUp, Adds, fates, CountersAddUp
<1>4. CASE Acked
  <2>1. cur \notin acked
    BY <1>4 DEF Acked, Apart, InHand
  <2>2. Cardinality(acked') = Cardinality(acked) + 1
    BY <1>2, <1>4, <2>1, FS_AddElement DEF Acked
  <2>3. QED
    BY <1>1, <1>2, <1>4, <2>2 DEF Acked, Adds, CountersAddUp
<1>5. CASE Recovered
  <2>1. /\ Head(pending) \in Elements(pending)
        /\ Len(pending') = Len(pending) - 1
    BY <1>1, <1>5, PoppedEffect DEF Recovered
  <2>2. Cardinality(recovered') = Cardinality(recovered) + 1
    BY <1>2, <1>5, <2>1, FS_AddElement DEF Recovered, Apart
  <2>3. /\ stats'["Batches"] = stats["Batches"] + 1
        /\ stats'["Retried"] = stats["Retried"] + 1
        /\ stats'["RejectedDropped"] = stats["RejectedDropped"]
        /\ stats'["Dropped"] = stats["Dropped"]
    BY <1>5 DEF Recovered, Adds
  <2>4. UNCHANGED <<acked, evicted, refused>>
    BY <1>5 DEF Recovered
  <2>5. /\ stats["Batches"] = Cardinality(acked) + Cardinality(recovered)
        /\ stats["Retried"] = Cardinality(recovered)
        /\ stats["RejectedDropped"] = Cardinality(refused)
        /\ stats["Dropped"] = Cardinality(recovered) + Cardinality(refused)
                                + Cardinality(evicted) + Len(pending)
    BY DEF CountersAddUp
  <2>6. stats'["Batches"] = Cardinality(acked') + Cardinality(recovered')
    BY <1>2, <2>2, <2>3, <2>4, <2>5
  <2>7. /\ stats'["Retried"] = Cardinality(recovered')
        /\ stats'["RejectedDropped"] = Cardinality(refused')
    BY <1>2, <2>2, <2>3, <2>4, <2>5
  <2>8. stats'["Dropped"] = Cardinality(recovered') + Cardinality(refused')
                                + Cardinality(evicted') + Len(pending')
    <3>1. /\ Cardinality(refused') = Cardinality(refused)
          /\ Cardinality(evicted') = Cardinality(evicted)
      BY <2>4
    <3>2. Len(pending') = Len(pending) - 1
      BY <2>1
    <3>3. QED
      BY <1>1, <1>2, <2>2, <2>3, <2>5, <3>1, <3>2
  <2>9. QED
    BY <2>6, <2>7, <2>8 DEF CountersAddUp
<1>6. CASE Refused
  <2>1. /\ Head(pending) \in Elements(pending)
        /\ Len(pending') = Len(pending) - 1
    BY <1>1, <1>6, PoppedEffect DEF Refused
  <2>2. Cardinality(refused') = Cardinality(refused) + 1
    BY <1>2, <1>6, <2>1, FS_AddElement DEF Refused, Apart
  <2>3. /\ stats'["Batches"] = stats["Batches"]
        /\ stats'["Retried"] = stats["Retried"]
        /\ stats'["RejectedDropped"] = stats["RejectedDropped"] + 1
        /\ stats'["Dropped"] = stats["Dropped"]
    BY <1>6 DEF Refused, Adds
  <2>4. UNCHANGED <<acked, evicted, recovered>>
    BY <1>6 DEF Refused
  <2>5. /\ stats["Batches"] = Cardinality(acked) + Cardinality(recovered)
        /\ stats["Retried"] = Cardinality(recovered)
        /\ stats["RejectedDropped"] = Cardinality(refused)
        /\ stats["Dropped"] = Cardinality(recovered) + Cardinality(refused)
                                + Cardinality(evicted) + Len(pending)
    BY DEF CountersAddUp
  <2>6. stats'["Batches"] = Cardinality(acked') + Cardinality(recovered')
    BY <1>2, <2>2, <2>3, <2>4, <2>5
  <2>7. /\ stats'["Retried"] = Cardinality(recovered')
        /\ stats'["RejectedDropped"] = Cardinality(refused')
    BY <1>2, <2>2, <2>3, <2>4, <2>5
  <2>8. stats'["Dropped"] = Cardinality(recovered') + Cardinality(refused')
                                + Cardinality(evicted') + Len(pending')
    BY <1>1, <1>2, <2>1, <2>2, <2>3, <2>4, <2>5
  <2>9. QED
    BY <2>6, <2>7, <2>8 DEF CountersAddUp
<1>7. CASE Buffered
  <2>1. Cardinality(evicted') + Len(pending') = Cardinality(evicted) + Len(pending) + 1
    <3>1. CASE Len(pending) < MaxBuffered
      <4>1. Len(pending') = Len(pending) + 1 /\ Elements(pending') = Elements(pending) \union {cur}
        BY <1>1, <1>7, <3>1, BufferedEffect DEF Buffered
      <4>2. evicted' = evicted
        BY <1>7, <4>1 DEF Buffered
      <4>3. QED
        BY <1>1, <1>2, <4>1, <4>2
    <3>2. CASE Len(pending) = MaxBuffered
      <4>1. /\ pending # <<>> /\ Len(pending') = Len(pending)
            /\ Elements(pending') = (Elements(pending) \ {Head(pending)}) \union {cur}
        BY <1>1, <1>7, <3>2, BufferedEffect DEF Buffered
      <4>2. Head(pending) \in Elements(pending)
        BY <1>1, <4>1, PopOldest DEF TypeOK, OldestFirst
      <4>3. Head(pending) # cur /\ Head(pending) \notin evicted
        BY <1>7, <4>2 DEF Buffered, Apart, InHand
      <4>4. evicted' = evicted \union {Head(pending)}
        BY <1>7, <4>1, <4>2, <4>3 DEF Buffered
      <4>5. Cardinality(evicted') = Cardinality(evicted) + 1
        BY <1>2, <4>3, <4>4, FS_AddElement
      <4>6. QED
        BY <1>1, <1>2, <4>1, <4>5
    <3>3. QED
      BY <1>1, <3>1, <3>2
  <2>2. Len(pending') \in Nat /\ Cardinality(evicted') \in Nat
    <3>1. IsFiniteSet(evicted')
      <4>1. evicted' \subseteq evicted \union Elements(pending) \union {cur}
        BY <1>7 DEF Buffered
      <4>2. IsFiniteSet(Elements(pending))
        BY <1>1, BufferCounts DEF TypeOK, OldestFirst
      <4>3. IsFiniteSet(evicted \union Elements(pending) \union {cur})
        BY <1>2, <4>2, FS_Union, FS_AddElement
      <4>4. QED
        BY <4>1, <4>3, FS_Subset
    <3>2. QED
      BY <1>1, <1>7, <3>1, FS_CardinalityType, BufferedEffect, LenProperties DEF Buffered
  <2>3. /\ stats'["Batches"] = stats["Batches"]
        /\ stats'["Retried"] = stats["Retried"]
        /\ stats'["RejectedDropped"] = stats["RejectedDropped"]
        /\ stats'["Dropped"] = stats["Dropped"] + 1
    BY <1>7 DEF Buffered, Adds
  <2>4. UNCHANGED <<acked, recovered, refused>>
    BY <1>7 DEF Buffered
  <2>5. /\ stats["Batches"] = Cardinality(acked) + Cardinality(recovered)
        /\ stats["Retried"] = Cardinality(recovered)
        /\ stats["RejectedDropped"] = Cardinality(refused)
        /\ stats["Dropped"] = Cardinality(recovered) + Cardinality(refused)
                                + Cardinality(evicted) + Len(pending)
    BY DEF CountersAddUp
  <2>6. stats'["Batches"] = Cardinality(acked') + Cardinality(recovered')
    BY <1>2, <2>2, <2>3, <2>4, <2>5
  <2>7. /\ stats'["Retried"] = Cardinality(recovered')
        /\ stats'["RejectedDropped"] = Cardinality(refused')
    BY <1>2, <2>2, <2>3, <2>4, <2>5
  <2>8. stats'["Dropped"] = Cardinality(recovered') + Cardinality(refused')
                                + Cardinality(evicted') + Len(pending')
    <3> DEFINE e1 == Cardinality(evicted')
               n1 == Len(pending')
    <3>1. Cardinality(recovered') = Cardinality(recovered)
          /\ Cardinality(refused') = Cardinality(refused)
      BY <2>4
    <3>2. e1 \in Nat /\ n1 \in Nat /\ e1 + n1 = Cardinality(evicted) + Len(pending) + 1
      BY <2>1, <2>2
    <3>3. stats'["Dropped"] = Cardinality(recovered) + Cardinality(refused)
                                + Cardinality(evicted) + Len(pending) + 1
      BY <2>3, <2>5
    <3> HIDE DEF e1, n1
    <3>4. Cardinality(recovered) + Cardinality(refused) + e1 + n1
            = Cardinality(recovered) + Cardinality(refused)
                + Cardinality(evicted) + Len(pending) + 1
      <4> DEFINE a == Cardinality(recovered)
                 b == Cardinality(refused)
                 c == Cardinality(evicted)
                 m == Len(pending)
      <4>1. a \in Nat /\ b \in Nat /\ c \in Nat /\ m \in Nat /\ e1 + n1 = c + m + 1
        BY <1>1, <1>2, <3>2
      <4> HIDE DEF a, b, c, m
      <4>2. a + b + e1 + n1 = a + b + c + m + 1
        BY <3>2, <4>1
      <4>3. QED
        BY <4>2 DEF a, b, c, m
    <3>5. QED
      BY <3>1, <3>3, <3>4 DEF e1, n1
  <2>9. QED
    BY <2>6, <2>7, <2>8 DEF CountersAddUp
<1>8. QED
  BY <1>3, <1>4, <1>5, <1>6, <1>7 DEF Move

\* The counters of the summary line tell the truth about the batches.
THEOREM CountersTruthful == Spec => []CountersAddUp
<1>1. Init => CountersAddUp /\ Apart /\ Together
  BY FS_EmptySet DEF Init, CountersAddUp, Counters, Apart, Together, InHand, Batches, Elements
<1>2. IInv /\ (CountersAddUp /\ Apart /\ Together) /\ [Next]_vars
        => (CountersAddUp /\ Apart /\ Together)'
  BY EveryStepMoves, MoveKeepsPlaces, MoveKeepsCounters DEF IInv
<1>3. QED
  BY <1>1, <1>2, Invariance, PTL DEF Spec

(***************************************************************************)
(* Loss needs a long outage                                                *)
(***************************************************************************)

Dropped == Elements(pending) \union recovered \union refused \union evicted

\* No move takes a batch out of the ones that were dropped at some time.
LEMMA DroppedGrows == IInv /\ Move => Dropped \subseteq Dropped'
<1> SUFFICES ASSUME IInv, Move PROVE Dropped \subseteq Dropped'
  OBVIOUS
<1>1. CASE Quiet \/ Taken \/ Acked \/ GivenUp
  BY <1>1 DEF Quiet, Taken, Acked, GivenUp, fates, Dropped
<1>2. CASE Buffered
  BY <1>2 DEF Buffered, Dropped
<1>3. CASE Recovered \/ Refused
  <2>1. Elements(pending') = Elements(pending) \ {Head(pending)}
    BY <1>3, PoppedEffect DEF IInv, Recovered, Refused
  <2>2. QED
    BY <1>3, <2>1 DEF Recovered, Refused, Dropped
<1>4. QED
  BY <1>1, <1>2, <1>3 DEF Move

LEMMA MoveKeepsLosses ==
    IInv /\ IInv' /\ LossNeedsYounger /\ Move => LossNeedsYounger'
<1> SUFFICES ASSUME IInv, IInv', LossNeedsYounger, Move, NEW e \in evicted'
             PROVE  Cardinality({b \in Dropped' : b > e}) >= MaxBuffered
  BY DEF LossNeedsYounger, Dropped
<1> DEFINE After == {b \in Dropped' : b > e}
<1>1. IsFiniteSet(After) /\ Cardinality(After) \in Nat
  <2>1. IsFiniteSet(Dropped')
    <3>1. made' \in Nat /\ Dropped' \subseteq 1 .. made'
      BY DEF IInv, TypeOK, Batches, Dropped
    <3>2. IsFiniteSet(1 .. made')
      BY <3>1, FS_Interval
    <3>3. QED
      BY <3>1, <3>2, FS_Subset
  <2>2. After \subseteq Dropped'
    OBVIOUS
  <2>3. QED
    BY <2>1, <2>2, FS_Subset, FS_CardinalityType
<1>2. MaxBuffered \in Nat \ {0}
  BY PusherAssumption
<1>3. CASE e \in evicted
  <2> DEFINE Before == {b \in Dropped : b > e}
  <2>1. Before \subseteq After
    BY DroppedGrows
  <2>2. IsFiniteSet(Before) /\ Cardinality(Before) <= Cardinality(After)
    BY <1>1, <2>1, FS_Subset
  <2>3. Cardinality(Before) >= MaxBuffered /\ Cardinality(Before) \in Nat
    BY <1>3, <2>2, FS_CardinalityType DEF LossNeedsYounger, Dropped
  <2>4. QED
    BY <1>1, <1>2, <2>2, <2>3
<1>4. CASE e \notin evicted
  <2>1. Buffered
    BY <1>4 DEF Move, Quiet, Taken, Acked, GivenUp, Recovered, Refused, fates
  <2>2. e \in (Elements(pending) \union {cur}) \ Elements(pending')
    BY <1>4, <2>1 DEF Buffered
  <2>3. Len(pending) = MaxBuffered
    BY <1>2, <2>1, <2>2, BufferedEffect, LenProperties DEF IInv, TypeOK, Buffered
  <2>4. /\ pending' \in Seq(Nat) /\ Increasing(pending)' /\ Len(pending') = MaxBuffered
    BY <2>1, <2>3, BufferedEffect DEF IInv, Buffered
  <2>5. IsFiniteSet(Elements(pending')) /\ Cardinality(Elements(pending')) = MaxBuffered
    BY <2>4, BufferCounts DEF Increasing
  <2>6. Elements(pending') \subseteq After
    <3> SUFFICES ASSUME NEW b \in Elements(pending') PROVE b \in Dropped' /\ b > e
      OBVIOUS
    <3>1. e < b
      BY DEF IInv, OldestFirst
    <3>2. b \in Nat /\ e \in Nat
      BY DEF IInv, TypeOK, Batches
    <3>3. QED
      BY <3>1, <3>2 DEF Dropped
  <2>7. Cardinality(Elements(pending')) <= Cardinality(After)
    BY <1>1, <2>6, FS_Subset
  <2>8. QED
    BY <1>1, <1>2, <2>5, <2>7
<1>5. QED
  BY <1>3, <1>4

\* A batch is pushed out of the buffer only after MaxBuffered younger ones were
\* dropped as well, however flushes, rejections and new batches interleave.
THEOREM LossIsLate == Spec => []LossNeedsYounger
<1>1. Init => LossNeedsYounger
  BY DEF Init, LossNeedsYounger
<1>2. IInv /\ LossNeedsYounger /\ [Next]_vars => LossNeedsYounger'
  BY NextIInv, EveryStepMoves, MoveKeepsLosses DEF IInv
<1>3. QED
  BY <1>1, <1>2, Invariance, PTL DEF Spec

(***************************************************************************)
(* The pusher implements the delivery box                                  *)
(***************************************************************************)

\* The operator Outbox sees through its own EXTENDS is the one seen here.
LEMMA SameCardinality == ASSUME NEW S PROVE O!Cardinality(S) = Cardinality(S)
BY DEF O!Cardinality, Cardinality

LEMMA InitOutbox == Init => O!Init
BY DEF Init, O!Init, InHand, Elements

LEMMA MoveOutbox == IInv /\ Move => [O!Next]_(O!box)
<1> SUFFICES ASSUME IInv, Move PROVE [O!Next]_(O!box)
  OBVIOUS
<1>1. /\ TypeOK /\ Control /\ OldestFirst
      /\ Len(pending) \in Nat /\ Len(pending) <= MaxBuffered /\ MaxBuffered \in Nat
      /\ Cardinality(Elements(pending)) = Len(pending)
  BY PusherAssumption, LenProperties, BufferCounts DEF IInv, TypeOK, OldestFirst
<1>2. ASSUME cur # 0, cur' = 0 PROVE InHand = {cur} /\ InHand' = {}
  BY <1>2 DEF InHand
<1>3. CASE Quiet
  BY <1>3 DEF Quiet, fates, O!box, InHand
<1>4. CASE Taken
  <2>1. InHand = {} /\ InHand' = {made + 1}
    BY <1>1, <1>4 DEF Taken, InHand, TypeOK
  <2>2. O!Accept
    BY <1>4, <2>1 DEF Taken, fates, O!Accept
  <2>3. QED
    BY <2>2 DEF O!Next
<1>5. CASE Acked
  <2>1. O!Deliver
    BY <1>2, <1>5 DEF Acked, O!Deliver
  <2>2. QED
    BY <2>1 DEF O!Next
<1>6. CASE GivenUp
  <2>1. O!GiveUp
    BY <1>2, <1>6 DEF GivenUp, O!GiveUp
  <2>2. QED
    BY <2>1 DEF O!Next
<1>7. CASE Buffered
  <2>1. cur # 0 /\ InHand = {cur} /\ InHand' = {} /\ pending' = Buffer(pending, cur)
        /\ UNCHANGED <<made, acked, recovered, refused, givenUp>>
    BY <1>2, <1>7 DEF Buffered
  <2>2. CASE Len(pending) < MaxBuffered
    <3>1. Elements(pending') = Elements(pending) \union {cur}
      BY <1>1, <2>1, <2>2, BufferedEffect
    <3>2. evicted' = evicted
      BY <1>7, <3>1 DEF Buffered
    <3>3. Cardinality(Elements(pending)) < MaxBuffered
      BY <1>1, <2>2
    <3>4. O!HoldInFree
      BY <2>1, <3>1, <3>2, <3>3, SameCardinality DEF O!HoldInFree
    <3>5. QED
      BY <3>4 DEF O!Next
  <2>3. CASE Len(pending) = MaxBuffered
    <3> DEFINE h == Head(pending)
    <3>1. /\ pending # <<>>
          /\ Elements(pending') = (Elements(pending) \ {h}) \union {cur}
      BY <1>1, <2>1, <2>3, BufferedEffect
    <3>2. O!Oldest(h) /\ h \in Elements(pending)
      BY <1>1, <3>1, PopOldest DEF TypeOK, OldestFirst, O!Oldest
    <3>3. h # cur
      <4>1. h < cur /\ cur \in Nat
        BY <1>1, <2>1, <3>2 DEF OldestFirst, TypeOK
      <4>2. QED
        BY <4>1
    <3> HIDE DEF h
    <3>4. evicted' = evicted \union {h}
      BY <1>7, <3>1, <3>2, <3>3 DEF Buffered
    <3>5. Cardinality(Elements(pending)) = MaxBuffered
      BY <1>1, <2>3
    <3>6. O!HoldInFull(h)
      BY <2>1, <3>1, <3>2, <3>4, <3>5, SameCardinality DEF O!HoldInFull
    <3>7. QED
      BY <3>2, <3>6 DEF O!Next
  <2>4. QED
    BY <1>1, <2>2, <2>3
<1>8. CASE Recovered \/ Refused
  <2> DEFINE h == Head(pending)
  <2>1. /\ Elements(pending') = Elements(pending) \ {h}
        /\ h \in Elements(pending) /\ O!Oldest(h) /\ InHand' = InHand
    BY <1>1, <1>8, PoppedEffect DEF Recovered, Refused, O!Oldest, InHand
  <2>2. O!Recover(h) \/ O!Refuse(h)
    BY <1>8, <2>1 DEF Recovered, Refused, O!Recover, O!Refuse
  <2>3. QED
    BY <2>1, <2>2 DEF O!Next
<1>9. QED
  BY <1>3, <1>4, <1>5, <1>6, <1>7, <1>8 DEF Move

\* The pusher, with its attempts, deadlines and answers, implements the delivery
\* box: to its caller it is nothing more than that.
THEOREM RefinesOutbox == Spec => ImplementsOutbox
<1>1. IInv /\ [Next]_vars => [O!Next]_(O!box)
  BY EveryStepMoves, MoveOutbox DEF IInv
<1>2. QED
  BY <1>1, InitOutbox, Invariance, PTL DEF Spec, ImplementsOutbox, O!Spec

(***************************************************************************)
(* What is settled is not posted again                                     *)
(***************************************************************************)

\* A request leaves only in three steps, for the front of the buffer or for the
\* batch in hand.
LEMMA PostsFromHere ==
    ASSUME TypeOK, Control, Step, Posts
    PROVE  Posted \in Elements(pending) \union InHand
<1> USE DEF Posts, Posted
<1>1. CASE FlushPost
  <2>1. pending \in Seq(Nat) /\ pending # <<>> /\ Posted = Head(pending)
    BY <1>1 DEF FlushPost, TypeOK
  <2>2. 1 \in DOMAIN pending /\ Head(pending) = pending[1]
    BY <2>1
  <2>3. QED
    BY <2>1, <2>2 DEF Elements
<1>2. CASE SendPost \/ OncePost
  BY <1>2 DEF SendPost, OncePost, Control, InHand
<1>3. CASE SendExpired \/ SendCut \/ OnceExpired \/ OnceCut
  BY <1>3 DEF SendExpired, SendCut, SendRetries, SendGivesUp, Drop, Return,
              OnceExpired, OnceCut, OnceAgain, OnceGivesUp
<1>4. CASE FlushDone \/ SendWakes \/ OnceWakes
  BY <1>4 DEF FlushDone, FlushEnds, Return, SendWakes, OnceWakes
<1>5. ASSUME NEW d \in Ticks, Outcome(d) PROVE FALSE
  <2>1. CASE FlushAccepted(d) \/ FlushRejected(d) \/ FlushFailed(d)
    BY <2>1 DEF FlushAccepted, FlushRejected, FlushFailed, FlushEnds, Return
  <2>2. CASE SendAccepted(d) \/ SendRejected(d) \/ SendFailed(d)
    BY <2>2 DEF SendAccepted, SendRejected, SendFailed, SendRetries, SendGivesUp, Drop, Return
  <2>3. CASE OnceAccepted(d) \/ OnceRejected(d) \/ OnceFailed(d)
    BY <2>3 DEF OnceAccepted, OnceRejected, OnceFailed, OnceAgain, OnceGivesUp, Return
  <2>4. QED
    BY <1>5, <2>1, <2>2, <2>3 DEF Outcome
<1>6. QED
  BY <1>1, <1>2, <1>3, <1>4, <1>5 DEF Step

\* A batch whose fate is known is never posted again, however long the calls and
\* the outages go on: the server gets a batch twice only when the agent does not
\* know what became of the first request.
THEOREM SettledStaysSettled == Spec => NeverPostedAgain
<1>1. IInv /\ Apart /\ [Next]_vars =>
        [Posts => Posted \notin acked \union recovered \union refused
                                  \union evicted \union givenUp]_vars
  <2> SUFFICES ASSUME IInv, Apart, Next, Posts
               PROVE  Posted \notin acked \union recovered \union refused
                                        \union evicted \union givenUp
    OBVIOUS
  <2>1. CASE Step
    BY <2>1, PostsFromHere DEF IInv, Apart
  <2>2. CASE Call
    BY <2>2 DEF Call, CallSend, CallSendEmpty, CallFlush, CallSendOnce, Begin, Posts
  <2>3. CASE (\E b \in wire : ServerStores(b)) \/ Cancel
    BY <2>3 DEF ServerStores, Cancel, caller, Posts
  <2>4. QED
    BY <2>1, <2>2, <2>3 DEF Next
<1>2. Spec => [](IInv /\ Apart)
  BY PlacesInvariance, PTL
<1>3. QED
  BY <1>1, <1>2, PTL DEF Spec, NeverPostedAgain

(***************************************************************************)
(* A call is short                                                         *)
(***************************************************************************)

Attempts == Len(backoff)

\* The steps a call still has before it, at most: three for each attempt that is
\* left (wait, post, outcome), and two for each buffered batch.
StepsLeft ==
    CASE pc = "idle" -> 0
      [] pc = "flush" -> 2 * Len(pending) + 3 * Attempts + 4
      [] pc = "flushPost" -> 2 * Len(pending) + 3 * Attempts + 3
      [] pc = "send" -> 3 * (Attempts - attempt) + 3
      [] pc = "sendPost" -> 3 * (Attempts - attempt) + 2
      [] pc = "backoff" -> 3 * (Attempts - attempt) + 1
      [] pc = "once" -> 3 * (OnceRetries - attempt) + 3
      [] pc = "oncePost" -> 3 * (OnceRetries - attempt) + 2
      [] pc = "onceWait" -> 3 * (OnceRetries - attempt) + 1

\* A full buffer and every attempt of Send, or every attempt of SendOnce
Longest == 2 * MaxBuffered + 3 * Attempts + 3 * OnceRetries + 4

\* The attempts are counted from 0 in each call, and no further than there are.
AttemptCounted ==
    /\ pc \in {"idle", "flush", "flushPost"} => attempt = 0
    /\ pc \in {"send", "sendPost"} => attempt <= Attempts
    /\ pc = "backoff" => attempt < Attempts
    /\ pc \in {"once", "oncePost"} => attempt <= OnceRetries
    /\ pc = "onceWait" => attempt < OnceRetries

\* How a step moves the program counter, the attempt and the length of the buffer.
Goes(from, to) == pc = from /\ pc' = to
Walk ==
    \/ /\ Goes("flush", "flushPost") /\ attempt' = attempt /\ pending' = pending
    \/ /\ Goes("flushPost", "flush") /\ attempt' = attempt
       /\ Len(pending') = Len(pending) - 1
    \/ /\ Goes("flush", "send") \/ Goes("flushPost", "send")
       /\ attempt' = attempt
    \/ /\ Goes("send", "sendPost") /\ attempt' = attempt
    \/ /\ Goes("send", "backoff") \/ Goes("sendPost", "backoff")
       /\ attempt' = attempt /\ attempt < Attempts
    \/ /\ Goes("backoff", "send") /\ attempt' = attempt + 1
    \/ /\ Goes("once", "oncePost") /\ attempt' = attempt
    \/ /\ Goes("once", "onceWait") \/ Goes("oncePost", "onceWait")
       /\ attempt' = attempt /\ attempt < OnceRetries
    \/ /\ Goes("onceWait", "once") /\ attempt' = attempt + 1
    \/ /\ pc # "idle" /\ pc' = "idle" /\ attempt' = 0

LEMMA StepWalks == IInv /\ Step => Walk
<1> SUFFICES ASSUME IInv, Step PROVE Walk
  OBVIOUS
<1> USE DEF Walk, Goes, Return, caller
<1>1. pending # <<>> => Len(Tail(pending)) = Len(pending) - 1
  BY PoppedEffect, PopOldest DEF IInv, TypeOK, OldestFirst
<1>2. CASE FlushDone \/ FlushPost
  BY <1>2 DEF FlushDone, FlushPost, FlushEnds
<1>3. CASE SendPost \/ SendWakes \/ OncePost \/ OnceWakes
  BY <1>3 DEF SendPost, SendWakes, OncePost, OnceWakes
<1>4. CASE SendExpired \/ SendCut
  BY <1>4 DEF SendExpired, SendCut, SendRetries, SendGivesUp, Backs, Drop, Attempts
<1>5. CASE OnceExpired \/ OnceCut
  BY <1>5 DEF OnceExpired, OnceCut, OnceAgain, OnceGivesUp
<1>6. ASSUME NEW d \in Ticks, Outcome(d) PROVE Walk
  <2>1. CASE FlushAccepted(d) \/ FlushRejected(d)
    BY <1>1, <2>1 DEF FlushAccepted, FlushRejected, IInv, Control
  <2>2. CASE FlushFailed(d)
    BY <2>2 DEF FlushFailed, FlushEnds
  <2>3. CASE SendAccepted(d) \/ SendRejected(d) \/ SendFailed(d)
    BY <2>3 DEF SendAccepted, SendRejected, SendFailed, SendRetries, SendGivesUp, Backs, Drop, Attempts
  <2>4. CASE OnceAccepted(d) \/ OnceRejected(d) \/ OnceFailed(d)
    BY <2>4 DEF OnceAccepted, OnceRejected, OnceFailed, OnceAgain, OnceGivesUp
  <2>5. QED
    BY <1>6, <2>1, <2>2, <2>3, <2>4 DEF Outcome
<1>7. QED
  BY <1>2, <1>3, <1>4, <1>5, <1>6 DEF Step


\* What StepsLeft is at each place, with what is needed to calculate with it
LEMMA StepsByPlace ==
    ASSUME TypeOK, AttemptCounted
    PROVE  /\ Len(pending) \in Nat /\ Len(pending) <= MaxBuffered /\ attempt \in Nat
           /\ Attempts \in Nat /\ OnceRetries \in Nat /\ MaxBuffered \in Nat
           /\ pc = "idle" => StepsLeft = 0
           /\ pc = "flush" => StepsLeft = 2 * Len(pending) + 3 * Attempts + 4
           /\ pc = "flushPost" => StepsLeft = 2 * Len(pending) + 3 * Attempts + 3
           /\ pc = "send" => StepsLeft = 3 * (Attempts - attempt) + 3
           /\ pc = "sendPost" => StepsLeft = 3 * (Attempts - attempt) + 2
           /\ pc = "backoff" => StepsLeft = 3 * (Attempts - attempt) + 1
           /\ pc = "once" => StepsLeft = 3 * (OnceRetries - attempt) + 3
           /\ pc = "oncePost" => StepsLeft = 3 * (OnceRetries - attempt) + 2
           /\ pc = "onceWait" => StepsLeft = 3 * (OnceRetries - attempt) + 1
<1>1. /\ Len(pending) \in Nat /\ Len(pending) <= MaxBuffered /\ attempt \in Nat
      /\ Attempts \in Nat /\ OnceRetries \in Nat /\ MaxBuffered \in Nat
  BY PusherAssumption DEF TypeOK, Attempts
<1> HIDE DEF Attempts
<1>2. QED
  BY <1>1 DEF StepsLeft

LEMMA StepsBounded ==
    ASSUME TypeOK, AttemptCounted
    PROVE  /\ StepsLeft \in 0 .. Longest
           /\ pc = "idle" <=> StepsLeft = 0
<1>1. /\ Len(pending) \in Nat /\ Len(pending) <= MaxBuffered /\ attempt \in Nat
      /\ Attempts \in Nat /\ OnceRetries \in Nat /\ MaxBuffered \in Nat
  BY StepsByPlace
<1> HIDE DEF Attempts
<1>2. CASE pc \in {"idle", "flush", "flushPost"}
  BY <1>1, <1>2, StepsByPlace DEF Longest
<1>3. CASE pc \in {"send", "sendPost", "backoff"}
  BY <1>1, <1>3, StepsByPlace DEF AttemptCounted, Longest
<1>4. CASE pc \in {"once", "oncePost", "onceWait"}
  BY <1>1, <1>4, StepsByPlace DEF AttemptCounted, Longest
<1>5. QED
  BY <1>2, <1>3, <1>4 DEF TypeOK, Labels

LEMMA WalkShortens ==
    ASSUME TypeOK, TypeOK', Control, AttemptCounted, Walk
    PROVE  AttemptCounted' /\ StepsLeft' < StepsLeft /\ StepsLeft' \in Int
<1>1. /\ Len(pending) \in Nat /\ Len(pending) <= MaxBuffered /\ attempt \in Nat
      /\ Attempts \in Nat /\ OnceRetries \in Nat /\ MaxBuffered \in Nat
  BY StepsByPlace
<1> HIDE DEF Attempts
<1>2. AttemptCounted'
  BY <1>1 DEF Walk, Goes, AttemptCounted
<1>3. /\ pc' = "idle" => StepsLeft' = 0
      /\ pc' = "flush" => StepsLeft' = 2 * Len(pending') + 3 * Attempts + 4
      /\ pc' = "flushPost" => StepsLeft' = 2 * Len(pending') + 3 * Attempts + 3
      /\ pc' = "send" => StepsLeft' = 3 * (Attempts - attempt') + 3
      /\ pc' = "sendPost" => StepsLeft' = 3 * (Attempts - attempt') + 2
      /\ pc' = "backoff" => StepsLeft' = 3 * (Attempts - attempt') + 1
      /\ pc' = "once" => StepsLeft' = 3 * (OnceRetries - attempt') + 3
      /\ pc' = "oncePost" => StepsLeft' = 3 * (OnceRetries - attempt') + 2
      /\ pc' = "onceWait" => StepsLeft' = 3 * (OnceRetries - attempt') + 1
  BY DEF StepsLeft
<1>4. attempt' \in Nat /\ Len(pending') \in Nat
  BY DEF TypeOK
<1>5. CASE pc # "idle" /\ pc' = "idle"
  <2>1. StepsLeft \in Nat /\ StepsLeft # 0
    BY <1>1, <1>5, StepsBounded DEF Longest
  <2>2. QED
    BY <1>2, <1>3, <1>5, <2>1
<1>6. CASE pc = "flush" /\ pc' # "idle"
  BY <1>1, <1>2, <1>3, <1>4, <1>6, StepsByPlace DEF Walk, Goes, AttemptCounted
<1>7. CASE pc = "flushPost" /\ pc' # "idle"
  <2>1. Len(pending) >= 1
    <3>1. pending \in Seq(Nat) /\ pending # <<>>
      BY <1>7 DEF TypeOK, Control
    <3>2. QED
      BY <3>1
  <2>2. QED
    BY <1>1, <1>2, <1>3, <1>4, <1>7, <2>1, StepsByPlace DEF Walk, Goes, AttemptCounted
<1>8. CASE pc \in {"send", "sendPost", "backoff"} /\ pc' # "idle"
  <2>1. CASE pc = "send"
    BY <1>1, <1>2, <1>3, <1>4, <1>8, <2>1, StepsByPlace DEF Walk, Goes
  <2>2. CASE pc = "sendPost"
    BY <1>1, <1>2, <1>3, <1>4, <1>8, <2>2, StepsByPlace DEF Walk, Goes
  <2>3. CASE pc = "backoff"
    BY <1>1, <1>2, <1>3, <1>4, <1>8, <2>3, StepsByPlace DEF Walk, Goes
  <2>4. QED
    BY <1>8, <2>1, <2>2, <2>3
<1>9. CASE pc \in {"once", "oncePost", "onceWait"} /\ pc' # "idle"
  BY <1>1, <1>2, <1>3, <1>4, <1>9, StepsByPlace DEF Walk, Goes
<1>10. QED
  BY <1>2, <1>5, <1>6, <1>7, <1>8, <1>9 DEF Walk, Goes

\* The surroundings do not make a call longer, and a call starts with attempt 0.
LEMMA OthersKeepSteps ==
    ASSUME IInv, AttemptCounted, [Next]_vars, ~Step
    PROVE  /\ AttemptCounted'
           /\ pc # "idle" => StepsLeft' = StepsLeft
<1>1. CASE Call
  <2>1. pc = "idle" /\ pc' \in {"flush", "once"} /\ attempt' = attempt
    BY <1>1 DEF Call, CallSend, CallSendEmpty, CallFlush, CallSendOnce, Begin
  <2>2. QED
    BY <2>1, PusherAssumption DEF AttemptCounted
<1>2. CASE (\E b \in wire : ServerStores(b)) \/ Cancel \/ UNCHANGED vars
  <2>1. UNCHANGED <<pc, attempt, pending>>
    BY <1>2 DEF ServerStores, Cancel, vars, caller
  <2>2. QED
    BY <2>1 DEF AttemptCounted, StepsLeft
<1>3. QED
  BY <1>1, <1>2 DEF Next

LEMMA StepsInvariance == Spec => [](IInv /\ AttemptCounted)
<1>1. Init => AttemptCounted
  BY DEF Init, AttemptCounted
<1>2. IInv /\ AttemptCounted /\ [Next]_vars => AttemptCounted'
  BY NextIInv, StepWalks, WalkShortens, OthersKeepSteps DEF IInv
<1>3. QED
  BY <1>1, <1>2, Invariance, PTL DEF Spec

\* A call comes to its end by itself: each step of the goroutine brings it nearer,
\* no answer, cancellation or late request puts it off, and it takes at most
\* Longest steps, whatever the server answers (Send, SendOnce and Flush, push.go).
\* With the steps of the goroutine not put off for ever, this is CallReturns.
THEOREM CallsAreShort ==
    Spec => /\ [](StepsLeft \in 0 .. Longest /\ (pc = "idle" <=> StepsLeft = 0))
            /\ [][/\ Step => StepsLeft' < StepsLeft
                  /\ pc # "idle" => StepsLeft' <= StepsLeft]_vars
<1>1. IInv /\ AttemptCounted => StepsLeft \in 0 .. Longest /\ (pc = "idle" <=> StepsLeft = 0)
  BY StepsBounded DEF IInv
<1>2. IInv /\ AttemptCounted /\ [Next]_vars
        => [/\ Step => StepsLeft' < StepsLeft
            /\ pc # "idle" => StepsLeft' <= StepsLeft]_vars
  <2> SUFFICES ASSUME IInv, AttemptCounted, [Next]_vars
               PROVE  /\ Step => StepsLeft' < StepsLeft
                      /\ pc # "idle" => StepsLeft' <= StepsLeft
    OBVIOUS
  <2>1. StepsLeft \in Int
    BY StepsBounded DEF IInv
  <2>2. CASE Step
    <3>1. TypeOK' /\ Walk
      BY <2>2, NextIInv, StepWalks DEF IInv
    <3>2. StepsLeft' < StepsLeft /\ StepsLeft' \in Int
      BY <3>1, WalkShortens DEF IInv
    <3>3. QED
      BY <2>1, <3>2
  <2>3. CASE ~Step
    BY <2>1, <2>3, OthersKeepSteps
  <2>4. QED
    BY <2>2, <2>3
<1>3. QED
  BY <1>1, <1>2, StepsInvariance, PTL DEF Spec
=============================================================================
