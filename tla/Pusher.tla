------------------------------- MODULE Pusher -------------------------------
(***************************************************************************)
(* The transport of the agent: internal/push/push.go.                      *)
(*                                                                         *)
(* One goroutine calls Send, SendOnce and Flush, one call at a time.  A    *)
(* call is a walk through the program counter pc; a post is two steps, the *)
(* request and its outcome, so that the server can store the batch, the    *)
(* process can be told to stop and time can pass in between.               *)
(*                                                                         *)
(* A batch is the number of the call that brought it: the body, its points *)
(* and the byte counters do not influence any decision of the code.  Time  *)
(* is counted in ticks; "left" is what the deadline of the context of the  *)
(* current call still allows, "cancelled" that the context was cancelled.  *)
(***************************************************************************)
EXTENDS Integers, Sequences, FiniteSets

CONSTANTS
    MaxBuffered,        \* batches kept for a later attempt
    RequestTimeout,     \* ticks one HTTP attempt may take
    SendDeadline,       \* ticks one Send may take
    backoff,            \* ticks to wait before each attempt after the first
    OnceRetries,        \* extra attempts of SendOnce
    OnceRetryDelay,     \* ticks between the attempts of SendOnce
    Budgets,            \* deadlines a caller gives to Flush and SendOnce
    Redirects,          \* the endpoint may answer a POST with 301, 302 or 303
    MaxCalls            \* bound of the model: calls made on one Pusher

ASSUME PusherAssumption ==
    /\ MaxBuffered \in Nat \ {0}
    /\ RequestTimeout \in Nat \ {0}
    /\ SendDeadline \in Nat
    /\ backoff \in Seq(Nat)
    /\ OnceRetries \in Nat
    /\ OnceRetryDelay \in Nat
    /\ Budgets \subseteq Nat
    /\ Redirects \in BOOLEAN
    /\ MaxCalls \in Nat

VARIABLES
    pending,    \* the buffered batches, oldest first
    stats,      \* the counters of Stats that count batches and attempts
    pc,         \* where the goroutine is in the call, "idle" between calls
    cur,        \* the batch the call brought, 0 for none
    attempt,    \* attempt of sendWithRetry or SendOnce, from 0
    left,       \* ticks until the deadline of the call's context
    cancelled,  \* the call's context was cancelled
    made,       \* batches made so far: the number of the newest
    calls,      \* calls made so far
    wire,       \* requests the server may still act on, abandoned ones too
    stored,     \* batches the server has stored
    acked,      \* history: answered 2xx to the call that brought them
    recovered,  \* history: answered 2xx out of the buffer
    refused,    \* history: thrown out of the buffer after a rejection
    evicted,    \* history: pushed out of the full buffer
    givenUp     \* history: SendOnce returned an error for them

caller == <<pc, cur, attempt>>
context == <<left, cancelled>>
server == <<wire, stored>>
fates == <<acked, recovered, refused, evicted, givenUp>>
vars == <<pending, stats, caller, context, made, calls, server, fates>>

Counters == {"Batches", "Failures", "Dropped", "Retried", "RejectedDropped"}
Labels == {"idle", "flush", "flushPost", "send", "sendPost", "backoff",
           "once", "oncePost", "onceWait"}

Init ==
    /\ pending = <<>>
    /\ stats = [c \in Counters |-> 0]
    /\ pc = "idle" /\ cur = 0 /\ attempt = 0
    /\ left = 0 /\ cancelled = FALSE
    /\ made = 0 /\ calls = 0
    /\ wire = {} /\ stored = {}
    /\ acked = {} /\ recovered = {} /\ refused = {}
    /\ evicted = {} /\ givenUp = {}

-----------------------------------------------------------------------------
(* Helpers *)

Elements(q) == {q[i] : i \in DOMAIN q}

\* ctx.Err() # nil
Over == left = 0 \/ cancelled

\* The context of a request ends at the deadline of the call or after
\* RequestTimeout, whichever comes first.
Limit == IF left < RequestTimeout THEN left ELSE RequestTimeout

Spend(d) == left' = left - d

Count(cs) == stats' = [c \in Counters |-> IF c \in cs THEN stats[c] + 1 ELSE stats[c]]

\* Fault: the loop of buffer() runs one time too few.
NewestLate(q) ==
    IF Len(q) <= MaxBuffered + 1 THEN q
    ELSE SubSeq(q, Len(q) - MaxBuffered + 1, Len(q))

\* Fault: a full buffer is emptied.
NewestOnly(q) == IF Len(q) <= MaxBuffered THEN q ELSE <<q[Len(q)]>>

\* buffer() appends, then drops from the front down to MaxBuffered.
Newest(q) ==
    IF Len(q) <= MaxBuffered THEN q
    ELSE SubSeq(q, Len(q) - MaxBuffered + 1, Len(q))

\* Fault: a full buffer turns the new batch away.
BufferUnlessFull(q, b) == IF Len(q) = MaxBuffered THEN q ELSE Append(q, b)

\* Fault: the new batch goes to the front.
BufferInFront(q, b) == Newest(<<b>> \o q)

Buffer(q, b) == Newest(Append(q, b))

Return == pc' = "idle" /\ cur' = 0 /\ attempt' = 0

\* Send drops the batch in hand: counted, and kept for a later call.
Drop(cs) ==
    /\ Count(cs \union {"Dropped"})
    /\ pending' = Buffer(pending, cur)
    /\ evicted' = evicted \union ((Elements(pending) \union {cur}) \ Elements(pending'))
    /\ Return
    /\ UNCHANGED <<acked, recovered, refused, givenUp>>

\* The request leaves for the server.  With an ended context net/http returns
\* the error at once and nothing is sent: the *Expired actions.
Request(b) == wire' = wire \union {b}

\* How a post ends after d ticks.  The server answers 2xx once it has stored
\* the batch; a 4xx other than 408 and 429 is a rejection; every other answer
\* and every transport error, the timeout included, is retryable.  Nothing
\* tells a request that was lost from one whose answer was lost.  The client has
\* no CheckRedirect: it follows a 301, 302 or 303 with a GET that has no body,
\* and takes the 2xx of that GET, behind which nothing is stored, for the answer.
Accepted(b, d) == (b \in stored \/ Redirects) /\ d <= Limit
Rejected(d) == d <= Limit
Retryable(d) == d <= Limit

Ticks == 0 .. RequestTimeout

-----------------------------------------------------------------------------
(* The calls.  c: the caller's context is cancelled already. *)

Begin(label, budget, c) ==
    /\ pc = "idle" /\ calls < MaxCalls
    /\ calls' = calls + 1
    /\ pc' = label
    /\ left' = budget /\ cancelled' = c

Brings == made' = made + 1 /\ cur' = made + 1
BringsNothing == UNCHANGED <<made, cur>>

CallSend(c) ==
    /\ Begin("flush", SendDeadline, c)
    /\ Brings
    /\ UNCHANGED <<pending, stats, attempt, server, fates>>

\* With an empty body Send only flushes; with an empty buffer too it does
\* nothing at all.
CallSendEmpty(c) ==
    /\ pending # <<>>
    /\ Begin("flush", SendDeadline, c)
    /\ BringsNothing
    /\ UNCHANGED <<pending, stats, attempt, server, fates>>

CallFlush(budget, c) ==
    /\ Begin("flush", budget, c)
    /\ BringsNothing
    /\ UNCHANGED <<pending, stats, attempt, server, fates>>

CallSendOnce(budget, c) ==
    /\ Begin("once", budget, c)
    /\ Brings
    /\ UNCHANGED <<pending, stats, attempt, server, fates>>

-----------------------------------------------------------------------------
(* flushPending: one attempt for each buffered batch, oldest first.  The loop *)
(* ends with the buffer, with the context, or at a retryable failure; Send    *)
(* then turns to its own batch, Flush and an empty Send return.               *)

FlushEnds == IF cur = 0 THEN Return ELSE pc' = "send" /\ UNCHANGED <<cur, attempt>>

FlushDone ==
    /\ pc = "flush"
    /\ pending = <<>> \/ Over
    /\ FlushEnds
    /\ UNCHANGED <<pending, stats, context, made, calls, server, fates>>

FlushPost ==
    /\ pc = "flush"
    /\ pending # <<>> /\ ~Over
    /\ Request(Head(pending))
    /\ pc' = "flushPost"
    /\ UNCHANGED <<pending, stats, cur, attempt, context, made, calls, stored, fates>>

\* Fault: the delivered batch stays in the buffer.
FlushAcceptedKeeps(d) ==
    /\ pc = "flushPost"
    /\ Accepted(Head(pending), d)
    /\ Spend(d)
    /\ recovered' = recovered \union {Head(pending)}
    /\ Count({"Batches", "Retried"})
    /\ pc' = "flush"
    /\ UNCHANGED <<pending, cur, attempt, cancelled, made, calls, server,
                   acked, refused, evicted, givenUp>>

FlushAccepted(d) ==
    /\ pc = "flushPost"
    /\ Accepted(Head(pending), d)
    /\ Spend(d)
    /\ pending' = Tail(pending)
    /\ recovered' = recovered \union {Head(pending)}
    /\ Count({"Batches", "Retried"})
    /\ pc' = "flush"
    /\ UNCHANGED <<cur, attempt, cancelled, made, calls, server,
                   acked, refused, evicted, givenUp>>

\* Fault: a rejected batch is counted as dropped for the second time.
FlushRejectedTwice(d) ==
    /\ pc = "flushPost"
    /\ Rejected(d)
    /\ Spend(d)
    /\ pending' = Tail(pending)
    /\ refused' = refused \union {Head(pending)}
    /\ Count({"Failures", "Dropped", "RejectedDropped"})
    /\ pc' = "flush"
    /\ UNCHANGED <<cur, attempt, cancelled, made, calls, server,
                   acked, recovered, evicted, givenUp>>

FlushRejected(d) ==
    /\ pc = "flushPost"
    /\ Rejected(d)
    /\ Spend(d)
    /\ pending' = Tail(pending)
    /\ refused' = refused \union {Head(pending)}
    /\ Count({"Failures", "RejectedDropped"})
    /\ pc' = "flush"
    /\ UNCHANGED <<cur, attempt, cancelled, made, calls, server,
                   acked, recovered, evicted, givenUp>>

FlushFailed(d) ==
    /\ pc = "flushPost"
    /\ Retryable(d)
    /\ Spend(d)
    /\ Count({"Failures"})
    /\ FlushEnds
    /\ UNCHANGED <<pending, cancelled, made, calls, server, fates>>

-----------------------------------------------------------------------------
(* sendWithRetry and the end of Send. *)

SendPost ==
    /\ pc = "send" /\ ~Over
    /\ Request(cur)
    /\ pc' = "sendPost"
    /\ UNCHANGED <<pending, stats, cur, attempt, context, made, calls, stored, fates>>

\* Fault: the batch is put into the buffer before the attempts and stays there.
SendAcceptedBuffers(d) ==
    /\ pc = "sendPost"
    /\ Accepted(cur, d)
    /\ Spend(d)
    /\ acked' = acked \union {cur}
    /\ pending' = Buffer(pending, cur)
    /\ Count({"Batches"})
    /\ Return
    /\ UNCHANGED <<cancelled, made, calls, server,
                   recovered, refused, evicted, givenUp>>

SendAccepted(d) ==
    /\ pc = "sendPost"
    /\ Accepted(cur, d)
    /\ Spend(d)
    /\ acked' = acked \union {cur}
    /\ Count({"Batches"})
    /\ Return
    /\ UNCHANGED <<pending, cancelled, made, calls, server,
                   recovered, refused, evicted, givenUp>>

\* A rejection ends the attempts, and Send drops the batch like any other.
SendRejected(d) ==
    /\ pc = "sendPost"
    /\ Rejected(d)
    /\ Spend(d)
    /\ Drop({"Failures"})
    /\ UNCHANGED <<cancelled, made, calls, server>>

Backs == attempt < Len(backoff)

SendRetries ==
    /\ Backs
    /\ Count({"Failures"})
    /\ pc' = "backoff"
    /\ UNCHANGED <<pending, cur, attempt, fates>>

SendGivesUp == ~Backs /\ Drop({"Failures"})

SendFailed(d) ==
    /\ pc = "sendPost"
    /\ Retryable(d)
    /\ Spend(d)
    /\ SendRetries \/ SendGivesUp
    /\ UNCHANGED <<cancelled, made, calls, server>>

SendExpired ==
    /\ pc = "send" /\ Over
    /\ SendRetries \/ SendGivesUp
    /\ UNCHANGED <<context, made, calls, server>>

\* At the very end of the budget the timer and the deadline may come in
\* either order.
SendWakes ==
    /\ pc = "backoff" /\ ~cancelled
    /\ backoff[attempt + 1] <= left
    /\ Spend(backoff[attempt + 1])
    /\ attempt' = attempt + 1
    /\ pc' = "send"
    /\ UNCHANGED <<pending, stats, cur, cancelled, made, calls, server, fates>>

\* Fault: the wait does not listen to the cancellation.
SendCutDeaf ==
    /\ pc = "backoff"
    /\ backoff[attempt + 1] >= left /\ left' = 0
    /\ Drop({})
    /\ UNCHANGED <<cancelled, made, calls, server>>

SendCut ==
    /\ pc = "backoff"
    /\ \/ cancelled /\ left' = left
       \/ backoff[attempt + 1] >= left /\ left' = 0
    /\ Drop({})
    /\ UNCHANGED <<cancelled, made, calls, server>>

-----------------------------------------------------------------------------
(* SendOnce: the final push.  It never buffers. *)

OncePost ==
    /\ pc = "once" /\ ~Over
    /\ Request(cur)
    /\ pc' = "oncePost"
    /\ UNCHANGED <<pending, stats, cur, attempt, context, made, calls, stored, fates>>

OnceAccepted(d) ==
    /\ pc = "oncePost"
    /\ Accepted(cur, d)
    /\ Spend(d)
    /\ acked' = acked \union {cur}
    /\ Count({"Batches"})
    /\ Return
    /\ UNCHANGED <<pending, cancelled, made, calls, server,
                   recovered, refused, evicted, givenUp>>

OnceGivesUp(cs) ==
    /\ Count(cs)
    /\ givenUp' = givenUp \union {cur}
    /\ Return
    /\ UNCHANGED <<pending, acked, recovered, refused, evicted>>

OnceRejected(d) ==
    /\ pc = "oncePost"
    /\ Rejected(d)
    /\ Spend(d)
    /\ OnceGivesUp({"Failures"})
    /\ UNCHANGED <<cancelled, made, calls, server>>

OnceAgain ==
    /\ attempt < OnceRetries
    /\ Count({"Failures"})
    /\ pc' = "onceWait"
    /\ UNCHANGED <<pending, cur, attempt, fates>>

OnceFailed(d) ==
    /\ pc = "oncePost"
    /\ Retryable(d)
    /\ Spend(d)
    /\ OnceAgain \/ (attempt = OnceRetries /\ OnceGivesUp({"Failures"}))
    /\ UNCHANGED <<cancelled, made, calls, server>>

OnceExpired ==
    /\ pc = "once" /\ Over
    /\ OnceAgain \/ (attempt = OnceRetries /\ OnceGivesUp({"Failures"}))
    /\ UNCHANGED <<context, made, calls, server>>

OnceWakes ==
    /\ pc = "onceWait" /\ ~cancelled
    /\ OnceRetryDelay <= left
    /\ Spend(OnceRetryDelay)
    /\ attempt' = attempt + 1
    /\ pc' = "once"
    /\ UNCHANGED <<pending, stats, cur, cancelled, made, calls, server, fates>>

OnceCut ==
    /\ pc = "onceWait"
    /\ \/ cancelled /\ left' = left
       \/ OnceRetryDelay >= left /\ left' = 0
    /\ OnceGivesUp({})
    /\ UNCHANGED <<cancelled, made, calls, server>>

-----------------------------------------------------------------------------
(* The surroundings of the pusher. *)

\* The server acts on a request it received, also on one the agent gave up.
ServerStores(b) ==
    /\ b \in wire
    /\ stored' = stored \union {b}
    /\ wire' = wire \ {b}
    /\ UNCHANGED <<pending, stats, caller, context, made, calls, fates>>

\* A signal cancels the context of the call.
Cancel ==
    /\ pc # "idle" /\ ~cancelled
    /\ cancelled' = TRUE
    /\ UNCHANGED <<pending, stats, caller, left, made, calls, server, fates>>

Call ==
    \E c \in BOOLEAN :
        \/ CallSend(c)
        \/ CallSendEmpty(c)
        \/ \E budget \in Budgets : CallFlush(budget, c) \/ CallSendOnce(budget, c)

Outcome(d) ==
    \/ FlushAccepted(d) \/ FlushRejected(d) \/ FlushFailed(d)
    \/ SendAccepted(d) \/ SendRejected(d) \/ SendFailed(d)
    \/ OnceAccepted(d) \/ OnceRejected(d) \/ OnceFailed(d)

Step ==
    \/ FlushDone \/ FlushPost
    \/ SendPost \/ SendExpired \/ SendWakes \/ SendCut
    \/ OncePost \/ OnceExpired \/ OnceWakes \/ OnceCut
    \/ \E d \in Ticks : Outcome(d)

Next ==
    \/ Call
    \/ Step
    \/ \E b \in wire : ServerStores(b)
    \/ Cancel

Spec == Init /\ [][Next]_vars

\* Timers and timeouts end every wait of the goroutine: its own steps cannot
\* be put off for ever.  Nothing is assumed of the server.
FairSpec == Spec /\ WF_vars(Step)

-----------------------------------------------------------------------------
(* Properties *)

Batches == 1 .. made
InHand == {cur} \ {0}

\* Type invariant of the pusher's state and of the histories kept beside it.
TypeOK ==
    /\ pending \in Seq(Nat) /\ Len(pending) <= MaxBuffered
    /\ Elements(pending) \subseteq Batches
    /\ stats \in [Counters -> Nat]
    /\ pc \in Labels
    /\ cur \in 0 .. made /\ attempt \in Nat
    /\ left \in Nat /\ cancelled \in BOOLEAN
    /\ made \in Nat /\ calls \in 0 .. MaxCalls
    /\ wire \subseteq Batches /\ stored \subseteq Batches
    /\ acked \subseteq Batches /\ recovered \subseteq Batches
    /\ refused \subseteq Batches /\ evicted \subseteq Batches
    /\ givenUp \subseteq Batches

\* Where the goroutine is fits what it holds: a call that brought a batch keeps
\* it, the youngest one, in hand until it returns; flushPending has a batch to
\* judge when the answer comes; a wait is one the backoff schedule has.
Control ==
    /\ pc = "idle" => cur = 0
    /\ pc \notin {"idle", "flush", "flushPost"} => cur # 0
    /\ cur # 0 => cur = made
    /\ pc = "flushPost" => pending # <<>>
    /\ pc = "backoff" => attempt < Len(backoff)

Places == <<Elements(pending), InHand, acked, recovered, refused, evicted, givenUp>>

\* No batch is lost silently and none is in two places: each batch a caller
\* brought is in hand, buffered, delivered (at once or out of the buffer),
\* thrown away after a rejection, pushed out by the limit, or returned as the
\* error of SendOnce, and only one of these.  Send, flushPending and buffer
\* (push.go 105-218) each move a batch with several separate assignments.
NothingLost ==
    \A b \in Batches : \E i \in DOMAIN Places :
        /\ b \in Places[i]
        /\ \A j \in DOMAIN Places : b \in Places[j] => j = i

\* The counters an operator reads in the summary line tell what happened to
\* the batches: Batches are the delivered ones, and Dropped is made up of what
\* was delivered later, rejected, pushed out, or is still buffered.
CountersAddUp ==
    /\ stats["Batches"] = Cardinality(acked) + Cardinality(recovered)
    /\ stats["Retried"] = Cardinality(recovered)
    /\ stats["RejectedDropped"] = Cardinality(refused)
    /\ stats["Dropped"] = Cardinality(recovered) + Cardinality(refused)
                            + Cardinality(evicted) + Len(pending)

Increasing(q) == \A i, j \in DOMAIN q : i < j => q[i] < q[j]

\* The buffer is in the order of the calls, so that flushPending really goes
\* oldest first; what is in hand is younger than all of it, and what the limit
\* pushed out is older.
OldestFirst ==
    /\ Increasing(pending)
    /\ \A b \in Elements(pending), c \in InHand : b < c
    /\ \A e \in evicted, b \in Elements(pending) \union InHand : e < b

\* Loss needs a long outage: a batch is pushed out only after MaxBuffered
\* younger ones were dropped too (push.go 211-218), whatever flushes and
\* rejections fall in between.
LossNeedsYounger ==
    \A e \in evicted :
        Cardinality({b \in Elements(pending) \union recovered \union refused \union evicted :
                        b > e}) >= MaxBuffered

\* A request leaves the agent, and for this batch.
Posts == pc' # pc /\ pc' \in {"flushPost", "sendPost", "oncePost"}
Posted == IF pc' = "flushPost" THEN Head(pending) ELSE cur

\* Delivery is at least once, and a second request for a batch is made only while
\* its fate is open: in the hands of its call or in the buffer.  What is
\* counted as delivered, was thrown away, pushed out, or returned as an error is
\* not posted again, by whichever of the three calls and however much later
\* (push.go 107-218).
NeverPostedAgain ==
    [][Posts => Posted \notin acked \union recovered \union refused
                                \union evicted \union givenUp]_vars

\* Every call comes back, also when the server never answers.
CallReturns == pc # "idle" ~> pc = "idle"

\* The pusher is a delivery box: what happens to each batch, without HTTP.
O == INSTANCE Outbox WITH
        Capacity <- MaxBuffered,
        last <- made,
        inHand <- InHand,
        held <- Elements(pending),
        delivered <- acked,
        lost <- evicted

\* Each step of the pusher is a step of the delivery box or does not show in it:
\* a batch leaves the buffer only as the oldest one, and to make room only when
\* the buffer is full.
ImplementsOutbox == O!Spec
=============================================================================
