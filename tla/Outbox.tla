------------------------------- MODULE Outbox -------------------------------
(***************************************************************************)
(* What the pusher promises its caller, without HTTP, time or retries: a   *)
(* delivery box for numbered batches.  A batch comes in, and is delivered, *)
(* given up, or held for later.  At most Capacity batches are held; when   *)
(* one more has to be held the oldest is lost.  Held batches leave in the  *)
(* order they came, delivered late or refused by the server for good.      *)
(*                                                                         *)
(* Pusher.tla is shown to implement this specification.                    *)
(***************************************************************************)
EXTENDS Integers, FiniteSets

CONSTANT Capacity       \* push.go MaxBuffered, at least 1

VARIABLES
    last,       \* number of the newest batch accepted, 0 before the first
    inHand,     \* the batch accepted and not settled yet: at most one
    held,       \* the batches kept for a later attempt
    delivered,  \* delivered by the call that brought them
    recovered,  \* delivered by a later call, out of the held ones
    refused,    \* held, then thrown away: the server rejected them for good
    lost,       \* held, then pushed out by younger batches
    givenUp     \* not delivered and never held

box == <<last, inHand, held, delivered, recovered, refused, lost, givenUp>>

Oldest(b) == b \in held /\ \A c \in held : b <= c

Init ==
    /\ last = 0
    /\ inHand = {} /\ held = {}
    /\ delivered = {} /\ recovered = {} /\ refused = {}
    /\ lost = {} /\ givenUp = {}

Accept ==
    /\ inHand = {}
    /\ last' = last + 1
    /\ inHand' = {last + 1}
    /\ UNCHANGED <<held, delivered, recovered, refused, lost, givenUp>>

Deliver ==
    /\ inHand # {}
    /\ delivered' = delivered \union inHand
    /\ inHand' = {}
    /\ UNCHANGED <<last, held, recovered, refused, lost, givenUp>>

GiveUp ==
    /\ inHand # {}
    /\ givenUp' = givenUp \union inHand
    /\ inHand' = {}
    /\ UNCHANGED <<last, held, delivered, recovered, refused, lost>>

HoldInFree ==
    /\ inHand # {}
    /\ Cardinality(held) < Capacity
    /\ held' = held \union inHand
    /\ inHand' = {}
    /\ UNCHANGED <<last, delivered, recovered, refused, lost, givenUp>>

HoldInFull(b) ==
    /\ inHand # {}
    /\ Cardinality(held) = Capacity
    /\ Oldest(b)
    /\ held' = (held \ {b}) \union inHand
    /\ lost' = lost \union {b}
    /\ inHand' = {}
    /\ UNCHANGED <<last, delivered, recovered, refused, givenUp>>

Recover(b) ==
    /\ Oldest(b)
    /\ held' = held \ {b}
    /\ recovered' = recovered \union {b}
    /\ UNCHANGED <<last, inHand, delivered, refused, lost, givenUp>>

Refuse(b) ==
    /\ Oldest(b)
    /\ held' = held \ {b}
    /\ refused' = refused \union {b}
    /\ UNCHANGED <<last, inHand, delivered, recovered, lost, givenUp>>

Next ==
    \/ Accept
    \/ Deliver
    \/ GiveUp
    \/ HoldInFree
    \/ \E b \in held : HoldInFull(b) \/ Recover(b) \/ Refuse(b)

Spec == Init /\ [][Next]_box
=============================================================================
