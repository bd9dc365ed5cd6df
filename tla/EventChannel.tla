---------------------------- MODULE EventChannel ----------------------------
(***************************************************************************)
(* What the event bus promises a subscriber, without slots, generations,   *)
(* pins or poison: a subscription is a channel that opens once and closes  *)
(* once.  Events are put at the end and taken from the front; the oldest   *)
(* may be dropped.  What is in a task's hand when the channel closes may   *)
(* still be delivered; nothing is taken from a closed channel.             *)
(***************************************************************************)
EXTENDS Naturals, Sequences

CONSTANTS Sub, MaxEvents

VARIABLES
    open, closed,   \* subscriptions that opened, and those that closed again
    chan,           \* events waiting in each
    hand,           \* events taken and not yet delivered
    got             \* events delivered, in order

vars == <<open, closed, chan, hand, got>>

Init ==
    /\ open = {} /\ closed = {}
    /\ chan = [s \in Sub |-> <<>>]
    /\ hand = [s \in Sub |-> {}]
    /\ got  = [s \in Sub |-> <<>>]

Open(s) ==
    /\ s \notin open
    /\ open' = open \cup {s}
    /\ UNCHANGED <<closed, chan, hand, got>>

Close(s) ==
    /\ s \in open \ closed
    /\ closed' = closed \cup {s}
    /\ chan' = [chan EXCEPT ![s] = <<>>]
    /\ \E H \in SUBSET hand[s] : hand' = [hand EXCEPT ![s] = H]
    /\ UNCHANGED <<open, got>>

\* No event is ever put twice.
Put(s) ==
    /\ s \in open \ closed
    /\ \E e \in 1..MaxEvents :
          /\ \A i \in DOMAIN chan[s] : chan[s][i] # e
          /\ \A i \in DOMAIN got[s] : got[s][i] # e
          /\ e \notin hand[s]
          /\ chan' = [chan EXCEPT ![s] = Append(@, e)]
    /\ UNCHANGED <<open, closed, hand, got>>

DropOldest(s) ==
    /\ chan[s] # <<>>
    /\ chan' = [chan EXCEPT ![s] = Tail(@)]
    /\ UNCHANGED <<open, closed, hand, got>>

Take(s) ==
    /\ chan[s] # <<>>
    /\ hand' = [hand EXCEPT ![s] = @ \cup {Head(chan[s])}]
    /\ chan' = [chan EXCEPT ![s] = Tail(@)]
    /\ UNCHANGED <<open, closed, got>>

Deliver(s) ==
    /\ \E e \in hand[s] :
          /\ hand' = [hand EXCEPT ![s] = @ \ {e}]
          /\ got' = [got EXCEPT ![s] = Append(@, e)]
    /\ UNCHANGED <<open, closed, chan>>

Next == \E s \in Sub : Open(s) \/ Close(s) \/ Put(s) \/ DropOldest(s) \/ Take(s) \/ Deliver(s)

Spec == Init /\ [][Next]_vars
=============================================================================
