----------------------------- MODULE DeviceMap -----------------------------
(***************************************************************************)
(* What the device store promises, without rows, index, table or locks:    *)
(* for each device a record in the pool and one on flash.  Flash follows   *)
(* the pool, forgets a device only while it is being deleted and before    *)
(* the delete ends, and gives back at the boot what it has.  A write that  *)
(* fails voids the promise.                                                *)
(***************************************************************************)
EXTENDS Naturals

CONSTANTS Device, MaxEdits

VARIABLES pool, durable,   \* the record of each device, 0 for none
          leaving,         \* the devices being deleted
          void             \* a write has failed

Nothing == [d \in Device |-> 0]

Init == pool = Nothing /\ durable = Nothing /\ leaving = {} /\ void = FALSE

Change(d) ==
    /\ d \notin leaving
    /\ \E v \in 1..MaxEdits : v > durable[d] /\ v > pool[d] /\ pool' = [pool EXCEPT ![d] = v]
    /\ UNCHANGED <<durable, leaving>>

Leave(d) ==
    /\ d \notin leaving
    /\ pool' = [pool EXCEPT ![d] = 0] /\ leaving' = leaving \cup {d}
    /\ UNCHANGED durable

\* A write under way when the delete began may still land before it.
Persist(d) ==
    /\ \E v \in 1..MaxEdits :
          /\ v > durable[d] /\ (v <= pool[d] \/ d \in leaving)
          /\ durable' = [durable EXCEPT ![d] = v]
    /\ UNCHANGED <<pool, leaving>>

Erase(d) ==
    /\ d \in leaving
    /\ durable' = [durable EXCEPT ![d] = 0]
    /\ UNCHANGED <<pool, leaving>>

Done(d) ==
    /\ durable[d] = 0 /\ leaving' = leaving \ {d}
    /\ UNCHANGED <<pool, durable>>

Cut  == pool' = Nothing /\ leaving' = {} /\ UNCHANGED durable
Boot == pool = Nothing /\ leaving = {} /\ pool' = durable /\ UNCHANGED <<durable, leaving>>

Next ==
    \/ void'
    \/ /\ UNCHANGED void
       /\ Cut \/ Boot \/ \E d \in Device : Change(d) \/ Leave(d) \/ Persist(d) \/ Erase(d) \/ Done(d)

Spec == Init /\ [][Next]_<<pool, durable, leaving, void>>
=============================================================================
