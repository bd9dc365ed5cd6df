----------------------------- MODULE WakeQueue ------------------------------
(***************************************************************************)
(* Writes to a device that sleeps between polls are sent at once, where    *)
(* they may get lost, and held; when the device is heard, the worker sends *)
(* what it has not reported (components/zhc_adapter/src/wake_queue.cpp,    *)
(* wake_queue.hpp, and the wake half of zhc_adapter.cpp).                  *)
(*                                                                         *)
(* Values are numbers in the order in which the user wrote them or someone *)
(* set them at the device: one that gets a smaller number was set back.    *)
(* Time is what a frame has been through: the gap of ten seconds after a   *)
(* send and the hour after the write may pass at any moment.  A task that  *)
(* does not get the queue's lock in time (100 ms to hold a write, 50 ms    *)
(* for a frame heard) goes on without: the write is not held, or what was  *)
(* heard drops no frame, and an older frame for the key stays.             *)
(***************************************************************************)
EXTENDS Naturals, Sequences, SequencesExt

CONSTANTS
    Device, Key,
    Slots,              \* kSlots
    MaxTries            \* kMaxTries

CONSTANTS MaxWrites, MaxReports   \* bounds

VARIABLES
    held,       \* Queue::slots_, oldest first
    sender,     \* a task inside dispatch_and_send: a write that is sent and not yet held
    worker,     \* wake_task: the frame it copied
    has,        \* what the device has, by its key
    wanted,     \* the last value the user wrote
    counts,     \* the bounds' counters
    heard,      \* history: the value the hub heard last, by report
    crossed,    \* history: keys written or reported while a task had their frame in hand
    missed      \* history: keys whose held frame is older than a write or a report that gave up on the lock

vars == <<held, sender, worker, has, wanted, counts, heard, crossed, missed>>

Slot == Device \X Key
None == [slot |-> <<>>]

Init ==
    /\ held = <<>> /\ sender = None /\ worker = None
    /\ has = [x \in Slot |-> 0] /\ wanted = [x \in Slot |-> 0] /\ heard = [x \in Slot |-> 0]
    /\ counts = [writes |-> 0, reports |-> 0] /\ crossed = {} /\ missed = {}

\* What x gets next.
Newest == counts.writes + 1

\* Those of slots that have a frame held.
HeldOf(slots) == {x \in slots : \E i \in DOMAIN held : held[i].slot = x}

Crosses(slots) == crossed' = crossed \cup {x \in slots : x \in {worker.slot, sender.slot}}

\* The radio: a frame to a device that sleeps arrives or not.
Arrives(x, v) == has' \in {has, [has EXCEPT ![x] = v]}

\* Someone turns the knob.
Turned(x) ==
    /\ counts.writes < MaxWrites /\ counts' = [counts EXCEPT !.writes = @ + 1]
    /\ has' = [has EXCEPT ![x] = Newest]
    /\ UNCHANGED <<held, sender, worker, wanted, heard, crossed, missed>>

-----------------------------------------------------------------------------
\* dispatch_and_send: out at once, then wake_hold.
Send(x) ==
    /\ sender = None /\ counts.writes < MaxWrites
    /\ counts' = [counts EXCEPT !.writes = @ + 1]
    /\ wanted' = [wanted EXCEPT ![x] = Newest]
    /\ Arrives(x, Newest)
    /\ sender' = [slot |-> x, value |-> Newest]
    /\ Crosses({x})
    /\ UNCHANGED <<held, worker, heard, missed>>

Frame(x, v) == [slot |-> x, value |-> v, due |-> FALSE, rested |-> FALSE, tries |-> 0]

\* Queue::hold: in place of an older one for the key, else in a free slot, else in the oldest's.
Others(x) == SelectSeq(held, LAMBDA f : f.slot # x)

Hold ==
    /\ sender # None
    /\ LET rest == Others(sender.slot)
       IN  held' = Append(IF Len(rest) = Slots THEN Tail(rest) ELSE rest, Frame(sender.slot, sender.value))
    /\ sender' = None /\ missed' = missed \ {sender.slot}
    /\ UNCHANGED <<worker, has, wanted, counts, heard, crossed>>

HoldGivesUp ==
    /\ sender # None
    /\ sender' = None /\ missed' = missed \cup HeldOf({sender.slot})
    /\ UNCHANGED <<held, worker, has, wanted, counts, heard, crossed>>

\* The ten seconds after its last send are over.
Rest(i) ==
    /\ ~held[i].rested /\ held' = [held EXCEPT ![i].rested = TRUE]
    /\ UNCHANGED <<sender, worker, has, wanted, counts, heard, crossed, missed>>

-----------------------------------------------------------------------------
\* Queue::on_wake, frame by frame; an hour may have passed for any of them.
Ignored(f, d, keys) == FALSE   \* mutant
Reported(f, d, keys) == f.slot[2] \in keys
Exhausted(f) == ~f.due /\ f.rested /\ f.tries >= MaxTries

Woken(f, d, keys, expired) ==
    IF f.slot[1] # d THEN <<f>>
    ELSE IF f.slot \in expired \/ Reported(f, d, keys) \/ Exhausted(f) THEN <<>>
    ELSE <<[f EXCEPT !.due = @ \/ f.rested]>>

\* A device transmits and reports some keys: what the hub knows of it changes, then wake_seen.
Heard(d, keys) ==
    /\ counts.reports < MaxReports /\ counts' = [counts EXCEPT !.reports = @ + 1]
    /\ heard' = [x \in Slot |-> IF x[1] = d /\ x[2] \in keys THEN has[x] ELSE heard[x]]
    /\ Crosses({d} \X keys)
    /\ UNCHANGED <<sender, worker, has, wanted>>

Report(d, keys, expired) ==
    /\ Heard(d, keys)
    /\ held' = FlattenSeq([i \in DOMAIN held |-> Woken(held[i], d, keys, expired)])
    /\ missed' = missed \ ({d} \X keys)

ReportGivesUp(d, keys) ==
    /\ Heard(d, keys)
    /\ missed' = missed \cup HeldOf({d} \X keys)
    /\ UNCHANGED held

-----------------------------------------------------------------------------
\* wake_task: Queue::take_due, then the send without the lock.
TakeDue ==
    /\ worker = None
    /\ \E i \in DOMAIN held :
          /\ held[i].due
          /\ worker' = [slot |-> held[i].slot, value |-> held[i].value]
          /\ held' = [held EXCEPT ![i].due = FALSE, ![i].rested = FALSE, ![i].tries = @ + 1]
          /\ crossed' = IF sender.slot = held[i].slot THEN crossed \cup {held[i].slot} ELSE crossed
    /\ UNCHANGED <<sender, has, wanted, counts, heard, missed>>

Resend ==
    /\ worker # None /\ Arrives(worker.slot, worker.value) /\ worker' = None
    /\ UNCHANGED <<held, sender, wanted, counts, heard, crossed, missed>>

-----------------------------------------------------------------------------
Next ==
    \/ \E x \in Slot : Send(x) \/ Turned(x)
    \/ \E d \in Device : \E keys \in SUBSET Key, expired \in SUBSET Slot : Report(d, keys, expired)
    \/ \E d \in Device : \E keys \in SUBSET Key : ReportGivesUp(d, keys)
    \/ \E i \in DOMAIN held : Rest(i)
    \/ Hold \/ HoldGivesUp \/ TakeDue \/ Resend

Spec == Init /\ [][Next]_vars

-----------------------------------------------------------------------------
\* A resend never sets a key back from the last value written, nor from a value the device
\* has reported, unless the write or the report came while a task had a frame for the key in hand,
\* or did not get the lock of the queue and so left an older frame there.
NeverSetBack ==
    [][\A x \in Slot : has'[x] < has[x] =>
          x \in crossed \cup missed \/ has[x] \notin {wanted[x], heard[x]}]_vars
=============================================================================
