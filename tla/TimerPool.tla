----------------------------- MODULE TimerPool ------------------------------
(***************************************************************************)
(* The timers that converters ask for: the pool of slots over esp_timer in *)
(* components/zhc_adapter/src/zhc_adapter.cpp.                             *)
(*                                                                         *)
(* A converter's task reserves a slot, makes a timer, writes its handle    *)
(* into the slot and arms it, in four steps; the timer service takes an    *)
(* expired timer off its list and then calls back with the slot's address. *)
(* A spin lock makes each look at a slot one step; what a slot's release   *)
(* leaves to be stopped and deleted is stopped and deleted after it is     *)
(* unlocked, in steps of its own, and the timer may expire before.  A      *)
(* ticket of a timer is its slot and the slot's generation, which every    *)
(* release counts up; a call-back has the slot only, and no generation.    *)
(***************************************************************************)
EXTENDS Naturals, FiniteSets

CONSTANTS
    Task,               \* tasks that schedule and cancel
    Slots,              \* kMaxIdfTimers
    Generations         \* 2^16 in the code

CONSTANTS MaxTimers     \* bound: timers scheduled, the numbers that tell them apart

VARIABLES
    slots,      \* g_timer_slots: whose function, which handle, which generation
    task,       \* the tasks inside idf_timer_schedule
    esp,        \* esp_timer objects: "idle", "armed", "expired" (off the list, not yet called back)
    stopping,   \* handles of slots that idf_timer_cancel released, to be stopped
    deleting,   \* handles out of released slots, to be deleted
    tickets,    \* what idf_timer_schedule returned, as long as a converter may cancel with it
    made,       \* timers scheduled so far
    fired,      \* history: whose function ran, and at whose expiry
    hit,        \* history: cancelled by ticket, and whose timer it released
    late        \* history: timers that expired before the cancel that released their slot stopped them

vars == <<slots, task, esp, stopping, deleting, tickets, made, fired, hit, late>>

None  == 0
Timer == 1..MaxTimers

Init ==
    /\ slots = [s \in 1..Slots |-> [timer |-> None, handle |-> None, gen |-> 0]]
    /\ task = [t \in Task |-> [pc |-> "idle"]]
    /\ esp = [i \in Timer |-> "none"]
    /\ stopping = {} /\ deleting = {}
    /\ tickets = {} /\ made = 0 /\ fired = {} /\ hit = {} /\ late = {}

Released(s) == [s EXCEPT !.timer = None, !.handle = None, !.gen = (@ + 1) % Generations]

-----------------------------------------------------------------------------
\* idf_timer_schedule.  A timer bears the number of its schedule.

Reserve(t) ==
    /\ task[t].pc = "idle" /\ made < MaxTimers
    /\ \E s \in 1..Slots :
          /\ slots[s].timer = None /\ \A r \in 1..(s - 1) : slots[r].timer # None
          /\ slots' = [slots EXCEPT ![s].timer = made + 1, ![s].handle = None]
          /\ task' = [task EXCEPT ![t] = [pc |-> "create", slot |-> s, gen |-> slots[s].gen, timer |-> made + 1]]
    /\ made' = made + 1
    /\ UNCHANGED <<esp, stopping, deleting, tickets, fired, hit, late>>

\* A timer that could not be made, or not started: the slot is free again, whatever is in it.
Failed(t) ==
    /\ slots' = [slots EXCEPT ![task[t].slot] = Released(@)]
    /\ task' = [task EXCEPT ![t] = [pc |-> "idle"]]
    /\ UNCHANGED <<esp, stopping, tickets, made, fired, hit, late>>

Create(t) ==
    /\ task[t].pc = "create"
    /\ \/ /\ esp' = [esp EXCEPT ![task[t].timer] = "idle"]
          /\ task' = [task EXCEPT ![t].pc = "publish"]
          /\ UNCHANGED <<slots, stopping, deleting, tickets, made, fired, hit, late>>
       \/ Failed(t) /\ UNCHANGED deleting

Publish(t) ==
    /\ task[t].pc = "publish"
    /\ slots' = [slots EXCEPT ![task[t].slot].handle = task[t].timer]
    /\ task' = [task EXCEPT ![t].pc = "start"]
    /\ UNCHANGED <<esp, stopping, deleting, tickets, made, fired, hit, late>>

Start(t) ==
    LET c == task[t]
    IN  /\ c.pc = "start"
        /\ \/ /\ esp' = [esp EXCEPT ![c.timer] = IF @ = "idle" THEN "armed" ELSE @]
              /\ tickets' = tickets \cup {[slot |-> c.slot, gen |-> c.gen, timer |-> c.timer]}
              /\ task' = [task EXCEPT ![t] = [pc |-> "idle"]]
              /\ UNCHANGED <<slots, stopping, deleting, made, fired, hit, late>>
           \/ Failed(t) /\ deleting' = deleting \cup {c.timer}

-----------------------------------------------------------------------------
\* The timer service: an expired timer leaves the list, then idf_timer_fire_thunk runs.

Expire(i) ==
    /\ esp[i] = "armed" /\ esp' = [esp EXCEPT ![i] = "expired"]
    /\ late' = IF i \in stopping THEN late \cup {i} ELSE late
    /\ UNCHANGED <<slots, task, stopping, deleting, tickets, made, fired, hit>>

\* The address of the slot that timer i was made for.
SlotOf(i) == CHOOSE s \in 1..Slots : \E k \in tickets : k.timer = i /\ k.slot = s

\* The call-back takes whatever is in the slot, releases it, and then deletes its handle and runs its function.
FireThunk(i) ==
    /\ esp[i] = "expired" /\ \E k \in tickets : k.timer = i
    /\ esp' = [esp EXCEPT ![i] = "idle"]
    /\ LET s == SlotOf(i)
       IN  IF slots[s].timer # None
           THEN /\ slots' = [slots EXCEPT ![s] = Released(@)]
                /\ fired' = fired \cup {[ran |-> slots[s].timer, at |-> i]}
                /\ deleting' = deleting \cup ({slots[s].handle} \ {None})
           ELSE UNCHANGED <<slots, fired, deleting>>
    /\ UNCHANGED <<task, stopping, tickets, made, hit, late>>

-----------------------------------------------------------------------------
\* idf_timer_cancel, with a ticket that may be old.

AnyGeneration(s, k) == slots[s].timer # None   \* mutant
SameGeneration(s, k) == slots[s].timer # None /\ slots[s].gen = k.gen

Cancel(k) ==
    /\ SameGeneration(k.slot, k)
    /\ slots' = [slots EXCEPT ![k.slot] = Released(@)]
    /\ hit' = hit \cup {[by |-> k.timer, hit |-> slots[k.slot].timer]}
    /\ LET h == slots[k.slot].handle
       IN  /\ stopping' = stopping \cup ({h} \ {None})
           /\ late' = IF h # None /\ esp[h] = "expired" THEN late \cup {h} ELSE late
    /\ UNCHANGED <<task, esp, deleting, tickets, made, fired>>

\* esp_timer_stop after the unlock: no use when the timer has expired.
Stop(h) ==
    /\ h \in stopping
    /\ stopping' = stopping \ {h} /\ deleting' = deleting \cup {h}
    /\ esp' = [esp EXCEPT ![h] = IF @ = "armed" THEN "idle" ELSE @]
    /\ UNCHANGED <<slots, task, tickets, made, fired, hit, late>>

\* esp_timer_delete, of all three: an armed timer refuses it, and one that has expired is called back all the same.
Delete(h) ==
    /\ h \in deleting /\ deleting' = deleting \ {h}
    /\ esp' = [esp EXCEPT ![h] = IF @ = "idle" THEN "gone" ELSE @]
    /\ UNCHANGED <<slots, task, stopping, tickets, made, fired, hit, late>>

-----------------------------------------------------------------------------
Next ==
    \/ \E t \in Task : Reserve(t) \/ Create(t) \/ Publish(t) \/ Start(t)
    \/ \E i \in Timer : Expire(i) \/ FireThunk(i)
    \/ \E k \in tickets : Cancel(k)
    \/ \E h \in Timer : Stop(h) \/ Delete(h)

Spec == Init /\ [][Next]_vars

-----------------------------------------------------------------------------
\* A ticket outlives its timer and meets the next timers of the slot: a cancel with it never
\* releases another timer, and an expiry never runs another timer's function, as long as no
\* timer expired before the cancel that released its slot stopped it.  Such an expiry the code
\* does not tell from the next timer's: the call-back has no generation to compare.
TicketsStayTrue ==
    \/ late # {}
    \/ (\A x \in hit : x.hit = x.by) /\ (\A x \in fired : x.ran = x.at)
=============================================================================
