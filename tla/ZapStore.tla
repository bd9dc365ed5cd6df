------------------------------ MODULE ZapStore ------------------------------
(***************************************************************************)
(* The device store (components/zap_store): one row per device and a count *)
(* in NVS, an index of them in RAM, and a table of pending saves.  Clients *)
(* pair, change and hard-delete devices in the pool (zigbee_pool) and mark *)
(* them; flushers, the flush task and the tasks that call flush_now or     *)
(* flush_device, save what is marked.  Of zap_store_init it has the repair *)
(* of an interrupted delete; what comes before is StoreMove's.             *)
(*                                                                         *)
(* A hold of s_mtx (the table) or of the pool lock is one step.  An        *)
(* operation holds s_store_mutex from its first step to its last and every *)
(* NVS write under it is a step of its own: power may fail between two.  A *)
(* write that fails leaves flash as it was; nvs_commit does nothing.       *)
(*                                                                         *)
(* Changes of the pool are numbered; the number stands for a device's      *)
(* record.  Time is not modelled: any pending slot may be due at any time. *)
(* Of the last_seen side-car only the scan of the rows is here: it writes  *)
(* a key of its own.                                                       *)
(***************************************************************************)
EXTENDS Naturals, FiniteSets, FiniteSetsExt

CONSTANTS
    Device,      \* IEEE addresses, 0 is none
    Cap,         \* ZAP_MAX_DEVICES
    DirtyCap,    \* DIRTY_CAP
    Client,      \* tasks that change devices
    Pairer,      \* those of them that pair and hard-delete
    Tick,        \* the flush task
    Barrier,     \* tasks that call flush_device
    Shutdown     \* tasks that call flush_now

CONSTANTS        \* bounds of the state space
    MaxEdits,    \* changes of the pool
    MaxCuts,     \* power cuts
    MaxFails     \* NVS writes that fail

ASSUME ZapConstants ==
    /\ Device \subseteq Nat \ {0} /\ IsFiniteSet(Device)
    /\ Cap \in Nat \ {0} /\ DirtyCap \in Nat
    /\ Pairer \subseteq Client /\ Client \cap (Tick \cup Barrier \cup Shutdown) = {}
    /\ Tick \cap (Barrier \cup Shutdown) = {}
    /\ MaxEdits \in Nat /\ MaxCuts \in Nat /\ MaxFails \in Nat

VARIABLES
    row, cnt,    \* the keys "dXXXX" and "cnt" of the namespace
    index,       \* s_idx_built, s_idx_count, s_idx_ieee
    pool,        \* the record of each device in the pool, 0 if it is not there
    dirty,       \* s_dirty of zap_store_flush.cpp
    deferring,   \* s_task_started: without the flush task a mark saves at once
    call,        \* what each task is in the middle of
    op,          \* the operation that holds s_store_mutex
    up,          \* how far the boot is
    edits, cuts, fails,   \* history: the bounds' counters,
    gone,        \* the devices that were deleted, and that nobody paired since,
    givenUp,     \* those whose direct save or delete failed, which nothing retries,
    left,        \* the last change of a device before its last removal since the boot
    leftover     \* what was cut or failed left a row twice, above the count, or in the index only

flash == <<row, cnt>>
past  == <<edits, cuts, left, leftover>>
vars  == <<flash, index, pool, dirty, deferring, call, op, up, fails, gone, givenUp, past>>

-----------------------------------------------------------------------------
Slot    == 0..(Cap - 1)
Entry   == 1..DirtyCap
Flusher == Tick \cup Barrier \cup Shutdown
Task    == Client \cup Flusher
Hole    == [dev |-> 0, ver |-> 0]
Clean   == [dev |-> 0, flushing |-> FALSE, remarked |-> FALSE]
Idle    == [do |-> "idle"]
NoOp    == [step |-> "none"]
ColdIndex == [built |-> FALSE, count |-> 0, dev |-> [i \in Slot |-> 0]]

Init ==
    /\ row = [i \in Slot |-> Hole] /\ cnt = 0
    /\ index = ColdIndex
    /\ pool = [d \in Device |-> 0]
    /\ dirty = [i \in Entry |-> Clean] /\ deferring \in BOOLEAN
    /\ call = [t \in Task |-> Idle]
    /\ op = NoOp /\ up = "on"
    /\ edits = 0 /\ cuts = 0 /\ fails = 0
    /\ gone = {} /\ givenUp = {} /\ left = [d \in Device |-> 0] /\ leftover = FALSE

\* What a load finds for a device: the lower slot wins.
RowsOf(d)  == {i \in Slot : i < cnt /\ row[i].dev = d}
Durable(d) == IF RowsOf(d) = {} THEN 0 ELSE row[Min(RowsOf(d))].ver

\* A write of NVS succeeds, or fails without effect.
Written == UNCHANGED fails
Fails   == fails < MaxFails /\ fails' = fails + 1

-----------------------------------------------------------------------------
\* The pool, and zap_store_mark_dirty.

\* Pairing, rename, soft removal, any change of a device's state: the pool, then the mark
\* with a copy of the record.
Edit(c) ==
    /\ up = "on" /\ call[c] = Idle /\ edits < MaxEdits
    /\ edits' = edits + 1
    /\ \E d \in Device :
          /\ pool[d] # 0 \/ (c \in Pairer /\ Cardinality({e \in Device : pool[e] # 0}) < Cap)
          /\ pool' = [pool EXCEPT ![d] = edits']
          /\ call' = [call EXCEPT ![c] = [do |-> "mark", dev |-> d, ver |-> edits']]
          /\ gone' = gone \ {d}
    /\ UNCHANGED <<flash, index, dirty, deferring, op, up, cuts, fails, givenUp, left, leftover>>

\* device_cmd_remove, hard: out of the pool, then out of the store.
Remove(c) ==
    /\ up = "on" /\ call[c] = Idle /\ c \in Pairer
    /\ \E d \in Device :
          /\ pool' = [pool EXCEPT ![d] = 0]
          /\ call' = [call EXCEPT ![c] = [do |-> "delete", dev |-> d]]
          /\ left' = [left EXCEPT ![d] = edits]
    /\ UNCHANGED <<flash, index, dirty, deferring, op, up, edits, cuts, fails, gone, givenUp, leftover>>

\* A deferred save reads the pool when it writes; copy 0 says so.
ReadEarly(d) == pool[d]                                       \* mutant
ReadAtWrite(d) == 0

\* slot 0: nobody settles the outcome.  back: what the task does next.
Saving(d, copy, i, back) == [do |-> "save", dev |-> d, copy |-> copy, slot |-> i, back |-> back]

PendingSlots(d) == {i \in Entry : dirty[i].dev = d}
FreeSlots       == {i \in Entry : dirty[i] = Clean}

\* A slot in flight is only re-marked; without a slot or room for one the save is now.
MarkSlot(d) ==
    \/ /\ PendingSlots(d) # {}
       /\ dirty' = [i \in Entry |->
              IF i \in PendingSlots(d) THEN [dirty[i] EXCEPT !.remarked = dirty[i].flushing] ELSE dirty[i]]
    \/ /\ PendingSlots(d) = {} /\ FreeSlots # {}
       /\ dirty' = [dirty EXCEPT ![Min(FreeSlots)] = [Clean EXCEPT !.dev = d]]

Mark(c) ==
    /\ call[c].do = "mark"
    /\ LET d == call[c].dev
           full == PendingSlots(d) = {} /\ FreeSlots = {}
       IN  \/ /\ deferring /\ MarkSlot(d)
              /\ call' = [call EXCEPT ![c] = Idle]
           \/ /\ ~deferring \/ full
              /\ call' = [call EXCEPT ![c] =
                    Saving(d, IF deferring THEN ReadAtWrite(d) ELSE @.ver, 0, Idle)]
              /\ UNCHANGED dirty
    /\ UNCHANGED <<flash, index, pool, deferring, op, up, fails, gone, givenUp, past>>

\* flush_slot: claim, save, settle.
Claimed(f, i, back) ==
    /\ dirty' = [dirty EXCEPT ![i].flushing = TRUE, ![i].remarked = FALSE]
    /\ call' = [call EXCEPT ![f] = Saving(dirty[i].dev, ReadAtWrite(dirty[i].dev), i, back)]

\* The flush task at a slot that was due, whatever is pending there now.
Claim(f, i) ==
    /\ call[f] = Idle
    /\ dirty[i] # Clean /\ ~dirty[i].flushing
    /\ Claimed(f, i, Idle)
    /\ UNCHANGED <<flash, index, pool, deferring, op, up, fails, gone, givenUp, past>>

SettledAnyway(e, ok) == IF ok THEN Clean ELSE [e EXCEPT !.flushing = FALSE, !.remarked = FALSE]  \* mutant
Settled(e, ok) ==
    IF ok /\ ~e.remarked THEN Clean ELSE [e EXCEPT !.flushing = FALSE, !.remarked = FALSE]

\* The caller of flush_device learns whether its device was saved.
Settle(f) ==
    /\ call[f].do = "settle"
    /\ LET i == call[f].slot
       IN  /\ dirty' = [dirty EXCEPT ![i] = Settled(@, call[f].ok)]
           /\ call' = [call EXCEPT ![f] =
                 IF @.back.do = "flushed" THEN [@.back EXCEPT !.ok = call[f].ok] ELSE @.back]
    /\ UNCHANGED <<flash, index, pool, deferring, op, up, fails, gone, givenUp, past>>

-----------------------------------------------------------------------------
\* zap_store_flush_device: look at the slot, take it if it is not in flight, else wait.

\* A change whose mark has not returned is not pending yet.
Busy(t, d) == call[t].do \in {"mark", "save", "delete"} /\ call[t].dev = d
Owed(d)    == IF d \in givenUp \/ \E c \in Client : Busy(c, d) THEN 0 ELSE pool[d]
Flushed(d, owed, ok) == [do |-> "flushed", dev |-> d, owed |-> owed, ok |-> ok]

FlushDevice(f) ==
    /\ up = "on" /\ call[f] = Idle
    /\ \E d \in Device : call' = [call EXCEPT ![f] = [do |-> "look", dev |-> d, owed |-> Owed(d)]]
    /\ UNCHANGED <<flash, index, pool, dirty, deferring, op, up, fails, gone, givenUp, past>>

SlotsToWaitFor(d) == PendingSlots(d)

\* In flight: another look, or the wait has lasted too long.
Look(f) ==
    /\ call[f].do = "look"
    /\ LET d == call[f].dev
           found == SlotsToWaitFor(d)
       IN  call' = [call EXCEPT ![f] =
              CASE found = {} -> Flushed(d, @.owed, TRUE)
                [] found # {} /\ ~dirty[Min(found)].flushing ->
                      [do |-> "take", dev |-> d, owed |-> @.owed, slot |-> Min(found)]
                [] OTHER -> Flushed(d, @.owed, FALSE)]
    /\ UNCHANGED <<flash, index, pool, dirty, deferring, op, up, fails, gone, givenUp, past>>

\* The slot may have been taken, or settled and given to another device, since the look.
Take(f) ==
    /\ call[f].do = "take"
    /\ LET e == dirty[call[f].slot]
           d == call[f].dev
       IN  \/ /\ e.flushing
              /\ call' = [call EXCEPT ![f] = [do |-> "look", dev |-> d, owed |-> @.owed]]
              /\ UNCHANGED dirty
           \/ /\ ~e.flushing /\ e.dev # d
              /\ call' = [call EXCEPT ![f] = Flushed(d, @.owed, TRUE)]
              /\ UNCHANGED dirty
           \/ ~e.flushing /\ e.dev = d /\ Claimed(f, call[f].slot, Flushed(d, call[f].owed, FALSE))
    /\ UNCHANGED <<flash, index, pool, deferring, op, up, fails, gone, givenUp, past>>

FlushReturn(f) ==
    /\ call[f].do \in {"flushed", "flushedAll"}
    /\ call' = [call EXCEPT ![f] = Idle]
    /\ UNCHANGED <<flash, index, pool, dirty, deferring, op, up, fails, gone, givenUp, past>>

-----------------------------------------------------------------------------
\* zap_store_flush_now: the side-car, then two passes over the slots, each followed by a
\* wait until no slot is being written.

Slots(pass, owed, ok) == [do |-> "slots", pass |-> pass, at |-> 1, owed |-> owed, ok |-> ok]

FlushNow(f) ==
    /\ up = "on" /\ call[f] = Idle
    /\ call' = [call EXCEPT ![f] = [do |-> "lastSeen", owed |-> [d \in Device |-> Owed(d)]]]
    /\ UNCHANGED <<flash, index, pool, dirty, deferring, op, up, fails, gone, givenUp, past>>

\* flush_slot at the next slot: free or in flight, it is passed over.
NextSlot(f) ==
    /\ call[f].do = "slots" /\ call[f].at \in Entry
    /\ LET next == [call[f] EXCEPT !.at = @ + 1]
           e    == dirty[call[f].at]
       IN  \/ e # Clean /\ ~e.flushing /\ Claimed(f, call[f].at, next)
           \/ /\ e = Clean \/ e.flushing
              /\ call' = [call EXCEPT ![f] = next]
              /\ UNCHANGED dirty
    /\ UNCHANGED <<flash, index, pool, deferring, op, up, fails, gone, givenUp, past>>

\* wait_no_flushing, or it lasted too long; then either nothing is pending, or the next pass.
NoSlotInFlight == \A i \in Entry : ~dirty[i].flushing

Settles(f) ==
    /\ call[f].do = "slots" /\ call[f].at = DirtyCap + 1
    /\ \E timely \in BOOLEAN :
          /\ timely => NoSlotInFlight
          /\ call' = [call EXCEPT ![f] =
                IF call[f].pass = 2 \/ \A i \in Entry : dirty[i] = Clean
                  THEN [do |-> "flushedAll", owed |-> @.owed, ok |-> @.ok /\ timely]
                  ELSE Slots(2, @.owed, @.ok /\ timely)]
    /\ UNCHANGED <<flash, index, pool, dirty, deferring, op, up, fails, gone, givenUp, past>>

-----------------------------------------------------------------------------
\* zap_store_save_live: save_locked under s_store_mutex.

\* The end of a save: the lock is released, a flusher goes on to settle its slot.
Saved(t, ok) ==
    /\ op' = NoOp
    /\ call' = [call EXCEPT ![t] =
          IF @.slot = 0 THEN @.back ELSE [do |-> "settle", slot |-> @.slot, ok |-> ok, back |-> @.back]]
    /\ givenUp' = IF ok THEN givenUp \ {call[t].dev}
                  ELSE IF call[t].slot = 0 THEN givenUp \cup {call[t].dev} ELSE givenUp

\* index_build_locked overwrites the entries below the count, no others.
Scanned(built) ==
    [built |-> built, count |-> cnt, dev |-> [i \in Slot |-> IF i < cnt THEN row[i].dev ELSE index.dev[i]]]
Index    == IF index.built THEN index ELSE Scanned(TRUE)
Found(d) == {i \in Slot : i < Index.count /\ Index.dev[i] = d}

Record(t)  == IF call[t].copy = 0 THEN pool[call[t].dev] ELSE call[t].copy
MaySave(t) == call[t].do = "save" /\ op = NoOp

\* zap_store_save_last_seen, of flush_now and of the flush task every ten minutes, lists the rows.
LastSeen(f) ==
    /\ up = "on" /\ op = NoOp
    /\ \/ f \in Tick /\ call[f] = Idle /\ UNCHANGED call
       \/ /\ call[f].do = "lastSeen"
          /\ call' = [call EXCEPT ![f] = Slots(1, @.owed, TRUE)]
    /\ index' = Index
    /\ UNCHANGED <<flash, pool, dirty, deferring, op, up, fails, gone, givenUp, past>>

\* The pool no longer has the device: nothing is written, nothing stays pending.
SaveGone(t) ==
    /\ MaySave(t) /\ Record(t) = 0
    /\ Saved(t, TRUE)
    /\ UNCHANGED <<flash, index, pool, dirty, deferring, up, fails, gone, past>>

\* A row of its own, a new one, or no room.
SaveBegin(t) ==
    /\ MaySave(t) /\ Record(t) # 0
    /\ index' = Index
    /\ LET d == call[t].dev
           Write(step, i) == op' = [step |-> step, task |-> t, dev |-> d, ver |-> Record(t), pos |-> i]
       IN  \/ Found(d) # {} /\ Write("row", Min(Found(d))) /\ UNCHANGED <<call, givenUp>>
           \/ Found(d) = {} /\ cnt < Cap /\ Write("more", cnt) /\ UNCHANGED <<call, givenUp>>
           \/ Found(d) = {} /\ cnt >= Cap /\ Saved(t, FALSE)
    /\ UNCHANGED <<flash, pool, dirty, deferring, up, fails, gone, past>>

\* The namespace cannot be opened.
SaveShut(t) ==
    /\ MaySave(t) /\ Record(t) # 0
    /\ Fails /\ Saved(t, FALSE)
    /\ UNCHANGED <<flash, index, pool, dirty, deferring, up, gone, past>>

\* A new row is counted before it is written.
SaveCount(t) ==
    /\ op.step = "more" /\ op.task = t
    /\ \/ Written /\ cnt' = cnt + 1 /\ op' = [op EXCEPT !.step = "row"] /\ UNCHANGED <<call, givenUp>>
       \/ Fails /\ Saved(t, FALSE) /\ UNCHANGED cnt
    /\ UNCHANGED <<row, index, pool, dirty, deferring, up, gone, past>>

\* Without its row a new slot can show, once the next slot is written, what a scan left there.
Ghost(i) == i >= index.count /\ index.dev[i] # 0

SaveRow(t) ==
    /\ op.step = "row" /\ op.task = t
    /\ \/ /\ Written /\ Saved(t, TRUE)
          /\ row' = [row EXCEPT ![op.pos] = [dev |-> op.dev, ver |-> op.ver]]
          /\ index' = [index EXCEPT !.dev[op.pos] = op.dev,
                                    !.count = IF op.pos >= @ THEN op.pos + 1 ELSE @]
          /\ UNCHANGED leftover
       \/ /\ Fails /\ Saved(t, FALSE) /\ UNCHANGED <<row, index>>
          /\ leftover' = (leftover \/ Ghost(op.pos))
    /\ UNCHANGED <<cnt, pool, dirty, deferring, up, gone, edits, cuts, left>>

Save(t) == SaveGone(t) \/ SaveShut(t) \/ SaveBegin(t) \/ SaveCount(t) \/ SaveRow(t)

-----------------------------------------------------------------------------
\* zap_store_delete_device, under s_store_mutex.

\* The last row is a copy of a lower one, as in the middle of a delete.
NoRepair(d) == FALSE                                           \* mutant
CutShort(d) == d # 0 /\ \E i \in Slot : i < cnt - 1 /\ row[i].dev = d

\* Every way out forgets the index; device_cmd_remove does not look at the result.
Deleted(t, ok) ==
    /\ op' = NoOp
    /\ call' = [call EXCEPT ![t] = Idle]
    /\ index' = [Index EXCEPT !.built = FALSE]
    /\ gone' = IF ok THEN gone \cup {call[t].dev} ELSE gone
    /\ givenUp' = IF Durable(call[t].dev) = 0 THEN givenUp \ {call[t].dev} ELSE givenUp \cup {call[t].dev}

\* Without a row, without the namespace, or without memory for the last row nothing is written.
DeleteBegin(t) ==
    /\ call[t].do = "delete" /\ op = NoOp
    /\ LET d == call[t].dev
       IN  \/ ((Found(d) = {} /\ Written) \/ Fails) /\ Deleted(t, FALSE)
           \/ /\ Found(d) # {} /\ Written
              /\ index' = Index
              /\ op' = [step |-> IF Min(Found(d)) = cnt - 1 THEN "shrink" ELSE "move",
                        task |-> t, dev |-> d, pos |-> Min(Found(d))]
              /\ UNCHANGED <<call, gone, givenUp>>
    /\ UNCHANGED <<flash, pool, dirty, deferring, up, past>>

\* The last row, or a hole if it is one or is this device's, takes the slot's place.
Tail(d) == IF row[cnt - 1].dev = d THEN Hole ELSE row[cnt - 1]

DeleteMove(t) ==
    /\ op.step = "move" /\ op.task = t
    /\ LET nothingThere == Tail(op.dev) = Hole /\ row[op.pos] = Hole
       IN  \/ /\ ~nothingThere /\ Written
              /\ row' = [row EXCEPT ![op.pos] = Tail(op.dev)]
              /\ op' = [op EXCEPT !.step = "shrink"]
              /\ UNCHANGED <<index, call, gone, givenUp>>
           \/ /\ IF nothingThere THEN Written ELSE Fails
              /\ Deleted(t, FALSE) /\ UNCHANGED row
    /\ UNCHANGED <<cnt, pool, dirty, deferring, up, past>>

DeleteShrink(t) ==
    /\ op.step = "shrink" /\ op.task = t
    /\ \/ /\ Written /\ cnt' = cnt - 1
          /\ op' = [op EXCEPT !.step = "drop"]
          /\ UNCHANGED <<index, call, gone, givenUp, leftover>>
       \/ /\ Fails /\ Deleted(t, FALSE) /\ UNCHANGED cnt
          /\ leftover' = (leftover \/ CutShort(row[cnt - 1].dev))
    /\ UNCHANGED <<row, pool, dirty, deferring, up, edits, cuts, left>>

DeleteDrop(t) ==
    /\ op.step = "drop" /\ op.task = t
    /\ \/ Written /\ Deleted(t, TRUE) /\ row' = [row EXCEPT ![cnt] = Hole] /\ UNCHANGED leftover
       \/ row[cnt] # Hole /\ Fails /\ Deleted(t, FALSE) /\ UNCHANGED row /\ leftover' = TRUE
    /\ UNCHANGED <<cnt, pool, dirty, deferring, up, edits, cuts, left>>

Delete(t) == DeleteBegin(t) \/ DeleteMove(t) \/ DeleteShrink(t) \/ DeleteDrop(t)

-----------------------------------------------------------------------------
\* A power cut, and the boot after it.

Deleting(d) == \E t \in Task : call[t] = [do |-> "delete", dev |-> d]

Cut ==
    /\ cuts < MaxCuts /\ cuts' = cuts + 1
    /\ index' = ColdIndex
    /\ pool' = [d \in Device |-> 0]
    /\ dirty' = [i \in Entry |-> Clean] /\ UNCHANGED deferring
    /\ call' = [t \in Task |-> Idle]
    /\ op' = NoOp /\ up' = "init"
    /\ givenUp' = {} /\ left' = [d \in Device |-> 0]
    /\ gone' = gone \cup {d \in Device : Deleting(d) /\ Durable(d) = 0}
    /\ leftover' = (leftover \/ \E i \in Slot : i >= cnt /\ row[i] # Hole)
    /\ UNCHANGED <<flash, edits, fails>>

\* repair_interrupted_delete: the last row is a copy of a lower one, or stays one.
Repair ==
    /\ up = "init"
    /\ \/ cnt < 2 /\ Written /\ up' = "load" /\ UNCHANGED <<cnt, index, leftover>>
       \/ /\ cnt >= 2 /\ index' = Scanned(FALSE)
          /\ LET copied == CutShort(row[cnt - 1].dev)
             IN  \/ ~copied /\ Written /\ up' = "load" /\ UNCHANGED <<cnt, leftover>>
                 \/ copied /\ Written /\ cnt' = cnt - 1 /\ up' = "tail" /\ UNCHANGED leftover
                 \/ copied /\ Fails /\ up' = "load" /\ leftover' = TRUE /\ UNCHANGED cnt
    /\ UNCHANGED <<row, pool, dirty, deferring, call, op, gone, givenUp, edits, cuts, left>>

RepairErase ==
    /\ up = "tail" /\ up' = "load"
    /\ \/ Written /\ row' = [row EXCEPT ![cnt] = Hole] /\ UNCHANGED leftover
       \/ Fails /\ UNCHANGED row /\ leftover' = TRUE
    /\ UNCHANGED <<cnt, index, pool, dirty, deferring, call, op, gone, givenUp, edits, cuts, left>>

\* zap_store_load_devices into the pool, and the flush task, if there is memory for it.
Load ==
    /\ up = "load" /\ up' = "on"
    /\ pool' = [d \in Device |-> Durable(d)]
    /\ deferring' \in BOOLEAN
    /\ UNCHANGED <<flash, index, dirty, call, op, fails, gone, givenUp, past>>

-----------------------------------------------------------------------------
Boot == Repair \/ RepairErase \/ Load
Flush(f) == Look(f) \/ Take(f) \/ NextSlot(f) \/ Settles(f) \/ FlushReturn(f) \/ Settle(f)

Next ==
    \/ Cut \/ Boot
    \/ \E c \in Client : Edit(c) \/ Remove(c) \/ Mark(c) \/ Delete(c)
    \/ \E f \in Tick : \E i \in Entry : Claim(f, i)
    \/ \E f \in Barrier : FlushDevice(f)
    \/ \E f \in Shutdown : FlushNow(f)
    \/ \E f \in Flusher : Flush(f) \/ LastSeen(f)
    \/ \E t \in Task : Save(t)

Spec == Init /\ [][Next]_vars

-----------------------------------------------------------------------------
\* The rows below the count, the index and the calls are well formed, whatever was cut or failed.
TypeOK ==
    /\ \A i \in Slot : row[i] = Hole \/ (row[i].dev \in Device /\ row[i].ver \in 1..edits)
    /\ cnt \in 0..Cap
    /\ index.built \in BOOLEAN /\ index.count \in 0..Cap
    /\ \A i \in Slot : index.dev[i] \in Device \cup {0}
    /\ \A d \in Device : pool[d] \in 0..edits
    /\ \A i \in Entry :
          /\ dirty[i].dev \in Device \cup {0}
          /\ dirty[i].remarked => dirty[i].flushing
          /\ dirty[i].flushing => \E f \in Flusher : call[f].do \in {"save", "settle"} /\ call[f].slot = i
    /\ op # NoOp => op.pos \in Slot /\ call[op.task].do \in {"save", "delete"}

\* No step of an operation is more than a power cut away from one row for each device: outside the operations
\* and after the boot's repair two rows never share one.  Nor when a write fails, unless that leaves something over.
OneRowPerDevice ==
    up = "on" /\ op = NoOp /\ (fails = 0 \/ ~leftover) =>
       \A i, j \in Slot : i < cnt /\ j < cnt /\ row[i].dev = row[j].dev /\ row[i] # Hole => i = j

\* A counted slot without a row, which no save uses again, is the price of one cut or one failed write.
Holes == {i \in Slot : i < cnt /\ row[i] = Hole}
SlotsNotLeaked == op = NoOp => Cardinality(Holes) <= cuts + fails

\* A device whose delete returned true, or was cut when its row was gone, does not come back at a later
\* boot, unless a cut or a failed write had left something over.
DeletedStaysGone == leftover \/ \A d \in gone : pool[d] = 0

\* When nothing is pending for a device, flash has the pool's record of it.
SettledMeansSaved ==
    up = "on" /\ ~leftover =>
       \A d \in Device :
          pool[d] = 0 \/ Durable(d) = pool[d] \/ d \in givenUp
          \/ PendingSlots(d) # {} \/ \E t \in Task : Busy(t, d)

\* zap_store.h: flush_device returns true once the device's pending state is durable.
FlushDeviceDurable ==
    \A f \in Flusher :
       call[f].do = "flushed" /\ call[f].ok /\ ~leftover =>
          LET d == call[f].dev
          IN  Durable(d) >= call[f].owed \/ call[f].owed <= left[d]

\* zap_store_flush.cpp: when flush_now returns, every device that was pending at the call is on flash, unless
\* a write failed, was still in flight after the wait, or was refused its room, which a slot without a row takes.
FlushNowDurable ==
    \A f \in Shutdown :
       call[f].do = "flushedAll" /\ call[f].ok /\ fails = 0 /\ ~leftover /\ Holes = {} =>
          \A d \in Device : Durable(d) >= call[f].owed[d] \/ call[f].owed[d] <= left[d]

\* A device is on flash as the pool has it, once nothing is pending for it or its flush says so; a deleted one
\* is not, and no slot is taken without a row.
SavedWhenSaid == TypeOK /\ SlotsNotLeaked /\ DeletedStaysGone /\ SettledMeansSaved /\ FlushDeviceDurable /\ FlushNowDurable

\* The store implements DeviceMap: power cuts and all, a device's record on flash only follows
\* the pool and only a delete removes it.  A failed write, or a cut that leaves a row above
\* the count, ends the promise.
Map == INSTANCE DeviceMap WITH
    durable <- [d \in Device |-> Durable(d)],
    leaving <- {d \in Device : Deleting(d)},
    void    <- fails > 0 \/ leftover
DeviceMapSpec == Map!Spec
=============================================================================
