---------------------------- MODULE ShadowFlash ----------------------------
(***************************************************************************)
(* The flash side of the shadow cache (components/device_shadow): what a   *)
(* device last reported and its settings, in RAM and under two keys of NVS.*)
(* Reports change RAM and mark, or are held back by the debounce window;   *)
(* task_shadow's sweep and flush_now write what is marked; the API tasks   *)
(* set, clear and remove.  A report looks the pool up before it takes the  *)
(* lock, and a hard delete leaves the pool before it removes the entry:    *)
(* both are two steps.                                                     *)
(*                                                                         *)
(* A hold of s_mutex is one step.  Who holds s_flash_mutex (FlashOrder)    *)
(* has a job; its flash write is a step of its own, so power may fail, and *)
(* reports come, between the copy and the write.                           *)
(*                                                                         *)
(* The blob stands for its CRC, and its CRC for it.  Time is not modelled: *)
(* the sweep may find the interval of a marked device over or not, except  *)
(* that a forced one is always due; and what is held back, or a time-out's *)
(* flag, may be served by a message before, or by the sweep itself.        *)
(***************************************************************************)
EXTENDS Naturals, Sequences, SequencesExt

CONSTANTS
    Device,       \* IEEE addresses
    Val,          \* what a device's cached attributes can be, Empty included
    Empty,        \* no attributes
    Cfg,          \* settings of a device, Default included
    Default,      \* those of a fresh entry
    NoKey,        \* a key NVS does not hold; a CRC that is not valid
    Task          \* tasks that call the API

ASSUME ShadowConstants ==
    /\ IsFiniteSet(Device) /\ Empty \in Val /\ Default \in Cfg /\ NoKey \notin Val \cup Cfg

VARIABLES
    pool,         \* the paired devices (zigbee_pool)
    bridged,      \* the device whose report the bridge has looked up in the pool
    leaving,      \* devices a hard delete took from the pool and has yet to remove here
    table,        \* s_shadow[0 .. s_count-1], their addresses
    entry,        \* the entries
    attrKey, cfgKey,   \* the 'a' and the 'c' key of each device in NVS
    job,          \* what each holder of FlashOrder is in the middle of
    pos,          \* where the sweep and flush_now are in the table
    unmarked,     \* history: devices changed, since they were last copied, by what does not mark,
    cut,          \* devices whose keys may be left: an erase failed, or a restart
                  \* met an entry outside the pool, or a removal before its erase,
    unsure,       \* devices whose last write of settings failed,
    owed          \* what flush_now still has to write

homes   == <<pool, bridged, leaving>>
flash    == <<attrKey, cfgKey>>
past     == <<unmarked, cut, unsure, owed>>
vars     == <<homes, table, entry, flash, job, pos, past>>

-----------------------------------------------------------------------------
Writer == Task \cup {"sweep", "flush"}
Idle   == [do |-> "idle"]
Fresh  == [val |-> Empty, held |-> FALSE, dirty |-> FALSE, force |-> FALSE, crc |-> NoKey,
           cfg |-> Default, cfgCrc |-> NoKey]

Init ==
    /\ pool \in SUBSET Device /\ bridged = {} /\ leaving = {}
    /\ table = <<>> /\ entry = [d \in Device |-> Fresh]
    /\ attrKey = [d \in Device |-> NoKey] /\ cfgKey = [d \in Device |-> NoKey]
    /\ job = [w \in Writer |-> Idle] /\ pos = [sweep |-> 1, flush |-> 0]
    /\ unmarked = {} /\ cut = {} /\ unsure = {} /\ owed = {}

Known == ToSet(table)

\* s_flash_mutex is free.
FlashOrder == \A w \in Writer : job[w] = Idle

\* find_or_create_entry: a new one at the end of the table.
Appended(d) == IF d \in Known THEN table ELSE Append(table, d)

-----------------------------------------------------------------------------
\* What changes RAM alone.

\* The bridge drops what the decoder says of a device that is not in the pool.
Bridged(d) ==
    /\ bridged = {} /\ d \in pool
    /\ bridged' = {d}
    /\ UNCHANGED <<pool, leaving, table, entry, flash, job, pos, past>>

MarkDirty(e) == [e EXCEPT !.dirty = TRUE]

\* upsert_cache: it replaces and adds.  Then the mark.
Upserted(e) == {[e EXCEPT !.val = v] : v \in {x \in Val : x = Empty => e.val = Empty}}
Stored(e)   == {MarkDirty(f) : f \in Upserted(e)}

\* flush_pending_entry_locked: what the window held back is stored.
Released(e) == IF e.held THEN {[f EXCEPT !.held = FALSE] : f \in Stored(e)} ELSE {e}

\* The entry of d becomes one of entries.
Becomes(d, entries) ==
    /\ \E e \in entries : entry' = [entry EXCEPT ![d] = e]
    /\ UNCHANGED <<pool, leaving, flash, job, pos, cut, unsure, owed>>

NoMark(d) == unmarked' = IF entry'[d].val = entry[d].val THEN unmarked ELSE unmarked \cup {d}

\* What the debounce window holds back of a report, or held before.
Kept(d, entries) == {[e EXCEPT !.held = h] : e \in entries, h \in {x \in BOOLEAN : entry[d].held => x}}

\* process_ieee: something is stored and marked; or held back by the debounce window, past it
\* and not marked, filtered or throttled away.
Report(d) ==
    /\ d \in bridged /\ bridged' = {}
    /\ table' = Appended(d)
    /\ \/ Becomes(d, Kept(d, Stored(entry[d]))) /\ UNCHANGED unmarked
       \/ Becomes(d, Kept(d, Upserted(entry[d]))) /\ NoMark(d)

\* An optimistic update: no mark.
Optimistic(d) ==
    /\ d \in Known /\ Becomes(d, Upserted(entry[d]))
    /\ NoMark(d)
    /\ UNCHANGED <<bridged, table>>

\* One attribute goes; others may stay.
RemoveAttr(d) ==
    /\ d \in Known /\ entry[d].val # Empty
    /\ Becomes(d, {MarkDirty([entry[d] EXCEPT !.val = v]) : v \in Val \ {entry[d].val}})
    /\ UNCHANGED <<bridged, table, unmarked>>

\* task_shadow's messages: the window closes, or a time-out stores its synthetic attribute.
WindowCloses(d) ==
    /\ d \in Known /\ Becomes(d, Released(entry[d]))
    /\ UNCHANGED <<bridged, table, unmarked>>

TimesOut(d) ==
    /\ d \in Known /\ Becomes(d, Stored(entry[d]))
    /\ UNCHANGED <<bridged, table, unmarked>>

\* set_occupancy_default, set_no_occupancy_since: an entry, and nothing that is saved.
Touch(d) ==
    /\ d \notin Known /\ table' = Append(table, d)
    /\ UNCHANGED <<homes, entry, flash, job, pos, past>>

Pair(d) ==
    /\ d \notin pool /\ pool' = pool \cup {d}
    /\ UNCHANGED <<bridged, leaving, table, entry, flash, job, pos, past>>

\* A hard delete takes the device from the pool, if it is there, before anything else.
LeavePool(d) ==
    /\ d \notin leaving /\ leaving' = leaving \cup {d}
    /\ pool' = pool \ {d}
    /\ UNCHANGED <<bridged, table, entry, flash, job, pos, past>>

-----------------------------------------------------------------------------
\* The sweep of task_shadow, and flush_now.

\* persist_changed_locked: entry e of d is copied to be written, if flash does not hold it.
Copied(w, d, e) ==
    /\ entry' = [entry EXCEPT ![d] = [e EXCEPT !.dirty = FALSE, !.force = FALSE, !.crc = e.val]]
    /\ IF e.crc = e.val
       THEN /\ pos' = [pos EXCEPT ![w] = @ + 1]
            /\ owed' = owed \ {d}
            /\ UNCHANGED job
       ELSE /\ job' = [job EXCEPT ![w] = [do |-> "attrs", dev |-> d, blob |-> e.val]]
            /\ UNCHANGED <<pos, owed>>
    /\ unmarked' = unmarked \ {d}
    /\ UNCHANGED <<homes, table, flash, cut, unsure>>

At(w) == table[pos[w]]
Pass(w, d, e) ==
    /\ pos' = [pos EXCEPT ![w] = @ + 1]
    /\ entry' = [entry EXCEPT ![d] = e]
    /\ UNCHANGED <<homes, table, flash, job, past>>

\* The sweep releases what a full queue left held (a time-out so left is TimesOut, before);
\* then a marked entry is due, or its interval is not over yet.
SweepEntry ==
    /\ FlashOrder /\ pos.sweep \in 1..Len(table)
    /\ LET d == At("sweep")
       IN  \E e \in {entry[d]} \cup Released(entry[d]) :
              \/ e.dirty /\ Copied("sweep", d, e)
              \/ ~(e.dirty /\ e.force) /\ Pass("sweep", d, e)

SweepAgain ==
    /\ FlashOrder /\ pos.sweep > Len(table) /\ table # <<>>
    /\ pos' = [pos EXCEPT !.sweep = 1]
    /\ UNCHANGED <<homes, table, entry, flash, job, past>>

FlushNow ==
    /\ pos.flush = 0
    /\ pos' = [pos EXCEPT !.flush = 1]
    /\ owed' = {d \in Known : entry[d].dirty}
    /\ UNCHANGED <<homes, table, entry, flash, job, unmarked, cut, unsure>>

FlushDue ==                                                    \* mutant
    /\ FlashOrder /\ pos.flush \in 1..Len(table)
    /\ LET d == At("flush")
       IN  IF entry[d].force THEN Copied("flush", d, entry[d]) ELSE Pass("flush", d, entry[d])

FlushEntry ==
    /\ FlashOrder /\ pos.flush \in 1..Len(table)
    /\ LET d == At("flush")
       IN  IF entry[d].dirty THEN Copied("flush", d, entry[d]) ELSE Pass("flush", d, entry[d])

FlushEnd ==
    /\ FlashOrder /\ pos.flush > Len(table)
    /\ pos' = [pos EXCEPT !.flush = 0] /\ owed' = {}
    /\ UNCHANGED <<homes, table, entry, flash, job, unmarked, cut, unsure>>

WriteAttrs(w) ==
    /\ job[w].do = "attrs"
    /\ attrKey' = [attrKey EXCEPT ![job[w].dev] = job[w].blob]
    /\ job' = [job EXCEPT ![w] = Idle]
    /\ pos' = [pos EXCEPT ![w] = @ + 1]
    /\ owed' = owed \ {job[w].dev}
    /\ UNCHANGED <<homes, table, entry, cfgKey, unmarked, cut, unsure>>

\* nvs_set_blob fails, and leaves the old blob or the new one.
WriteFails(w) ==
    /\ job[w].do = "attrs"
    /\ \E b \in {attrKey[job[w].dev], job[w].blob} : attrKey' = [attrKey EXCEPT ![job[w].dev] = b]
    /\ job' = [job EXCEPT ![w].do = "retry"]
    /\ UNCHANGED <<homes, table, entry, cfgKey, pos, past>>

\* A failed write: marked again, and whatever flash holds is not known.
Remarked(e) == [e EXCEPT !.dirty = TRUE, !.crc = NoKey]

MarkAgain(w) ==
    /\ job[w].do = "retry"
    /\ LET d == job[w].dev
       IN  /\ entry' = IF d \in Known THEN [entry EXCEPT ![d] = Remarked(@)] ELSE entry
           /\ owed' = owed \ {d}
    /\ job' = [job EXCEPT ![w] = Idle]
    /\ pos' = [pos EXCEPT ![w] = @ + 1]
    /\ UNCHANGED <<homes, table, flash, unmarked, cut, unsure>>

-----------------------------------------------------------------------------
\* The API.

\* persist_config_prepare_locked: settings that differ from those booked are written.
Prepared(t, d, c) ==
    IF entry[d].cfgCrc = c THEN job ELSE [job EXCEPT ![t] = [do |-> "config", dev |-> d, blob |-> c]]

\* set_config releases what is held back, and makes what is marked due.
Forced(e) == [e EXCEPT !.force = @ \/ e.dirty]

\* The calls that give entry e of d new settings.
Set(t, d, e) ==
    \E c \in Cfg :
       /\ entry' = [entry EXCEPT ![d] = [e EXCEPT !.cfg = c]]
       /\ job' = Prepared(t, d, c)
       /\ UNCHANGED <<homes, flash, pos, past>>

SetConfig(t, d) ==
    /\ FlashOrder /\ table' = Appended(d)
    /\ \E e \in Released(entry[d]) : Set(t, d, Forced(e))

SetDebounce(t, d) ==
    /\ FlashOrder /\ table' = Appended(d)
    /\ \E e \in Released(entry[d]) : Set(t, d, e)

SetThrottle(t, d) == FlashOrder /\ table' = Appended(d) /\ Set(t, d, entry[d])

\* set_occupancy_timeout makes no entry.
SetTimeout(t, d) == FlashOrder /\ d \in Known /\ UNCHANGED table /\ Set(t, d, entry[d])

SaveConfig(t) ==
    /\ job[t].do = "config"
    /\ cfgKey' = [cfgKey EXCEPT ![job[t].dev] = job[t].blob]
    /\ job' = [job EXCEPT ![t].do = "book"]
    /\ unsure' = unsure \ {job[t].dev}
    /\ UNCHANGED <<homes, table, entry, attrKey, pos, unmarked, cut, owed>>

SaveFails(t) ==
    /\ job[t].do = "config"
    /\ \E b \in {cfgKey[job[t].dev], job[t].blob} : cfgKey' = [cfgKey EXCEPT ![job[t].dev] = b]
    /\ job' = [job EXCEPT ![t] = Idle]
    /\ unsure' = unsure \cup {job[t].dev}
    /\ UNCHANGED <<homes, table, entry, attrKey, pos, unmarked, cut, owed>>

\* persist_config_commit: what was written is booked.
BookConfig(t) ==
    /\ job[t].do = "book"
    /\ entry' = IF job[t].dev \in Known THEN [entry EXCEPT ![job[t].dev].cfgCrc = job[t].blob] ELSE entry
    /\ job' = [job EXCEPT ![t] = Idle]
    /\ UNCHANGED <<homes, table, flash, pos, past>>

\* What clear_attrs leaves of an entry.
Cleared(e) == [e EXCEPT !.val = Empty, !.held = FALSE, !.dirty = FALSE, !.force = FALSE, !.crc = NoKey]

ClearAttrs(t, d) ==
    /\ FlashOrder /\ d \in Known
    /\ entry' = [entry EXCEPT ![d] = Cleared(@)]
    /\ job' = [job EXCEPT ![t] = [do |-> "clear", dev |-> d]]
    /\ unmarked' = unmarked \ {d} /\ owed' = owed \ {d}
    /\ UNCHANGED <<homes, table, flash, pos, cut, unsure>>

\* The last entry fills the hole; one that moves behind flush_now is not reached by it.
Shifted(d)   == [i \in 1..(Len(table) - 1) |-> IF table[i] = d THEN Last(table) ELSE table[i]]
MovedPast(d) == IF \E i \in 1..(Len(table) - 1) : table[i] = d /\ i < pos.flush THEN {Last(table)} ELSE {}

\* device_shadow_remove, the end of a hard delete: nothing for a device without an entry.
RemoveEntry(t, d) ==
    /\ FlashOrder /\ d \in leaving
    /\ leaving' = leaving \ {d}
    /\ IF d \in Known
       THEN /\ table' = Shifted(d)
            /\ entry' = [entry EXCEPT ![d] = Fresh]
            /\ job' = [job EXCEPT ![t] = [do |-> "forget", dev |-> d]]
            /\ unmarked' = unmarked \ {d} /\ owed' = owed \ ({d} \cup MovedPast(d))
            /\ unsure' = unsure \ {d}
       ELSE UNCHANGED <<table, entry, job, unmarked, owed, unsure>>
    /\ UNCHANGED <<pool, bridged, flash, pos, cut>>

\* The keys go after the lock, one by one: the attributes' for a clear, both for a removal.
AttrsOnly(do) == "idle"                                        \* mutant
NextKey(do) == IF do = "forget" THEN "forgetConfig" ELSE "idle"

Then(t, do) == job' = [job EXCEPT ![t] = IF do = "idle" THEN Idle ELSE [@ EXCEPT !.do = do]]

EraseAttrs(t) ==
    /\ job[t].do \in {"clear", "forget"}
    /\ attrKey' = [attrKey EXCEPT ![job[t].dev] = NoKey]
    /\ Then(t, NextKey(job[t].do))
    /\ UNCHANGED <<homes, table, entry, cfgKey, pos, past>>

EraseConfig(t) ==
    /\ job[t].do = "forgetConfig"
    /\ cfgKey' = [cfgKey EXCEPT ![job[t].dev] = NoKey]
    /\ cut' = IF attrKey[job[t].dev] = NoKey THEN cut \ {job[t].dev} ELSE cut
    /\ Then(t, "idle")
    /\ UNCHANGED <<homes, table, entry, attrKey, pos, unmarked, unsure, owed>>

\* nvs_erase_key fails: no call tries it again.
EraseFails(t) ==
    /\ job[t].do \in {"clear", "forget", "forgetConfig"}
    /\ cut' = cut \cup {job[t].dev}
    /\ Then(t, NextKey(job[t].do))
    /\ UNCHANGED <<homes, table, entry, flash, pos, unmarked, unsure, owed>>

-----------------------------------------------------------------------------
\* Loss of power and the next boot, which loads the devices of the pool.

LoadedVal(d) == IF attrKey[d] = NoKey THEN Empty ELSE attrKey[d]
LoadedCfg(d) == IF cfgKey[d] = NoKey THEN Default ELSE cfgKey[d]

Restored(d) ==
    [Fresh EXCEPT !.val = LoadedVal(d), !.crc = IF LoadedVal(d) = Empty THEN NoKey ELSE attrKey[d],
                  !.cfg = LoadedCfg(d), !.cfgCrc = cfgKey[d]]

\* The devices whose keys a task is about to erase.
Removing == {job[t].dev : t \in {u \in Task : job[u].do \in {"forget", "forgetConfig"}}}

Restart ==
    /\ table' = SetToSeq(pool)
    /\ entry' = [d \in Device |-> IF d \in pool THEN Restored(d) ELSE Fresh]
    /\ job' = [w \in Writer |-> Idle] /\ pos' = [sweep |-> 1, flush |-> 0]
    /\ bridged' = {} /\ leaving' = {}
    /\ unmarked' = {} /\ owed' = {} /\ unsure' = {}
    /\ cut' = (cut \cup Known \cup Removing) \ pool
    /\ UNCHANGED <<pool, flash>>

-----------------------------------------------------------------------------
Change(d) == Report(d) \/ Optimistic(d) \/ RemoveAttr(d) \/ TimesOut(d)
Come(d)   == Touch(d) \/ Pair(d) \/ LeavePool(d)
Sweep     == SweepEntry \/ SweepAgain \/ WriteAttrs("sweep") \/ MarkAgain("sweep")
Flush     == FlushEntry \/ FlushEnd \/ WriteAttrs("flush") \/ MarkAgain("flush")
Call(t, d) == \/ SetConfig(t, d) \/ SetDebounce(t, d) \/ SetThrottle(t, d) \/ SetTimeout(t, d)
              \/ ClearAttrs(t, d) \/ RemoveEntry(t, d)
Finish(t) == SaveConfig(t) \/ BookConfig(t) \/ EraseAttrs(t) \/ EraseConfig(t)
Fail      == (\E w \in {"sweep", "flush"} : WriteFails(w)) \/ \E t \in Task : SaveFails(t) \/ EraseFails(t)

Next ==
    \/ \E d \in Device : Change(d) \/ Come(d) \/ Bridged(d) \/ WindowCloses(d)
    \/ Sweep \/ FlushNow \/ Flush
    \/ \E t \in Task : Finish(t) \/ \E d \in Device : Call(t, d)
    \/ Fail \/ Restart

Spec == Init /\ [][Next]_vars

-----------------------------------------------------------------------------
\* No write of the device is under way.
Settled(d) == \A w \in Writer : job[w] # Idle => job[w].dev # d

\* Type invariant: every variable keeps its range, the table names each device once, and
\* one writer at a time holds FlashOrder.
TypeOK ==
    /\ pool \subseteq Device /\ table \in Seq(Device) /\ IsInjective(table)
    /\ bridged \subseteq Device /\ leaving \subseteq Device
    /\ entry \in [Device -> [val : Val, held : BOOLEAN, dirty : BOOLEAN, force : BOOLEAN, crc : Val \cup {NoKey},
                             cfg : Cfg, cfgCrc : Cfg \cup {NoKey}]]
    /\ attrKey \in [Device -> Val \cup {NoKey}] /\ cfgKey \in [Device -> Cfg \cup {NoKey}]
    /\ pos.sweep \in Nat /\ pos.flush \in Nat
    /\ unmarked \cup cut \cup unsure \cup owed \subseteq Device
    /\ \A w, x \in Writer : job[w] # Idle /\ job[x] # Idle => w = x

\* A removed device leaves nothing on flash: no sweep, flush or setter that copied its entry
\* before writes it back after the erase, and its settings go too (device_shadow_remove).
RemovedStaysGone ==
    \A d \in Device \ (Known \cup cut) : Settled(d) => attrKey[d] = NoKey /\ cfgKey[d] = NoKey

\* An entry that waits for no write is what the next boot would load, whatever writes failed,
\* were skipped as unchanged, or met a clear (device_shadow_flush_now, the sweep's CRC).
CleanMeansSaved ==
    \A d \in Known \ (cut \cup unmarked) :
        Settled(d) /\ ~entry[d].dirty => entry[d].val = LoadedVal(d)

\* Settings in force are those on flash, unless their last write failed (persist_config_prepare).
SettingsSaved ==
    \A d \in Known \ (cut \cup unsure) : Settled(d) => entry[d].cfg = LoadedCfg(d)

\* Flash follows the cache: what is removed, what is clean and what is set is there as the cache has it.
FlashFollows == TypeOK /\ RemovedStaysGone /\ CleanMeansSaved /\ SettingsSaved

\* When flush_now returns, every device that was marked when it began has been written, or its
\* write failed; it may miss only one that a removal moved behind it (device_shadow_flush_now).
FlushNowComplete == [][FlushEnd => owed = {}]_vars
=============================================================================
