# TLA+ models of zhac-components

`zhac-components` is the shared library of a Zigbee home gateway: the firmware
images of two chips (a P4 that runs Zigbee, rules and storage, and an S3 that runs
the network side), or of a single chip, are built from its ESP-IDF components. This
directory holds TLA+ models of its concurrent and persistent parts and of its
algorithms, TLC configurations that check them on small instances, and proofs,
checked by TLAPS, that the most important results hold for every value of the
constants.

    HapSession   HapLink        the session between the two chips
    HapWire, HapJson            its frames on a byte stream, its messages
    RuleStore    RuleMap        rules behind a write-back table
    RuleEngine                  rules: cache, edits, triggers, runs
    RuleText, RuleExpr          rule texts, value expressions
    CronNext                    schedules
    EventBus     EventChannel   the event bus
    ZapStore     DeviceMap      devices behind a write-back table
    StoreMove                   the move of the devices to a partition of their own
    DevicePool                  the table of devices, and lists read from it
    ShadowFlash, ShadowPipeline the shadow cache: its flash side, its timers
    DefCache, TimerPool,        the adapter: definitions of devices, timers,
    WakeQueue, MeterPoll        writes for sleeping devices, meter reads
    Lifecycle                   join, interview, identity, configure, removal
    Coordinator                 starting the radio
    ZclExchange                 frames to and from devices
    ZnpDriver, MtStream         requests to the coprocessor, its byte stream
    MqttGateway, HaBridge,      the MQTT client, Home Assistant and the
    HaDiscovery                 entities it is shown
    TgGateway                   Telegram messages
    Metrics                     lock-free counters and samples

The left column follows the code, step by step; where a second column names a module
(`HapLink`, `RuleMap`, `EventChannel`, `DeviceMap`) that one says what the component
promises. `MC*.tla` and `*.cfg` are TLC's instances, `*Proofs.tla` the theorems,
`PROJECT.json` the index: components, runs, what code each definition stands for,
hazards, findings, theorems.

To check: `tlc -config RuleStore_rules.cfg RuleStore`, `tlapm RuleStoreProofs.tla`.

## 1. Inventory

"State" is what the component keeps between calls; "right" is what makes it correct.
The module that models a component is in brackets; "not modelled" says why.

| component | state | operations, and who calls them | right when |
|---|---|---|---|
| `hap_session` (**HapSession**) | window of unacknowledged frames, sequence counter, ring of recently seen frames | `send` from any task, `on_receive` from the transport, `tick` every 10 ms, `reset_link` | a frame is dispatched at most once, one that was acknowledged was dispatched, the window empties |
| `hap_protocol` (**HapWire**) | none (parser buffer in the caller) | build and parse of frames, CRC | frames are found in a damaged stream, and nothing else is |
| `hap_json` (**HapJson**, list: **DevicePool**) | none | one encoder and decoder for each message | decode inverts encode, what is cut is cut as promised |
| `event_bus` (**EventBus**) | subscription slots with generation and use count, a queue for each | subscribe, unsubscribe, publish, drain, pump, from any task and from handlers | nobody uses a deleted queue, handles do not alias, events are handed out in order, and not after unsubscribe |
| `rule_store` (**RuleStore**) | rows in NVS, write-back table of 64 | mark_dirty/mark_delete, load, load_all, max_id, flush_now; flush task | readers see the newest edit, flash follows in order, no edit is lost |
| `simple_rules` (**RuleEngine**) | cache of 64 rules with trigger memory, timers, cron task | add, update, enable, delete from commands; events from the bus; delayed actions | the cache agrees with the store, a heartbeat fires nothing, a deleted rule does not come back, loops of rules stop |
| `dsl_parser`, `expr_eval` (**RuleText**, **RuleExpr**) | none | rule text to rule, expression to value | result as the text says, overflow and bad input refused |
| `cron_parser` (**CronNext**) | none | parse, match, next match | the next time that matches, or none |
| `zap_store` (**ZapStore**, **StoreMove**) | rows, count in NVS; index in RAM; write-back table | save, delete, load, mark_dirty, flush_device, flush_now; flush task; move to another partition at boot | one row for each device, deletes are final, no change is lost, every power cut is survivable |
| `zigbee_pool` (**DevicePool**) | table of 200 devices, two lazily built hashes | find, add, remove (swap with last), restore; under one recursive lock | indices agree with the table, a list by pages is complete |
| `device_shadow` (**ShadowFlash**, **ShadowPipeline**) | cached attributes of each device, debounce and occupancy timers, dirty marks | updates from decoders, sweeps to flash, settings, clear, remove | the newest value is published, flash follows, nothing that waits for a timer is forgotten |
| `znp_driver` (**ZnpDriver**, **MtStream**) | request queue and reply pool of the worker, state of the coordinator chip, confirm slots, parser, duplicate ring | request, incoming bytes, reset and recovery | a reply goes to its own request; damage is over soon; nobody waits for ever |
| `zigbee_mgr` (**Coordinator**, **ZclExchange**) | start-up handshakes, network key, queue of raw frames | init, reinit, frames to the adapter | a network outlives failures, frames are answered once |
| interview, identity (`zigbee_mgr`) (**Lifecycle**) | join queue, identity queue, one response slot | join, announce, responses, wake-ups, time-outs | no device is left between the tasks, no stale address wins |
| configure queue (`zigbee_mgr`) (**Lifecycle**) | queue of 200, pool of 16 retry timers | enqueue, retry, give up after 5 | every device is configured or given up; no retry is lost |
| `zcl_commands` (**ZclExchange**, **ZnpDriver**) | one sequence counter, one group-answer slot | build and send ZCL commands | an answer goes to its request |
| `zhc_adapter` (**DefCache**, **TimerPool**, **WakeQueue**, **MeterPoll**) | cache of definitions, pool of synthesized ones, timers, held writes, meter table | decode, command, configure; registration; ticks | a device is decoded with its own definition, no resend sets a value back, nobody starves |
| `device_cmd` (in **ZapStore**, **DevicePool**, **ShadowFlash**, **Lifecycle**) | none | rename, remove, set, from every transport | pool, store and shadow are changed in an order that cannot undo |
| `mqtt_gw` (**MqttGateway**) | client handle, settings, publish queue of 16, two timers | configure, start, stop, publish, subscribe | settings are followed, a client comes back while it is wanted |
| `tg_gw` (**TgGateway**) | token and chat in flash, shared send buffer, queue and worker | send a message, set the token | what is posted was asked for, by one call |
| `ha_bridge` (**HaBridge**, **HaDiscovery**) | topics published for each device, queue | discovery, retraction, availability | what is gone is retracted, what is there is shown, each expose once |
| `metrics` (**Metrics**) | a shard per core for each metric | record, set, read | nothing recorded is lost, a reading covers what was over before it |
| `device_backend` | table of function pointers filled at boot | lookup | not modelled: nothing happens in it |
| `ntp_cfg`, `zap_tls`, `zap_common` | one setting, certificates, shared types | read at boot | not modelled: calls into libraries, types |
| `arduinojson` | - | vendored library | not modelled |

How they interact. Frames come from the other chip through `hap_session` into
`device_cmd` and `simple_rules`; from the radio through `znp_driver` into
`zigbee_mgr`, `zhc_adapter` and `device_shadow`. What changed is published on
`event_bus`, which the rules, `ha_bridge` and the MQTT side drain. Devices live in
`zigbee_pool` and are made durable by `zap_store`; rules live in `simple_rules` and
are made durable by `rule_store`. The two stores share a design: the caller changes
RAM, marks an entry of a table, and a flush task writes entries that are old enough.

What is hard in this code:

* state copied under a lock and used after it is released: snapshots of the flushers,
  the frame to send in `hap_session`, the queue to block on in `event_bus`, the
  definition a task resolved, the device a worker configures;
* two stores read one after the other while something moves between them;
* power cuts between two writes of one operation, writes that fail half way;
* retransmissions, duplicates, late answers and restarts of either end of a link;
* tables, queues, timer pools and rings at their limit, counters that come round;
* timers that expire while they are cancelled, and call-backs that hold an address;
* re-entry: the receive path sends, handlers publish and unsubscribe;
* settings that change while what they govern is under way.

`PROJECT.json` lists each at its line under "hazards", with the property that would
show it going wrong, or why none does.

## 2. The session between the chips: HapSession and HapLink

**State.** `win` is the window of `WIN_SIZE` slots, `payload` the slots' `payload_copy`
and the tick's scratch buffer, `next_seq` the counter, `drawn` and `held` what a
sending task has taken under `s_mutex` and not yet used, `tick` the walk of
`hap_session_tick` with the frame it copied out. On the other chip `seen_ring` and
`seen_head` are the ring of (seq, type) marks and `owed` the stack of ACKs still to be sent while `on_frame`
handlers run: a handler that pumps the transport is entered again (`MaxNest`). `to_rx`
and `to_tx` are the two FIFO directions of the transport. The rest is history.

**Actions.** `NextSeq`, `Send`, `SendRefused`, `Transmit` are `hap_session_send` in the
pieces its locks make of it; `OtherTraffic` is the NO_ACK bulk that shares the
counter; `TickBegin`, `TickSkip`, `TickRetry`, `TickGiveUp`, `TickSend`, `TickEnd` are
the tick; `ReceiveAck`, `ReceiveData`, `SendAck`, `ReceiveSync` are
`hap_session_on_receive`; `Resync` is `hap_session_reset_link` with its SYNC;
`SenderRestart` and `ReceiverRestart` are `hap_session_init` on either chip.

**Abstraction.** One direction is modelled: a chip's window and its filter share
nothing but the mutex and the counter, and `OtherTraffic` stands for what the other
uses of the counter do. A hold of `s_mutex` is one step, everything between two holds
interleaves. A payload is the number of the frame it belongs to, so a frame is torn
exactly when its body is not its own. The transport is a FIFO that may lose a frame
when it is sent (`MaxChan` also loses it); the code's CRC makes a damaged frame a lost
one. Ages are left out: a retry may be due whenever the slot is busy. The SYNC of
`Resync` waits for the tick to hold no frame; a first transmission that overtakes it
is a hazard that is listed and not modelled.

**Promise.** `HapLink` is an at-most-once link: an accepted frame is delivered at most
once, one that is confirmed to its sender was delivered, and any frame may be
dropped. `LinkSpec` checks that the session implements it.

## 3. Rules behind a write-back table: RuleStore and RuleMap

**State.** `nvs` are the rows, `dirty` the table of `rule_store_flush.cpp` (FREE, DIRTY,
FLUSHING; rule, tombstone, `dirty_again`), `job` the snapshot each flusher writes
without the table's lock, `call` what each client task is in the middle of. Edits are
numbered in the order in which they are accepted and the number stands for the
content; `deletes` are the numbers of deletions, and an absent row carries the
number of the edit that removed it, so order can be stated for deletions too.

**Actions.** `Mark` is `mark_dirty` and `mark_delete`, `MarkDirect` and `DirectWrite`
their path around a full table; `Claim`, `Write`, `Settle` are the three parts of
`flush_slot`; `TickClaim` is the flush task that finds an entry old enough;
`FlushNow`, `PassStep`, `WaitEnds`, `CheckPending` are `rule_store_flush_now`;
`LoadOverlay`/`LoadNvs`, `ListRows`/`ListMerge`, `MaxIdRows`/`MaxIdTable` are the readers in the
order in which they take `s_mutex` and `s_mtx`; `Restart` loses the RAM.

**Abstraction.** Each hold of a lock is one step; only `load_all` holds `s_mutex` over
two. A write to NVS succeeds, fails without effect, or has its effect and reports a
failure. Ages are left out: a dirty entry may always be old enough. `DirtyCap = 0` is
the store before its task exists. Left out: the schema check at start, erasing rows
of the wrong size or CRC, `rule_store_count`, cutting names to length.

**Promise.** `RuleMap`: readers see the newest edit of every rule; flash follows, never
past it and never backwards; a restart falls back to flash.

## 4. The event bus: EventBus and EventChannel

**State.** `slot` is the array of `SubEntry` (queue, generation, in-flight count, alive),
`hwm` and `dying_count` the two shortcuts of the code, `queue` the FreeRTOS queues,
`pub` and `drain` what a publisher or drainer took under the lock. Subscriptions are
numbered; the number stands for the queue and the handler. Events are numbered
when they are published, 0 is the poison that `unsubscribe` sends to wake a drainer.

**Actions.** `Subscribe`, `SubscribeFails`, `Unsubscribe`; a publish is `Publish` (take
references under the lock), then for each target `Filtered`, `Send`, `Evict`, `Resend`,
then `Finish` (give back, reap); a drain is `DrainBegin`, `Receive`/`Empty`/`TimeOut`,
`Check`, `Handle`, `Leave`. `Pump` names the drainer of `event_bus_pump_run`, which never waits
on a queue; another drainer's first receive may wait for ever.

**Abstraction.** One event type: the types share only `s_dying_count`. A hold of
`s_bus_mtx`, a queue operation, a handler's call are one step each. What a handler
does to the bus (publish, unsubscribe) is done by the other tasks at any moment, also
while it runs. Left out: calls before `event_bus_init`, invalid types, the pump's
notification. The generation may wrap (`GenMod`), `HandlesName` is about the time
before (see section 17).

**Promise.** `EventChannel`: a subscription opens once and closes once; events are put
at the end, taken from the front, the oldest may be dropped; nothing is taken from a
closed subscription, and only what was in a task's hand may still be delivered.

## 5. Devices behind a write-back table: ZapStore, DeviceMap, StoreMove

**State.** In NVS `row` (one blob for each slot) and `cnt`; in RAM the index from device
to slot, the `pool` (the device's record, 0 for none), the write-back table and whether there is
a task that flushes it (`deferring`). `op` is the operation that holds `s_store_mutex`: each NVS
write under it is a step, because the power may fail between two. `up` is how far the boot has
come. `call` is what each task is in the middle of, and where it goes on (`back`).

**Actions.** `Edit` and `Remove` are the callers in `device_cmd` (change the pool, then
the store); `Mark`, `Claim`, `Settle` are the table; `SaveBegin`, `SaveCount`, `SaveRow` (or
`SaveGone`, `SaveShut`) are `zap_store_save_live` and `save_locked`; `DeleteBegin`, `DeleteMove`,
`DeleteShrink`, `DeleteDrop` the three writes of `zap_store_delete_device`;
`FlushDevice`, `Look`, `Take`, `FlushReturn` are `zap_store_flush_device`; `FlushNow`, `LastSeen`,
`NextSlot`, `Settles` are `zap_store_flush_now`; `Cut` is a loss of power; `Repair`, `RepairErase`,
`Load` are the boot.

**Abstraction.** Edits are numbered and the number is the record. A failed write leaves
flash as it was; a cut falls between writes. Ages are left out. Not modelled: the schema's
migration, the values of the `last_seen` side-car (its scan of the rows is), the flags and the
uplink.

**History.** `gone` are devices deleted, or never saved before a cut, and not paired
again; `givenUp` those whose direct save or delete failed, which nothing retries;
`left` a device's last record before its last removal since the boot; `leftover` says that a cut or a failed write left a row twice or above the
count, or one in the index that is not on flash.

**Saved.** `SavedWhenSaid` has what the table and its two barriers say. `flush_now` promises durability but for
writes that failed twice (`zap_store_flush.cpp:282-284`). A save the store has no room for is one of them, though no
NVS write failed: a cut between the count and the row of a new device leaves a counted slot
without a row, and in a store of exactly the room the devices need the last of them is refused from then on. So
`FlushNowDurable` also excludes a store with such a slot (`Holes`). The proof of `SavedWhenSaidKept` found that case; the
run, whose store has a spare slot, cannot reach it.

**Promise.** `DeviceMap`: flash follows the pool, forgets a device only while it is
deleted and before the delete returns, and gives back what it has at the next boot.
A write that failed, and what `leftover` says, void it: for both the
code breaks it (section 16).

**StoreMove** is what comes before in `zap_store_init`: which partition the store lives on. A boot
reads the marks and the checksum of `nvs`, decides (`Format`, `Unusable`, `AfterMove`, `Choose`) and
writes step by step: the copy (`CopySteps`), its record on `nvs` (`RecordCopy`), the marks that
make the move final (`MarkLive`, `MarkMoved`), the old copy's end (`EraseOld`). Then the store is
open or shut, saves go to its partition (`SavePool`, `SaveShadow`), and the trial image may be
confirmed (`Confirm`). Boots of this build, of the one before and of one without the partition
follow one another in any order the update path allows; a partition may not open, a read or a write may
fail, a tool may erase a partition. A namespace is the number of the save that made it what it
is, and a checksum is that pair of numbers. `newest` is what the last save left; `refused` that a mark was refused or
`zhac_data` formatted, for which the code's comments accept a loss.

## 6. Requests to the coprocessor: ZnpDriver

**State.** `pool` and `free` are the reply slots and the counting semaphore over them,
`request_q` and `wake_q` the worker's two queues, `active` the command RX compares
with, `state` and `bursts` the transport's state and its ring of reset times, `confirm`
the ring of waiters for AF_DATA_CONFIRM. `call`, `worker` and `rx` say what each task is
in the middle of. `to_ncp` and `to_host` are the UART; `accepted` and `delivered` are
inside the coprocessor.

**Actions.** A caller goes through `Begin`, `Reserve` (`af_data_request` reserves its
confirm slot first), `Take` and `Pick` (`acquire_slot`), `Post`, `Woken` and `GiveBack`
(`znp_call` to its end, and `znp_call_retry`), then `Confirmation` and `Confirmed`
(`znp_confirm_wait`) or `Release`. The worker's `handle_request` is `WorkerBegin`, `Arm`,
`Transmit` or `TransmitFails`, `Receive` or `TimeOut`, `Reply`. The RX task's `on_frame` is
`RxSrsp`, `RxReset`, `RxConfirm`, and `RxDeliver` for the push to the wake queue, which
follows the comparison with `active` as a step of its own. `NcpAnswer`, `NcpConfirm` and
`NcpReset` are the coprocessor, known only by what the driver expects of it.

**Abstraction.** Critical sections, queue and semaphore operations are steps. A request
has a number, which stands for its payload and `trans_id`; the answer to it carries the
number as history, the code sees the command only. Time is left out: a bounded wait
may end as soon as it finds nothing, and a reset that fills the burst ring may or may
not fall into the window of ten seconds. The UART loses frames (overrun or damaged) but
keeps their order. A request queue that is full is left out of `Post`, because
`RoomForEveryCall` (a part of `SendsAreHonest`) shows that it never is: there are no more slots than places in it.
The parser's bytes and the duplicate ring are in `MtStream` (section 11). Not modelled:
the subscriber table, the start of the transport, confirmations nobody waits for,
`trans_id` coming round (256 sends within one confirm time-out).

**What holds.** No abstract module: a promise that each call is answered by its own
answer is false (section 16). What is checked instead, in `SendsAreHonest` and
`NobodyStuck`: a caller that waits is owed
exactly one reply, which is queued, with the worker or in its slot; nobody else has the
slot; the two counters of the pool agree; a gated send that reports success was
delivered although answers can be late; a confirmation that came too late for its
waiter does not disturb the next one; no caller is ever stuck.

## 7. RuleEngine: rules

**Code.** `simple_rules.cpp` over `rule_store`, fed by `event_bus`, with the part of
`device_shadow` and `device_cmd` that a toggle needs.

**State.** `rules` is the cache `s_rules`: text, enabled flag, whether the device's name is
resolved (`ieee != 0`), trigger memory (`RuleEdge`), runs in this minute. `store` is what
`rule_store` shows its readers; `RuleMap` is why that is one map. `holder` is the client that
holds `s_mutex` from a read of the store to its write; every other hold of it is a step.
`firing` is where each task stands in `fire_rule`: the pump of the event bus, the cron
task, and clients that run a rule by hand. `attr_q`, `event_q` and `news` are the engine's
queues on the bus, `shadow` is the device's value in `device_shadow`, `paired` the pool.

**Actions.** `Add`, `Update`, `UpdateStored` (a rule the cache has no room for), `Enable` and
`WriteBack`, `Delete` with `Probe` and `Bury`, `Reload`, `RunNow` are the commands;
`DispatchReport`, `DispatchEvent` and `CronFires` match; `Check` is the first half of
`fire_rule` with the run cap, `ActLog`, `ActEvent`, `ActToggle` and `Mirror` are
`execute_rule`. `PoolChange` is `on_pool_change`. `Report` is a device report on its way through
the shadow to the bus; the device obeys a toggle and reports it (`Answers`).

**Abstraction.** One device with one attribute that is 0 or 1, known by name. A rule is its
trigger (a comparison `is` 1, any `change`, a rule event, a time) and one action (toggle that
attribute, publish the event, or nothing that matters here). The trigger memory of a
comparison is the value it was last evaluated with. The order in which the store lists
its rows is any. Not modelled: timers, MQTT and boot triggers, momentary keys, the other
actions, time-outs of `s_mutex` (an event is dropped after 2 s, a run after 500 ms), run
statistics, more than one device.

**What holds.** `CacheTellsTheTruth` has two halves. `HeartbeatsDoNotFire` is the promise of
the comment at lines 357-364. What a reason to fire is, is defined apart from the code's memory (`tail`, `reason` and the
reasons events carry): the value did not hold, or differed from its predecessor, since the
rule last fired or was seeded. A seed is ahead of the reports that still wait, so these
count too. `CacheAgrees` needs no tombstone in its right place: with two clients a cached
rule can be without a row (`delete` marks after it unlocked and a `reload` came between), but
never with another row.

## 8. The shadow cache: ShadowFlash and ShadowPipeline

`device_shadow` has three locks. Its two halves share the entry and are modelled apart:
what the pipeline caches is one value of `Val` for the flash side, and what is on flash
does not matter to the pipeline.

**ShadowFlash.** `table` is `s_shadow` (order matters: the sweep and `flush_now` walk it by
index, a removal moves the last entry), `entry` what each device has there with its
dirty and force marks, what the debounce holds back and the CRCs last booked, `attrKey` and
`cfgKey` the two keys in NVS, `job` who holds `s_flash_mutex` and what he copied, `pos` where
the two walks are. The bridge looks the pool up (`Bridged`) before it reports (`Report`), and
a hard delete takes the device from the pool (`LeavePool`) before its entry goes
(`RemoveEntry`). `Report`, `Optimistic`, `RemoveAttr`, `WindowCloses`, `TimesOut` change RAM, with or
without a mark; `SweepEntry`, `SweepAgain` are task_shadow's sweep, `FlushNow`, `FlushEntry`,
`FlushEnd` `flush_now`, `WriteAttrs`, `WriteFails`, `MarkAgain` the write of either; `SetConfig`,
`SetDebounce`, `SetThrottle`, `SetTimeout`, then `SaveConfig` or `SaveFails` and `BookConfig` the
settings (nothing in this repository calls them: they may name any device); `ClearAttrs` and
`RemoveEntry` clear and remove, with `EraseAttrs`, `EraseConfig`, `EraseFails` for the keys; `Restart`
loses the RAM between any two steps and loads the devices of the pool. The blob stands for
its CRC. Ages are left out: the sweep may find an entry's interval over or not. A heap
that is too small for `flush_now` is left out (it does nothing then).

**ShadowPipeline.** `cache` and `pending` are the attributes and what the debounce holds
back, `has`, `ticking`, `posted`, `callback` FreeRTOS's timers as they are: a call posts a
command, the timer service carries it out later, a call-back has the address of a slot.
The queue of these commands is short, no caller waits for room or looks whether there was
any: a command that finds it full is lost (`Fit`, `Lost`; that a deletion may be lost, which
would leave a timer nobody has a handle of, is left out).
`queue` is `s_task_queue`, `flag` the fall-back when it is full. `Report` and `Optimistic` are
the way in, `Bypasses` and `FlushPending` decide between cache and debounce; any timer a
report wants may fail to be created (`Made`). `OnOccupancy` and `OnTimer` are
`NoOccupancySince`, with what it publishes. `OccupancyTimeout` and `CountRanOut` are what a timer
does, `ServeMessage` and `ServeFlag` task_shadow, `SetConfig`, `SetThrottle`, `SetDebounce`,
`SetTimeout`, `SetDefault`, `SetSince`, `ClearAttrs`, `Forget` the API, with any value. The code
does not keep a removal from moving an entry while a call-back has its address (section
16): `astray` names the timers this happened to, and those whose start was lost, until a
report starts them again.

**What holds.** `FlashFollows`: a removed device leaves nothing on flash, a clean entry is
what the next boot would load, settings in force are saved; `FlushNowComplete`: what was
marked when `flush_now` began is written. `NothingForgotten`: whatever waits for a timer
has one coming, also when the message queue was full or a timer could not be made; `NewestWins`:
a value never gives way to an older one however the settings move.

## 9. The adapter: DefCache, TimerPool, WakeQueue, MeterPoll

**DefCache.** `slot` is the cache of a device's definition and supplement, `pool` the
slots in which definitions are synthesized, two halves each (a build goes into the half
that was not handed out), `recent` the order of eviction. Two tasks resolve (`task`): the
radio's `try_decode` is `Decode`, `Primary`, `Synth`, `Store`, `Validate`, `Drop`; a command's
`Call` with the supplement's `Supplement`, `SuppSynth`, `SuppCheck`, `SuppStore`. `writer` is the
task that registers an endpoint or forgets a device: `RegisterEndpoint`, `Handover`, `Walk`,
`FallbackClear`, `ClearCached`. No lock is taken inside another, so each hold is a step and
the walk over the cache one step an entry. `LearnName` is the model's name coming in.
`CachedIsTheDevices`: what decodes a frame is the device's own, and current, unless the
device changed while the radio resolved it. Left out: what a definition contains.

**TimerPool.** `slots` with generation and handle, `esp` the timers of `esp_timer`,
`asking` the task in the four steps of a schedule (`Reserve`, `Create`, `Publish`, `Start`).
`Expire` takes a timer off the list, `FireThunk` is the call-back, `Cancel` comes with a
ticket of any age. Each of these, and a schedule that fails, only releases the slot under the
spin lock; `Stop` and `Delete` are the calls of `esp_timer` after it, for the handles in
`stopping` and `deleting`, and the timer may expire, and the slot be reserved again, before
they come. `TicketsStayTrue`, unless a timer expired before the cancel that released its slot
stopped it (`late`): then the call-back runs what it finds in the slot.

**WakeQueue.** `held` is the queue of writes for sleeping devices, `sender` a write that is
sent and not yet held, `worker` the copy that `wake_task` resends. `Send`, `Hold`, `Report`
(what a report confirms, supersedes or makes due), `TakeDue`, `Resend`, `Rest` (a gap
passes); `HoldGivesUp` and `ReportGivesUp` are the 100 ms and 50 ms after which `wake_hold`
and `wake_seen` go on without the lock, so that an older frame stays; `Turned` is somebody
at the device. Values are numbered in order, so a value that gets smaller was set back:
`NeverSetBack`, for keys that are not written or heard while their frame is in a task's hand
(`crossed`) and whose held frame no such give-up left behind (`missed`).

**MeterPoll.** `meters` is the table with its due times; a `Tick` is `Scan`, then up to
`MaxPerTick` of `TakeDue` and `Read`, then `TakePing` and `Ping`; devices are `Heard`, paired
and unpaired between the steps. Times are ticks to wait, jitter is any number of them.
`NobodyStarves`: each meter is read, and each quiet device pinged, within its time and
the turns of the others, while there are fewer meters than an interval has ticks (a tick whose
first read fails tries no more than that one) and no more devices than ticks in the shortest
wait for a ping. Above that the header promises longer intervals, which is `IntervalStretches`,
and the run `meter_starved` shows that the last meter in the table is never read.

## 10. The life of a device: Lifecycle and DevicePool

**Lifecycle.** `known` and `dev` are the pool's records (address, interview, name, support,
configure stamp), `addr` the address a device really has. Four tasks work on them: the RX
task (`Announced`, `QueueJoin`, when the queue is full `DropOldest` and `QueueAgain`, which may find it
full again, `Heard`, `Told`), the interview (`Receive`, `ReadNwk`, `Begin`,
`Ask`, `Commit`, `InterviewEnqueue`, `AttemptFailed` with the requeue behind another device,
`Wake`), the identity task (`Apply`, `Look`, `WriteVerdict`, `IdentityEnqueue`), the configure
worker (`Take`, `Downgrade`, `Mark`, `Finish`, `Retry`, with `RetryFires` for the timers). A
user's `Requested`, `HardRemove` and `FlushJoins` come at any moment. Each hold of the
pool's lock is a step, so a copy can be old when it is written back. `NothingDropped`: an
announced device is being served, or was dropped by a full queue, which is the excuse in
`lost`; a matched one that is not configured has a request, a timer or a task.
`AddressFresh`: no stale event moves a device to an address it left, unless a task held that
address when the device took another (`overtaken`). The questions of an
attempt are one step with any outcome (`Ask`).

**DevicePool.** `rows` is the table, `index` the two open-addressing hashes (or dirty), `list`
a reader between two pages. `pool_find`, `pool_add`, `pool_remove` (swap with last),
`hash_rebuild`, `zigbee_pool_restore_persisted` as in the code; `RejoinFast` writes an address
under the lock and `MarkDirty` sets the flag after it. `hap_json_encode_device_list` is one
page with its cursor. `RowsFound`: both indices find each device; a list leaves out none
that stayed, but for rows a removal moved over the cursor.

## 11. The radio: Coordinator, ZclExchange, MtStream

**Coordinator.** `hub` is where `coordinator_start` is, `ncp` the radio's own memory
(network, startup option, registrations), `told` its indications on their way, `flags` the
four flags the tasks share. `MgrInit` and `MgrReinit` begin; `Start` is `HwReset` to
`CbRegister`, `Commission` is `DeleteNib` to `Marker`, a request each; `Wire` is what a first
success wires. Each request is answered, refused, lost, or done with its answer lost.
`SwitchOff` is a loss of power at any step, `NcpResets` a reset of the radio.
`NetworkSurvives`: the key a network runs with is the one on flash; a network that was up
is given up only by a start that could not learn of it; up means registered.

**ZclExchange.** A frame's control bits, the bytes after it in order (so that a
manufacturer's code moves the TSN) and a kind. `Send` has every command of
`zcl_commands.cpp` as `Command` (tries, gated or not, which answer); devices speak (`Speaks`) and
answer late or never; `LookNwk`, `LookTsn`, `Claim` (the two loads and the exchange of the group
waiter, which takes no lock), `Give`, `Enqueue` are `on_af_incoming_msg`, `Work` is
`zcl_attr_task` with its replies; `Flush`, `ArmTsn`, `ArmNwk`, `Ask`, `Answered`, `TimesOut` the
group membership. `AnswersMatch`: a default response is sent if and only if it is due,
once; a membership is the asked device's answer to this question, but for calls that overlap or
begin while the radio's task stands between its look at the waiter and its give (`crossed`).

**MtStream.** The parser of `znp_parser.cpp` byte by byte (`Feed`), the flush after an overrun
(`Overrun`), the ring of repeated indications (`zdo_areq_is_in_scope`, `Repeated`,
`on_frame`) with a clock of a few steps. A check byte is the data it was made of. It is a
part of `AnswersMatch`: what starts a longest frame after damage is heard, if no payload
holds a start byte; an indication repeated in the window is dropped, and nothing else.

## 12. The ways out: MqttGateway, HaBridge, HaDiscovery, TgGateway, Metrics

**MqttGateway.** `client` is the handle with the step of its event handler, which takes no
lock; `gw` the settings in RAM, `stored` those in NVS, `timer` the deferred start and the
re-arm. `Start`, `Credentials`, `Apply`, `SetUrl`, `SetRoot`, `SetEnabled`, `Subscribe` come from
the web, `StaUp` and `StaDown` from the network, `Disable`, `ArmRearm` and `Publish` from the
worker; `Connects`, `OnConnected`, `TellsOnline`, `Subscribes`, `Breaks`, `OnDisconnected` are
the client's task and the broker, who publishes the will when a connection breaks.
`SettingsFollowed`: while MQTT is wanted there is a client or what will make one; nobody is
told online over a broken connection; one filter is subscribed.

**HaBridge.** `conf` are prefix and enabled, `caller` a call of `ha_bridge_configure` between
its posts, `queue` and `task` the bridge's task with the op in hand, `pub` the topics it has
recorded, `broker` what is retained there. `Configure`, `PostRetract`, `Move`,
`PostRepublish`; `DeviceChanged`, `DeviceRemoved`, `PublishState`, `OnMqttRx`, `FallsSilent`;
`Receive`, `Poll`, `Begin`, `Entity1` (one publish, which may be given up, and recorded if the record
of 2048 bytes has room: `Room` and `Length`), `Record` in the place of the old record, `RetractTopic`
(one topic, which may be given up too), `Retract`. **HaDiscovery** is
`build_device`: exposes are read, composed entities (`Climate`, `Light`, `Cover`, `Lock`,
`Fan`) claim theirs in turn, `Rest` shows what is left; a config that is longer than its payload is
left out by `Emit` and by `Rest` as by `finish`, and exposes after the `kMax`th are not read. `ShownAndGone`: at rest nothing is
retained for what is gone, everything there is shown, each expose by one entity that can
also set it, under a topic of its own. Excused of the first are topics that could not be retracted
or recorded (`left`), and those of entities that a device had when it was last published and has no
more (`dropped`: section 16); of the second what a full queue or a config given up lost (`lost`), a break shorter than
a poll (`flap`) and configs that are too long (`unfit`).

**TgGateway.** The P4's static message (`m`, with its `holder`), the link, the S3's settings
in NVS, its queue and worker. `hap_pack_tg_send`, `json_escape` and the cuts are translated
for texts of code points; `Take`, `Contended`, `Fill`, `SendOn` are the sender, `Handle`,
`Prepare`, `Post` the S3. `PostsAreAsked`: a post is one call's text, cut between two code
points, with its chat and mode, and with a token and default chat of one moment.

**Metrics.** `value` and `counter` are the shards; `op` is a record between its atomic
operations (`Add`, `Load`, `Exchange`, `ExchangeFails`, on the shard of the core it began
on), `setting` a set, `reader` the walk. `CountsAddUp`: no sample is lost, and a reading
has what was over before it began. Widths are left out.

## 13. Texts and messages: RuleText, RuleExpr, CronNext, HapJson, HapWire

These have no concurrency: a behaviour picks an input, the code's function is computed by
definitions with the code's names, and an invariant compares it with a reference that is
written from the grammar or the header. **RuleText**: words are a name and a length, so
that each cut and each refusal shows; `Says` is what the text says. **RuleExpr**: the
shunting yard as a step a token (`Step`), `expr_eval` as a fold; `Meaning` splits a text at
its last operator. **CronNext**: the search as steps that jump (`SkipMonth` to `SkipSecond`)
over a small calendar; `Due` reads the fields plainly, and a schedule with a stepped star for its
days, which the code and its documents read differently, is excluded (`SteppedDay`). **HapJson**: each encoder makes a
function from keys to typed values, each decoder reads it with its defaults, casts and
cuts; `Carried` says that what arrives is what the header promises of what was sent.
**HapWire**: `hap_decode_stream` over a stream of symbols with damaged and lost ones and reads
of any length; `FramesFound`, but for a frame whose preamble straddles a read with no other in sight
(`Straddling`: section 16). No task of this repository calls the stream decoder any more
(`hap_protocol.h:160-164`); it is the library's interface and its tests'. Together they are parts of `TextsMeanWhatTheySay` and
`ArrivesAsSent`.

## 14. What the runs check

Most components share no state with each other at the level of their locks (calls between
them are the inputs of the models). Where this is so, one run checks several of them: its
module instantiates each, and a variable `part`, chosen in the initial state, says which
one a behaviour explores; the others stay as they start. The instance is the sum of the
parts' state spaces, not their product, and each property speaks of one part or of some
parts each for itself. Such runs are `device_data`, `shadow`, `outside`, `chip_links`.

| run | instance | question, and answer |
|---|---|---|
| `hap_link` | window 2, ring 3, 1 retry, counter 4, 2 frames, 3 draws, 2 frames on the wire, 1 nested receive | does the session implement `HapLink`, is a frame sent over another's payload, does the window empty? Yes, no, yes |
| `rules` | 2 rules, table of 1 (so it overflows), 2 edits, one failed write, a restart, a task that reads, lists and shuts down | does the store implement `RuleMap`, are loads and lists fresh and complete, is `flush_now` a barrier, does every edit reach flash? Yes (`ReturnsHonest` is the three about returns) |
| `bus_slots` | 2 slots, queues of 1, generations mod 8, a publisher, the pump and a drainer that waits, 2 subscriptions (one filters), 2 events | does a subscription behave as an `EventChannel`, does a queue outlive its users, do handles name their subscription, are queues drained and reclaimed (`QueuesTurnOver`)? Yes |
| `zap_rows` | 2 devices, room for 4 rows, table of 1, with and without the flush task, a task that pairs, changes and deletes, a caller of `flush_device` and `flush_now`, 2 edits, one cut, one failed write | is there one row for each device, does flash follow the pool, is what is said to be saved saved and no slot leaked by cuts (`SavedWhenSaid`)? Yes |
| `chip_links` | session: window 2, ring 2, 1 retry, 2 frames, 2 draws, 1 link reset, 1 restart of each chip. Driver: 2 callers, one reply slot, one confirm slot, queues of 1, 2 attempts, 2 calls, a burst of 1, one reset, one frame each way. Frames: 2 addresses (one unknown), queue of 1, 2 acts. Start: 3 calls, 2 faults, the hub off once. Stream: 3 frames, ring of 1, a damaged byte, an overrun | is a request answered once and in its own slot, is a gated success a delivery, can every caller go on, does what the radio says reach whom it is for, does the network outlive failed starts; is an ACK a proof of dispatch, is a frame dispatched once, across resets and restarts? Yes |
| `shadow` | 2 devices. Writes: both paired at first, 2 values, 2 settings, one API task; up to 4 changes, calls, failures, comings and goings and restarts in any mixture. Timers: message queue of 1, command queue of 3; up to 4 reports and edits in any mixture, each with timers that cannot be made | does flash follow the cache, does `flush_now` write all that was marked, is what waits for a timer served, does an old value win? Yes, yes, yes, no |
| `device_data` | move of the store: 3 saves, 2 restarts at any write, 2 faults, one erased partition. Definitions: 2 devices, one slot, 2 edits. Timers: 2 slots, 3 timers, 2 tasks. Held writes: 2 keys, 3 writes, 2 reports. Meters: 3 in 4 ticks, 2 reads a tick, so that a failed one delays the next. Pings: 2 devices, a read and a ping a tick. Engine: 2 clients, 2 commands, 2 ids, 4 texts, cache of 2, 1 match an event, queues of 1, 1 report besides answers, 1 minute or second | is the store that opens the newest, does a healthy boot open it, does the old copy stay until nobody can want it; is a device decoded with another's definition, does a ticket name its timer, is a value set back, does a meter starve; does a heartbeat fire a rule, does the cache agree with the store, does switching a rule undo an edit? Yes, yes, yes; no, yes, no, no; no, yes, no |
| `life_tasks` | 2 devices, join queue of 2, other queues of 1, one retry timer, 2 attempts, 2 announces, addresses numbered as they are given, one late name, one upset | is a device left between the tasks, is a configure request forgotten, does an old address win? No |
| `outside` | client: one broker, 2 root topics, 2 filters, 3 calls, 2 breaks. Bridge: a device and the hub, 2 prefixes of which the second has room for one entity in the record, 2 entities, 2 calls, 1 break or publish given up. Discovery: 4 of 36 exposes, as many as are read. Stream: 3 frames. Messages: all. Table: 3 devices, 3 joins. Telegram: 2 senders, 5 messages, 4 calls. Metrics: 2 tasks, 2 cores, 2 samples. Texts of rules: words one too long, fitting, short; 14 events. Expressions: up to 6 tokens, `INT32_MAX` 3, 5 operations, 3 values on the stack, 2 parentheses. Schedules: two months of two weeks of three days | are settings followed, is what is gone retracted and what is there shown, does what was sent arrive, are rows found, is what is posted asked for, do counts add up, do texts mean what they say? Yes |
| `meter_starved` | 3 meters, one read a tick, an interval of 2 ticks | **finding**: the third meter is never read |
| `coord_retry` | one failed start and a second call | **finding**: the second call returns true and has not wired the interview and the frames |
| `move_mark_lost` | 3 saves, 3 restarts, 2 faults | **finding**: a move that is final by its first mark alone is formatted over |

**Bounds.** `Max...` constants bound histories: frames, draws, edits, events,
subscriptions, failed writes, restarts, cuts. The tables are small enough to be full:
a table of one entry and two rules takes the direct path, a queue of one event is
evicted from, a ring of two forgets, a window of two is exhausted, one slot of
synthesized definitions changes hands, one retry timer is taken. Two devices
are the fewest for which a delete moves another row, and two frames the fewest that
can meet in one buffer. Two callers over one slot meet at every stage of its reuse.
`hap_link` has one sending task, `rules` one editor and `zap_rows` one task that edits, pairs and deletes,
though the handlers of several tasks do: the theorems are for any number of them, and say in
a condition on the states (section 17) which meetings of two tasks break a promise; section 16 has the orders that do.
Two numbers drawn are enough for `chip_links`: numbers matter by being equal, and a third adds no
pattern to two frames.
Safety of ZnpDriver was also checked with two slots, and with three calls and two
resets of one caller, without anything new. `HapSession` is checked while its counter does not come
round (`MaxDraws <= SeqMax`). The violation runs have the smallest instance with the
counterexample.

`hap_link` takes the session's steps but those of a reset or a restart (`Undisturbed`), as `HapLink` has none;
these are in `chip_links`.

**Deadlock** is checked in `hap_link`, `rules` and `bus_slots`. In the other
runs a hub with its calls used up and everything saved has nothing to do, so it may stop;
`NobodyStuck` says for ZnpDriver what deadlock freedom would: while a call is not over, it
or the worker can go on, whatever the coprocessor does. `ConfigureNotForgotten`,
`HeldBackWillFlush` and `KeepsTrying` do it for the lifecycle, the shadow and MQTT: while
something is to come, what brings it is there.

**Fairness** is stated only for tasks the firmware schedules itself.
HapSession: in a stretch without a restart or reset (`Undisturbed`), the tick runs every 10 ms and ages grow, so the tick's steps are weakly
fair and a busy slot falls due over and over (strong, as the tick is not always at that
slot). RuleStore: the flush task scans the table every period and finds an entry when
it is old; a flusher and a reader continue what they began; they wait for locks that
others hold for bounded times (strong). EventBus: the pump looks at every slot at
least once a second; a publish and a drain that began continue. Nothing is assumed of
a drainer's time-out. In all of
them callers need not call, writes fail only finitely often (`MaxFails`), frames may
always be lost. The other modules state their progress as invariants, without fairness:
something that must happen later has, at every moment, what will make it happen (in
ZapStore a change that is not on flash is pending, and a pending slot in flight has its
flusher); a wait has a bound (`NobodyStarves`).

## 15. Excuses

A property that is stated of less than everything names what it leaves out, in a history
variable of its module: `ShadowFlash.cut` (a device whose keys may be left: an erase failed, or power was lost when it had an
entry outside the pool or its removal was under way), `unsure`, `unmarked`; `ShadowPipeline.astray`; `DefCache.raced`;
`TimerPool.late` (timers that expired before the cancel that released their slot stopped them); `WakeQueue.crossed`, `missed`; `Lifecycle.lost`, `lostCfg`, `gone`, `overtaken`;
`Coordinator.shaken`, `late`; `ZclExchange.crossed` (overlapping calls, and one that begins while an answer is being taken); `MqttGateway.excused`;
`HaBridge.excused` in its parts `left`, `dropped`, `lost`, `flap`; `HaDiscovery.unfit`;
`HapWire.excused` (a straddling preamble, only when the whole buffer was thrown away); `DevicePool.owes` and the `moved` rows of its list;
`ZapStore.gone`, `givenUp`, `leftover`; `StoreMove.refused`. Each is set by the step that opens the window. `CronNext.SteppedDay` leaves out schedules, and no step. What happens inside these windows is in the next section.

## 16. Where the code departs from what it says

Three findings have a run (`PROJECT.json`, "findings", quotes the lines): more meters than an interval
has turns are not read less often, but some of them never, because each tick looks through the table from its start
(`meter_poll.cpp:98`, against `meter_poll.hpp:43-45`); a move of the device store
whose second mark `nvs` refused is taken for unfinished and `zhac_data` may be formatted
(`zap_store.cpp:370`, against :51-54); `zigbee_mgr_init` returns true without its wiring when a first start failed (`zigbee_mgr.cpp:1095`, against
:1120-1123). The rest was seen while modelling and has no run; the model of the
component reaches it when its excuse is dropped, or the code was read beside it.

*Links and stores.*
* `hap_session`: with two sending tasks the first transmission of a frame reads a buffer that may
  belong to the next frame by then (`hap_session.cpp:311`, against :411-414); a (seq, type) mark that
  outlives a lap of the counter makes a fresh frame look like a duplicate (:364);
  `hap_session.h:19` and the component's README give 3 retries and 100 ms where the code has 5 and
  1000 ms, and `README.md:150` has the ACK before `on_frame`, which the code calls first.
* `event_bus`: with two publishers on a full queue the newest event can be lost (`event_bus.cpp:297`,
  against :293-294).
* `rule_store_max_id` reads NVS and then the table: a rule flushed between is missed
  (`rule_store.cpp:335`, against :309-314).
* `zap_store`: a deleted device is back after two cuts, one between the delete's second and third
  write, one after the next new device's count (`zap_store.cpp:650`, :759, against :710-718); a row
  whose write fails has already used up a place in the count (:658), and so has one cut off between the two (:650):
  a store that is full for that reason refuses a device it should have room for, on every retry. Such a place hides, in the index, what
  an earlier and longer scan left there: `index_build_locked` does not clear the entries beyond the count,
  so the next new row that is written (:671-672) puts the stale entry in reach, and a save or a delete of its device goes
  to a slot that is not its own (against :668). When a delete's count fails to be
  written after its move (:758, a result `device_cmd_ops.cpp:114` ignores) and another device is paired, the
  doubled row is no longer the last, where the boot's repair would find it: deleting its device
  removes one of the two rows and returns true (against `zap_store.h:80-81`), and a later delete can move the older
  of the two below the newer, which a load then prefers. Without the flush task two
  tasks' marks save their copies of one device, and the older may land last
  (`zap_store_flush.cpp:184-187`; the path of a full table reads the pool for that reason, :198-203). A
  device that pairs again between the pool's and the store's part of a hard delete
  (`device_cmd_ops.cpp:113`), and is saved in between, is on flash no more and nothing is
  pending for it. `pool restore` takes
  the pool's lock and then the store's, `zap_store_save_live` the reverse
  (`zigbee_pool.cpp:247-251`). When in addition to the refused mark of the finding the old copy was being
  erased as the power failed, what is left of it is copied over the formatted partition.
* `zigbee_mgr`: a lookup between the write of a rejoin's address and the mark of the indices misses
  the device (`zigbee_interview.cpp:299`, :803); a device list misses a row that a removal moves
  behind its cursor, and a single device longer than a page makes every page fail
  (`hap_json.h:97-101` promises progress).

*Rules.*
* Two rules that feed each other never stop: neither the run cap nor the hop count sees the loop
  (`simple_rules.cpp:765`). An update between match and run makes the new actions run with the old
  event (:808, against :840-843), because the slot's id is compared and not its text.
  `simple_rules_delete` marks its tombstone outside the lock (:1191), so an `enable` in between
  brings the row back and a `reload` keeps the rule.
* Texts: trailing characters of a numeric literal and extra tokens are ignored, an attribute before an
  operator is not trimmed, `System#Bootxyz` is accepted, `ENDON` inside a log text ends the rule, a
  quoted script name longer than its buffer with a blank at the cut is accepted cut
  (`dsl_parser.cpp:427`), `%value%` carries 31 characters.
* `cron_parser`: a step in a day field that begins with a star is never looked at: `0 0 */2 * *` is due every
  day (`cron_parser.cpp:201`, against :36-38, "`*/N` still matches every Nth slot", and the component's README:38-39,
  66-67, 82-100). `NextIsFirst` says nothing of such schedules: the step `DayOk` has them due as the code does, the reference `Due` as the documents do.
* `cron_parser/README.md:118` has a step beyond its range match never, the code takes the first
  value (`cron_parser.cpp:46-48`); a README line refuses all but five fields, six are
  accepted; the search gives up after 4*365 days, one short of some 29 February.

*Devices.*
* Shadow: the queued time-out of earlier motion clears newer motion (`device_shadow.cpp:598`, against
  :595-597); a debounce flush after the time-out leaves motion stuck; motion restored at boot has no
  time-out; bypassing values are not marked dirty; a timer that could not be created leaves its flag to the
  sweep, one whose start the full command queue refused does not (:744, against :746-751: what is held back then waits
  for the next report); a call-back whose entry is moved sends its message to
  another device; a late report after the pool forgot a device makes an entry again; a failed
  write of settings leaves its CRC behind; a cut in a removal leaves keys for ever.
* Adapter: `resolve_supplement` validates before it stores, so a stale supplement stays cached
  (`zhc_adapter.cpp:684`); a miss is stored after `register_endpoint`'s clear (against :414-416); a
  timer's thunk does not compare generations (:209), so one that expires between the release of its slot and
  `esp_timer_stop` (:283-297) runs the next owner's function early; the wake worker's copy is sent after a newer write
  (:1889); a write that could not be held (:1697) or a report that could not be told to the queue (:1710) leaves an older
  frame there, whose resend sets the value back; a meter read that could not be sent waits an interval
  (`meter_poll.cpp:110`, against `meter_poll.hpp:17-18`, "stays due"); with more quiet devices than ticks in the
  shortest wait the last in the table are not pinged. `set_attr` writes the shadow after it sent, over a report that was
  faster (against the comment in `device_cmd.cpp` that a real report overrides).
* Lifecycle: the interview's commit undoes a name learned meanwhile (`zigbee_interview.cpp:538`,
  against :532-537); a reply claimed as its wait ran out gives to the next wait (:96-105); the worker
  writes DONE over a rejoin; a retry or a queued event brings a removed device back; two
  yields start the attempts anew; between the eviction of the oldest join and the second send another task can fill
  the queue, and then both are dropped (`zigbee_interview.cpp:837-839`); configure requests are not enqueued again after a reboot;
  `zigbee_interview_trigger` reads an address under the lock and queues it after (`zigbee_interview.cpp:865-885`), so with
  two announces in between its event follows the newer one and moves a live device back to the older address.

*Radio.*
* ZNP: an answer that comes after its time-out is taken for the next call of the same command
  (`znp_worker.cpp:140`, against `znp_transport.h:23-24`); `znp_state.cpp:128-131` says that a
  successful answer heals Error, but `handle_request` refuses every request in Error; the README
  lets any reset indication lead to Up, the code goes to Recovering or Error. A stray 0xFE directly
  before a frame loses that frame (`znp_parser.cpp:68`); an identical indication 49.7
  days later, within 200 ms of the lap, is dropped.
* Coordinator: the supervisor sketched in the README never retries a failed reinit; a reset heard during
  registration counts as expected; when the length of the NIB is not answered, commissioning wipes
  a live network; a start that finds a NIB never clears the startup option;
  `force_recommission` deletes the marker while `is_configured` looks at the NIB; a failed read of
  the key makes a new one.
* ZCL: the raw fallback takes `zcl[2]` for the command of manufacturer-specific frames too; the
  enrol response draws its own TSN; overlapping callers share the group waiter; a waiter that is
  released and armed again for the same device between the look at its TSN and its claim is given the answer to the
  earlier question (`zcl_commands.cpp:247-248`).

*Outside.*
* MQTT: `s_connected` stays true when a restart destroys the client, so the bridge misses the new
  session (`ha_bridge.cpp:288-293`); `mqtt_gw_start` and `set_broker_url` start a client while disabled,
  which auto-disable then does not re-arm; a stale disable kills a newer client; a root topic that
  moves leaves the will and the retained online on the old one; a graceful stop leaves online; a
  handler that subscribes amid `mqtt_gw_subscribe` leaves two filters.
* Bridge: an op ahead of RetractAll runs with the new prefix and overwrites the record, so old topics
  stay (against `ha_bridge.cpp:394-395`); `publish` drops the slash of a topic that begins with the
  root (:94); a device removed while the broker is down, an interrupted publication, a full queue
  and a reboot leave topics; a break shorter than a poll loses what it dropped;
  a device published anew, after an interview that found fewer exposes, replaces its record without retracting what only the
  old one had (`ha_bridge.cpp:203-204`), so that such an entity stays for ever, also after the device's removal
  (against `ha_bridge.h:48-49`, "every config it published", and `ha_bridge.cpp:54-56`); a topic beyond the 2048 bytes of the
  record is published and never retracted (:172), and so is one whose retraction is given up after two seconds (:98-104),
  while the record goes. Discovery: a config longer than its payload is left out without a word though its exposes
  are marked used (`ha_discovery.cpp:181-184`); exposes after the 64th are not read (:452-457); a
  read-only mode of a thermostat and an on/off fan mode are marked used and not shown; a `state`
  with the words of a cover and of a lock becomes both.
* `hap_decode_stream` consumes the whole buffer when no preamble is in sight (`hap_protocol.cpp:108-114`; its comment
  accepts that a straddling one is lost), where its README:374-377 has it keep the last three bytes; only tests and
  transports outside this repository call it (`hap_protocol.h:160-164`).
* Telegram: a text of 3072 bytes writes its terminator one past the array. `hap_json`: fields
  are not zeroed on failure as its README says, NaN becomes null, a bad nibble is found
  after part of the key was overwritten.
* Metrics: two sets of a counter from two cores can leave 0 or the sum (`README.md:60` says exactly);
  `README.md:200` has minima that may go back, which they never do; a first sample shows a minimum of
  `UINT32_MAX` between two of its operations.

## 17. What is proved

Each theorem is `Spec => []Property` (or a refinement) for every value of the constants
allowed by the `ASSUME` of its module: any window, ring, table, number of tasks and
bounds. The modules are `HapSessionProofs`, `RuleStoreProofs`,
`EventBusProofs`, `ZapStoreProofs`, `StoreMoveProofs`, `MqttGatewayProofs`, `LifecycleProofs` and
`ShadowFlashProofs`; each proves that an inductive invariant holds initially, that
every action keeps it (one lemma or step for each action), and that it implies the
property.

| theorem | property | argument |
|---|---|---|
| `TypeCorrect` | HapSession `TypeOK` | inductive as it stands, in two halves (sender and wire, receiver) |
| `FilterCorrect` | `DuplicatesFarApart` | the ring is the last `RingSize` dispatches since it was cleared: then a mark that is absent was evicted by that many others |
| `NoTearing` | `NoTornFrame` | a slot's buffer holds its frame while the slot is busy, and a frame held by a sending task or by the tick points at a buffer nobody writes meanwhile. Any number of sending tasks: holds for as long as no two of them hold frames of one buffer (`OwnBuffers`), which one task never does; without it the statement is false (section 16) |
| `AckIsDispatch` | `AckedWasDispatched` | an ACK on the wire names a number that was dispatched since the sender's last restart, or one the history excuses; numbers are not drawn twice while the counter does not come round |
| `TimelyMeansOnce` | `DispatchedOnce` | `AtMostOnce`: the copies of a frame lie on the wire in order, so none is on both sides of a `Sync`; a frame that was dispatched and has a copy left has its key in the log since the filter was cleared. Assumes `Timely`, what `hap_session.cpp:100-103` relies on: a late copy finds fewer than `RingSize` dispatches after the last one of its key |
| `FirstFramesOnce` | `DispatchedOnce` | for the first `RingSize` frames that assumption is a consequence: the log is no longer than the frames there are |
| `LinkImplemented`, `LinkOfFirstFrames` | `LinkSpec` | `LinkInv`: the invariants above and `WindowInv` (the window holds accepted frames, each once, none that was answered or given up). Each action is a step of `HapLink` or hidden. While neither chip restarted nor the link was reset and the counter has not come round (`Quiet`), with `Timely`; or, as the run, for the first `RingSize` frames |
| `OneEditPerRule` | `OneSlotPerRule` | a mark looks for the rule's slot and takes a free one under the same hold |
| `OneOwnerPerWrite` | `OneFlusherPerSlot` | a slot is FLUSHING exactly while one job refers to it and still has its rule: marks set `dirty_again` and never the rule |
| `LoadsAreFresh` | RuleStore `LoadFresh` | what a load is given is the slot's text or a read of flash later than its look at the table, and flash never falls behind what was settled |
| `FlushIsBarrier` | RuleStore `FlushNowDurable` | what a pass still owes lies ahead of it, is in a flusher's hand, or is on flash; the second pass meets what the first left in flight |
| `StoreImplementsMap` | `RuleMapSpec` | the order of one rule's edits: flash ≤ snapshot in flight ≤ slot ≤ newest; a direct write happens only when nothing of the rule is pending. Any number of editing tasks, for as long as no other has marked the rule between a direct write's look at the full table and its write (`DirectAlone`), which with one editor never happens: `simple_rules_delete` marks outside the lock of the rules (section 16) |
| `QueuesPinned` | `QueuesOutliveUsers` | `inflight` is the number of tasks that hold a reference; a slot is reaped only at 0 |
| `DeadQueuesInUse` | `DyingInUse` | `dying_count` counts the dead slots, and a dead slot has a user, who reaps |
| `HandlesSound` | `HandlesName` | a slot's generation counts its subscriptions, so it does not repeat while fewer than half a cycle were made (the assumption `FewSubscriptions`) |
| `SubscribersReached` | `SubscribersInReach` | the mark is trimmed only down to the last slot that is alive or still to be reaped |
| `ChannelImplemented` | EventBus `ChannelSpec` | each live slot has a queue of its own, so a publisher has one entry left for it at most; the event a publisher has left for a subscription was never seen there (queue, hand or handler), because each publish has an event of its own; the queue of a dead slot belongs to a handle that was unsubscribed, so reaping and poison change no open channel; a drainer's stamp is its subscription's, so the check under the lock passes exactly while it is open. Under `FewSubscriptions`, as `HandlesSound` |
| `OneRowKept` | `OneRowPerDevice` | `OneRow`: what holds of the rows at each step of an operation. A new row is counted while the index, true at rest, has none of its device; the slot a delete moves the last row to is the only one of its device, so that between the move and the shrink the last row's is the only device with two; a cut there is what the boot's repair finds (`Unique(cnt - 1)` while `up = "init"`). The index at rest knows every counted row's device (`Knows`), and what it says of others is spared by `leftover`. Any number of tasks, cuts and failed writes that left nothing over |
| `MapImplemented` | `DeviceMapSpec` | `Trusted`: two counted rows of a device have one record, so the record a load finds is that of any of its rows (`VerIn`) and each write changes that of one device; a row above the count is there only between a shrink and its erase; a save's record is the pool's when it begins, and no later one is on flash (`CopyIsPools`, `NotAhead`). Any number of tasks, for as long as those that work on one device at a time keep `Apart`: marks are deferred, and a delete meets no other delete of the device, nor a task after the device has paired again. Section 16 says what happens otherwise; tasks at different devices meet as they like |
| `SlotsAccountedFor` | ZapStore `TypeOK`, `SlotsNotLeaked` | `Table`: an entry of the write-back table is one device's and, in flight, one task's. `Ledger`: the rows that are missing below the count are at most the cuts and failed writes before, at each step of an operation, where the count and the row of a new device differ by one. Nothing is assumed of the tasks |
| `SavedWhenSaidKept` | `SavedWhenSaid` | `Honest`, for as long as nothing is `leftover`: a device whose record on flash is not the pool's is pending, in a task's hand or given up (`Current`, which needs `Safe`: what a save in flight has copied is at least what it was taken for, or the slot is marked again); a barrier owes a change only while it is on flash, pending, or in the hand of a task (`Debts`); a call that waits for its own save settles it (`OneFlush`); what the first pass of flush_now left in flight the second meets at or behind its place (`TwoPasses`); a deleted device has no row, no slot and no save that could write one (`Gone`); a save is not refused while no counted slot is without a row, because each row is a paired device's (`PoolFits`). `Lefts` bounds what the histories name. Assumes `Apart`, as `MapImplemented`, and that while no write has failed the devices of the pool and those a delete still has to take from flash fit the rows (`PoolFits`: no device is paired into the last place before the delete that freed it in the pool has ended) |
| `NewestIsServed` | StoreMove `OpensTheNewest` | `RecordKept`: before the move is final a copy whose checksum is that of nvs is the newest, and nvs is unless the copy took a save since; after it zhac_data is. `InBoot` says for each step of a boot why it may be there: the copy is written only while it does not count, a save on zhac_data waits for `copied` or a mark, a save on nvs has a number no checksum was taken of, so it makes the copy count no more |
| `OldStays` | StoreMove `OldStaysUntilFinal` | the same invariant: `erase_old_copy` runs only after a mark, the copy only before |
| `SettingsAreFollowed` | MqttGateway `SettingsFollowed` | `Inductive`: who takes a client away while MQTT is wanted has a timer to arm, a worker or a caller on its way to arm it (a request that is not yet at its end does not count: it need not make one); a connection's handler runs only while that connection is up, so the will of a broken one covers what was told; what is subscribed is at most the filter of the call under way, or the one in force |
| `NothingIsDropped` | Lifecycle `NothingDropped` | `Inductive`, the part `Remembered`: also a device whose name is still to come (`pending`) has its request, because `Apply` makes it `ready` without one; whoever lets a request go has seen it settled, or writes a verdict that settles it |
| `AddressesStayFresh` | Lifecycle `AddressFresh` | `AddressesFollow`: in the join queue every older address of a device has an event with its own behind it, and the pool differs from the device only while that event is still to come and the device is `ready`, so that no attempt reads the pool. The proof found the excuse `overtaken` of `TriggerSend` missing (section 16): the run's two announces do not reach it |
| `FlashFollowed` | ShadowFlash `FlashFollows` | `Inductive`: one writer at a time has a job (`OneWriter`), and what it has for a device is what the entry booked or emptied (`InWrite`), though reports change the entry meanwhile. Then for each device: a CRC that is booked is that of the key, or of the blob about to be written, or a retry is about to void it (`Booked`); an entry that is neither marked nor noted as changed is on flash or in a writer's hand (`Clean`); settings likewise (`InForce`); and a device without an entry has no key but one a task is about to erase (`Absent`). Assumes that there are finitely many devices |
| `FlushIsComplete` | ShadowFlash `FlushNowComplete` | the part `Owing`: what flush_now still owes lies at or behind its place in the table, and is marked or in its hand; a removal moves only the last entry, and `MovedPast` excuses that one |

Type correctness of the store's and the bus's own variables is part of these
invariants and proved as far as they need it. Only model-checked:

* liveness (`WindowDrains`, `EditsReachFlash`, `QueuesTurnOver`), which needs fairness and
  ENABLED and is beyond the prover (`NobodyStuck` has an ENABLED too);
* of RuleStore's `ReturnsHonest` the conjunct `ListComplete`: the list is merged by a fold over the table, and
  what a fold computes takes induction over data (`LoadFresh` and `FlushNowDurable` are proved);
* everything about the other modules. RuleExpr has a RECURSIVE operator, so nothing is
  proved in it.

## 18. Plan

Proofs to come: the reply pool of ZnpDriver; `NetworkSurvives` of
Coordinator; `NothingLost` of Metrics. RuleExpr has a RECURSIVE reference and is for
TLC alone.

Models to come: the rest of RuleEngine (timers, MQTT triggers, time-outs of its lock), one response
slot of the interview, ShadowFlash and ShadowPipeline over one entry.

**Not modelled**, and staying so: `device_backend`, `ntp_cfg`, `zap_tls` and the transports under
`mqtt_gw` and `tg_gw` (calls into libraries), `zap_common` (types), the vendored JSON library,
the converters of `embedded-zhc` (another repository), layouts of messages and attributes of entities
that no property tells apart, and time itself: ages and periods are abstracted to "may happen now"
or to a few ticks, so no bound in milliseconds is shown.
