--------------------------- MODULE ShadowPipeline ---------------------------
(***************************************************************************)
(* The RAM side of the shadow cache (components/device_shadow): what a     *)
(* report goes through before it is cached and published, and the three    *)
(* timers of a device: the debounce window, the occupancy time-out ("ttl") *)
(* and the count of "no motion since".                                     *)
(*                                                                         *)
(* A timer call of FreeRTOS posts a command; the timer service task carries*)
(* the commands out in order, and runs the call-back of a timer that ran   *)
(* out.  No call waits for room for its command: one that meets a full     *)
(* queue is lost, and nobody looks (that a deletion may be lost too is     *)
(* left out).  The call-back has the address of the entry, which a removal *)
(* may move; it queues a message for task_shadow, or sets a flag in the    *)
(* entry when the queue is full.  task_shadow serves messages and flags.   *)
(*                                                                         *)
(* A hold of s_emit_mutex and s_mutex is one step, the events published    *)
(* under it included: what is cached is published in the same order.  The  *)
(* bridge reports one attribute at a time; two keys are enough: occupancy, *)
(* which the timers follow, and another, which may bypass the debounce.    *)
(***************************************************************************)
EXTENDS Naturals, Sequences, SequencesExt

CONSTANTS
    Device,       \* IEEE addresses
    Choice,       \* settings that set_config may be given
    NoDevice,     \* the address in a wiped entry, not one of them
    QueueDepth,   \* TASK_QUEUE_DEPTH
    CommandDepth  \* commands that wait for the timer service

VARIABLES
    table,        \* s_shadow, the addresses
    cfg,          \* the settings the pipeline reads
    preset,       \* the devices whose definition has an occupancy time-out
    since,        \* NoOccupancySince
    cache,        \* the attributes
    pending,      \* those the debounce holds back
    has,          \* the timers an entry has a handle of
    ticking,      \* the running timers of each device: the slot each has as its ID, 0 if idle
    posted,       \* commands the timer service has not carried out
    callback,     \* the call-back it is in: the slot it was given, and the kind
    queue,        \* s_task_queue
    flag,         \* the fall-back flags of each entry
    newest,       \* history: the last accepted value of the other key,
    owing,        \* devices whose motion a time-out must clear,
    astray        \* timers that ran out while a removal moved their entry, or whose
                  \* last start met a full queue

settings == <<cfg, preset>>
timers   == <<has, ticking, posted, callback>>
past     == <<newest, owing, astray>>
vars     == <<table, settings, since, cache, pending, timers, queue, flag, past>>

-----------------------------------------------------------------------------
Kind   == {"debounce", "ttl", "since"}
Key    == {"occupancy", "other"}
Unset  == 2                                  \* not cached, not pending, not said
Nothing == [k \in Key |-> Unset]
Blank  == [k \in Key \cup {"since"} |-> Unset]
NoCall == [slot |-> 0, kind |-> "debounce"]
Known  == ToSet(table)
SlotOf(d) == CHOOSE i \in 1..Len(table) : table[i] = d
At(i)     == IF i \in 1..Len(table) THEN table[i] ELSE NoDevice

Settings   == [debounce : BOOLEAN, bypass : BOOLEAN, throttle : BOOLEAN, ttl : {"default", "off", "on"}]
FreshCfg   == [debounce |-> FALSE, bypass |-> FALSE, throttle |-> FALSE, ttl |-> "default"]
FreshSince == [on |-> FALSE, counting |-> FALSE, done |-> FALSE, nonzero |-> FALSE]

Init ==
    /\ table = <<>>
    /\ cfg = [d \in Device |-> FreshCfg] /\ preset = {} /\ since = [d \in Device |-> FreshSince]
    /\ cache = [d \in Device |-> Blank] /\ pending = [d \in Device |-> Nothing]
    /\ has = [d \in Device |-> {}] /\ ticking = [d \in Device |-> [k \in Kind |-> 0]]
    /\ posted = <<>> /\ callback = NoCall
    /\ queue = <<>> /\ flag = [d \in Device |-> {}]
    /\ newest = [d \in Device |-> Unset] /\ owing = {} /\ astray = {}

Appended(d) == IF d \in Known THEN table ELSE Append(table, d)

-----------------------------------------------------------------------------
\* The timer service (FreeRTOS).

Command(do, d, k) == [do |-> do, dev |-> d, kind |-> k]
Commands(do, d, ks) == LET s == SetToSeq(ks) IN [i \in 1..Len(s) |-> Command(do, d, s[i])]

\* The commands of a call, those that find room; and the timers whose start does not. A start is
\* two commands in the code for all but the window, and one of them is enough.
Fit(cs)     == posted \o SubSeq(cs, 1, Min({Len(cs), CommandDepth - Len(posted)}))
Lost(d, cs) == {<<d, cs[i].kind>> : i \in {j \in DOMAIN cs : cs[j].do = "arm" /\ Len(posted) + j > CommandDepth}}

\* The timer that runs is that of the handle, not one whose deletion is still posted.
Current(d, k) == k \in has[d] /\ ~Contains(posted, Command("delete", d, k))
Active(d, k)  == Current(d, k) /\ ticking[d][k] # 0

Serve ==
    /\ posted # <<>> /\ callback = NoCall
    /\ LET c == Head(posted)
       IN  ticking' = [ticking EXCEPT ![c.dev][c.kind] =
                          IF c.do = "arm" /\ c.dev \in Known THEN SlotOf(c.dev) ELSE 0]
    /\ posted' = Tail(posted)
    /\ UNCHANGED <<table, settings, since, cache, pending, has, callback, queue, flag, past>>

RunOut(d, k) ==
    /\ ticking[d][k] # 0 /\ callback = NoCall
    /\ callback' = [slot |-> ticking[d][k], kind |-> k]
    /\ ticking' = [ticking EXCEPT ![d][k] = 0]
    /\ UNCHANGED <<table, settings, since, cache, pending, has, posted, queue, flag, past>>

\* debounce_timer_cb, occupancy_timeout_cb, no_occ_timer_cb.
Dropped(d, k) == flag                                          \* mutant
Deferred(d, k) == IF d \in Device THEN [flag EXCEPT ![d] = @ \cup {k}] ELSE flag

Callback ==
    /\ callback # NoCall
    /\ LET d == At(callback.slot)
       IN  IF Len(queue) < QueueDepth
           THEN queue' = Append(queue, [dev |-> d, kind |-> callback.kind]) /\ UNCHANGED flag
           ELSE flag' = Deferred(d, callback.kind) /\ UNCHANGED queue
    /\ callback' = NoCall
    /\ UNCHANGED <<table, settings, since, cache, pending, has, ticking, posted, past>>

-----------------------------------------------------------------------------
\* NoOccupancySince: its next state, the timer command, and what it says (Unset: nothing).

Step(s, do, says) == [s |-> s, do |-> do, says |-> says]

OnOccupancy(s, occupied) ==
    IF occupied
    THEN Step([s EXCEPT !.counting = FALSE, !.done = FALSE, !.nonzero = FALSE],
              IF s.counting THEN "disarm" ELSE "none", IF s.nonzero THEN 0 ELSE Unset)
    ELSE IF s.on /\ ~s.counting /\ ~s.done
         THEN Step([s EXCEPT !.counting = TRUE], "arm", Unset)
         ELSE Step(s, "none", Unset)

OnTimer(s) ==
    IF s.counting /\ s.on THEN Step([s EXCEPT !.counting = FALSE, !.done = TRUE, !.nonzero = TRUE], "none", 1)
                          ELSE Step([s EXCEPT !.counting = FALSE], "none", Unset)

\* A report wants timers; those it has no handle of may fail to be created.
Made(d, wants) == {made \in SUBSET wants : wants \cap has[d] \subseteq made}
Arm(d, k, made) == IF k \in made THEN <<Command("arm", d, k)>> ELSE <<>>

\* no_occ_do_locked: the timer it wants, the commands, the count after it, what it caches.
Wanted(step) == IF step.do = "arm" THEN {"since"} ELSE {}
SinceCommands(d, step, made) ==
    IF step.do = "disarm" /\ "since" \in has[d] THEN <<Command("stop", d, "since")>> ELSE Arm(d, "since", made)
Counting(step, made) == IF Wanted(step) \subseteq made THEN step.s ELSE [step.s EXCEPT !.counting = FALSE]
Said(c, step) == IF step.says = Unset THEN c ELSE [c EXCEPT !.since = step.says]

-----------------------------------------------------------------------------
\* process_ieee: apply_pipeline_and_stage with one attribute.

\* device_shadow_occupancy_effective
Interval(d) == cfg[d].ttl = "on" \/ (cfg[d].ttl = "default" /\ d \in preset)

Motion(k, v) == k = "occupancy" /\ v = 1

\* shadow_pipeline_debounce_bypass
Bypasses(d, k, v) == cfg[d].bypass /\ k = "other" /\ pending[d][k] # v

\* The timers of the report: the time-out of motion, the count, then the window.
Report(d, k, v) ==
    LET step  == IF k = "occupancy" THEN OnOccupancy(since[d], v = 1) ELSE Step(since[d], "none", Unset)
        wants == (IF Interval(d) /\ Motion(k, v) THEN {"ttl"} ELSE {}) \cup Wanted(step)
                     \cup (IF cfg[d].debounce THEN {"debounce"} ELSE {})
        keep  == cfg[d].debounce /\ ~Bypasses(d, k, v)
        told  == [cache EXCEPT ![d] = Said(@, step)]
        Starts(made) == Arm(d, "ttl", made) \o SinceCommands(d, step, made) \o Arm(d, "debounce", made)
    IN  /\ table' = Appended(d)
        /\ \E made \in Made(d, wants), pass \in BOOLEAN :               \* the throttle lets it pass
              /\ (~pass) => cfg[d].throttle /\ ~cfg[d].debounce
              /\ posted' = Fit(Starts(made))
              /\ has' = [has EXCEPT ![d] = @ \cup made]
              /\ flag' = IF "debounce" \in wants \ made THEN [flag EXCEPT ![d] = @ \cup {"debounce"}] ELSE flag
              /\ since' = [since EXCEPT ![d] = Counting(step, made)]
              /\ pending' = IF keep THEN [pending EXCEPT ![d][k] = v] ELSE pending
              /\ cache' = IF ~keep /\ pass THEN [told EXCEPT ![d][k] = v] ELSE told
              /\ newest' = IF k = "other" /\ pass THEN [newest EXCEPT ![d] = v] ELSE newest
              /\ owing' = IF "ttl" \in made THEN owing \cup {d} ELSE owing
              /\ astray' = (astray \ {<<d, m>> : m \in wants}) \cup Lost(d, Starts(made))
        /\ UNCHANGED <<settings, ticking, callback, queue>>

\* update_optimistic: the cache alone.
Optimistic(d, k, v) ==
    /\ d \in Known
    /\ cache' = [cache EXCEPT ![d][k] = v]
    /\ newest' = IF k = "other" /\ pending[d][k] = Unset THEN [newest EXCEPT ![d] = v] ELSE newest
    /\ UNCHANGED <<table, settings, since, pending, timers, queue, flag, owing, astray>>

-----------------------------------------------------------------------------
\* task_shadow

\* flush_pending_entry_locked: what the window held back.
FlushedCache(d) ==
    [cache EXCEPT ![d] = [k \in DOMAIN @ |-> IF k \in Key /\ pending[d][k] # Unset THEN pending[d][k] ELSE @[k]]]

FlushPending(d) ==
    /\ cache' = FlushedCache(d)
    /\ pending' = [pending EXCEPT ![d] = Nothing]
    /\ UNCHANGED <<since, has, posted, owing, astray>>

\* occupancy_apply_locked: nothing when the interval is off or a newer report armed the timer.
TimeoutStands(d) == Interval(d) /\ ~Active(d, "ttl")

OccupancyTimeout(d) ==
    IF TimeoutStands(d)
    THEN LET step == OnOccupancy(since[d], FALSE)
         IN  /\ cache' = [cache EXCEPT ![d].occupancy = 0]
             /\ \E made \in Made(d, Wanted(step)) :
                    /\ since' = [since EXCEPT ![d] = Counting(step, made)]
                    /\ posted' = Fit(SinceCommands(d, step, made))
                    /\ astray' = (astray \ {<<d, m>> : m \in Wanted(step)}) \cup Lost(d, SinceCommands(d, step, made))
                    /\ has' = [has EXCEPT ![d] = @ \cup made]
             /\ owing' = owing \ {d}
             /\ UNCHANGED pending
    ELSE UNCHANGED <<cache, since, posted, has, owing, pending, astray>>

\* no_occ_fire_locked: nothing when the count was started anew.
CountRanOut(d) ==
    LET step == IF Active(d, "since") THEN Step(since[d], "none", Unset) ELSE OnTimer(since[d])
    IN  /\ since' = [since EXCEPT ![d] = step.s]
        /\ cache' = [cache EXCEPT ![d] = Said(@, step)]
        /\ UNCHANGED <<pending, has, posted, owing, astray>>

Do(k, d) ==
    CASE k = "debounce" -> FlushPending(d)
      [] k = "ttl"      -> OccupancyTimeout(d)
      [] k = "since"    -> CountRanOut(d)

Serviced == UNCHANGED <<table, settings, ticking, callback, newest>>

ServeMessage ==
    /\ queue # <<>>
    /\ queue' = Tail(queue)
    /\ LET m == Head(queue)
       IN  IF m.dev \in Known
           THEN Do(m.kind, m.dev) /\ flag' = [flag EXCEPT ![m.dev] = @ \ {m.kind}]
           ELSE UNCHANGED <<cache, pending, since, has, posted, owing, flag, astray>>
    /\ Serviced

\* The sweep's half: the flags a full queue left.
ServeFlag(d, k) ==
    /\ d \in Known /\ k \in flag[d]
    /\ Do(k, d) /\ flag' = [flag EXCEPT ![d] = @ \ {k}]
    /\ UNCHANGED queue /\ Serviced

-----------------------------------------------------------------------------
\* The API.

\* What is pending goes out under the old settings.
HeldBack(d) == UNCHANGED <<cache, pending, flag>>              \* mutant
FlushedFirst(d) ==
    /\ cache' = FlushedCache(d)
    /\ pending' = [pending EXCEPT ![d] = Nothing]
    /\ flag' = [flag EXCEPT ![d] = @ \ {"debounce"}]

\* Nobody waits for a time-out that is off.
TimeoutKept(d) == owing' = IF Interval(d)' THEN owing ELSE owing \ {d}

SetConfig(d) ==
    /\ table' = Appended(d) /\ FlushedFirst(d)
    /\ \E c \in Choice : cfg' = [cfg EXCEPT ![d] = c]
    /\ UNCHANGED <<preset, since, timers, queue, newest, astray>>
    /\ TimeoutKept(d)

SetThrottle(d) ==
    /\ table' = Appended(d)
    /\ \E on \in BOOLEAN : cfg' = [cfg EXCEPT ![d].throttle = on]
    /\ UNCHANGED <<preset, since, cache, pending, timers, queue, flag, past>>

Without(d, ks) ==
    /\ has' = [has EXCEPT ![d] = @ \ ks]
    /\ Len(posted) + Cardinality(has[d] \cap ks) <= CommandDepth
    /\ posted' = posted \o Commands("delete", d, has[d] \cap ks)

\* set_debounce_ms: the timer of a window that is off goes.
SetDebounce(d) ==
    /\ table' = Appended(d) /\ FlushedFirst(d)
    /\ \E on \in BOOLEAN :
          /\ cfg' = [cfg EXCEPT ![d].debounce = on]
          /\ Without(d, IF on THEN {} ELSE {"debounce"})
    /\ UNCHANGED <<preset, since, ticking, callback, queue, past>>

\* set_occupancy_timeout: the user's choice.
SetTimeout(d) ==
    /\ d \in Known
    /\ \E ttl \in {"on", "off"} :
          /\ cfg' = [cfg EXCEPT ![d].ttl = ttl]
          /\ Without(d, IF ttl = "on" THEN {} ELSE {"ttl"})
    /\ UNCHANGED <<table, preset, since, cache, pending, ticking, callback, queue, flag, newest, astray>>
    /\ TimeoutKept(d)

\* set_occupancy_default: the definition's.
SetDefault(d) ==
    /\ table' = Appended(d)
    /\ preset' \in {preset \cup {d}, preset \ {d}} /\ preset' # preset
    /\ UNCHANGED <<cfg, since, cache, pending, timers, queue, flag, newest, astray>>
    /\ TimeoutKept(d)

\* set_no_occupancy_since
SetSince(d) ==
    /\ table' = Appended(d)
    /\ \E on \in BOOLEAN : since' = [since EXCEPT ![d] = [@ EXCEPT !.on = on, !.counting = FALSE, !.done = FALSE]]
    /\ posted' = Fit(SinceCommands(d, Step(since[d], IF since[d].counting THEN "disarm" ELSE "none", Unset), {}))
    /\ UNCHANGED <<settings, cache, pending, has, ticking, callback, queue, flag, past>>

\* What clear_attrs and remove do alike: the timers and all they serve go.
Emptied(d) ==
    /\ Without(d, Kind)
    /\ cache' = [cache EXCEPT ![d] = Blank] /\ pending' = [pending EXCEPT ![d] = Nothing]
    /\ flag' = [flag EXCEPT ![d] = {}]
    /\ newest' = [newest EXCEPT ![d] = Unset] /\ owing' = owing \ {d}

ClearAttrs(d) ==
    /\ d \in Known /\ Emptied(d)
    /\ since' = [since EXCEPT ![d] = [FreshSince EXCEPT !.on = since[d].on]]
    /\ UNCHANGED <<table, settings, ticking, callback, queue, astray>>

\* The last entry fills the hole, and its timers get its new address.
Shifted(d) == [i \in 1..(Len(table) - 1) |-> IF table[i] = d THEN Last(table) ELSE table[i]]
Moved(d)   == {Last(table)} \ {d}
Repointed(d) ==
    [e \in Device |-> [k \in Kind |->
        IF e \in Moved(d) /\ Current(e, k) /\ ticking[e][k] # 0 THEN SlotOf(d) ELSE ticking[e][k]]]

Forget(d) ==
    /\ d \in Known /\ Emptied(d)
    /\ table' = Shifted(d) /\ ticking' = Repointed(d)
    /\ cfg' = [cfg EXCEPT ![d] = FreshCfg] /\ since' = [since EXCEPT ![d] = FreshSince]
    /\ preset' = preset \ {d}
    /\ astray' = astray \cup {<<e, callback.kind>> : e \in {x \in Moved(d) : At(callback.slot) = x}}
    /\ UNCHANGED <<callback, queue>>

-----------------------------------------------------------------------------
Enter(d) == \E k \in Key, v \in {0, 1} : Report(d, k, v) \/ Optimistic(d, k, v)
Edit(d)  == \/ SetConfig(d) \/ SetThrottle(d) \/ SetDebounce(d) \/ SetTimeout(d) \/ SetDefault(d) \/ SetSince(d)
            \/ ClearAttrs(d) \/ Forget(d)
Run      == Serve \/ Callback \/ ServeMessage \/ \E d \in Device, k \in Kind : RunOut(d, k) \/ ServeFlag(d, k)

Next == Run \/ \E d \in Device : Enter(d) \/ Edit(d)
Spec == Init /\ [][Next]_vars

-----------------------------------------------------------------------------
\* Something will serve this timer's purpose: it runs, it is about to, or it ran out.
Coming(d, k) ==
    \/ ticking[d][k] # 0 \/ Contains(posted, Command("arm", d, k))
    \/ callback # NoCall /\ callback.kind = k /\ At(callback.slot) = d
    \/ Contains(queue, [dev |-> d, kind |-> k]) \/ k \in flag[d]

TypeOK ==
    /\ table \in Seq(Device) /\ IsInjective(table) /\ cfg \in [Device -> Settings]
    /\ Len(queue) <= QueueDepth /\ Len(posted) <= CommandDepth
    /\ cache \in [Device -> [Key \cup {"since"} -> 0..2]] /\ pending \in [Device -> [Key -> 0..2]]
    /\ has \in [Device -> SUBSET Kind] /\ flag \in [Device -> SUBSET Kind]
    /\ ticking \in [Device -> [Kind -> Nat]]
    /\ preset \subseteq Device /\ owing \subseteq Device /\ astray \subseteq Device \X Kind

\* No value is stuck in the debounce: while one is held back, a window is open, closing or
\* closed with its flush on the way, also when the queue was full, the timer could not be
\* created or the entry was moved, unless it was moved just then or the start of the window
\* was lost (debounce_timer_cb, device_shadow_remove).
HeldBackWillFlush ==
    \A d \in Known : pending[d] # Nothing => Coming(d, "debounce") \/ <<d, "debounce">> \in astray

\* Motion that a time-out must clear will be cleared, and a "no motion since" count that runs
\* will end (occupancy_timeout_cb, no_occ_do_locked).
CountsWillEnd ==
    \A d \in Known : /\ d \in owing => Coming(d, "ttl") \/ <<d, "ttl">> \in astray
                     /\ since[d].counting => Coming(d, "since") \/ <<d, "since">> \in astray

\* What is shown of "no motion since" is what the counter will take back at the next motion.
ShownIsTakenBack == \A d \in Known : cache[d].since = 1 <=> since[d].nonzero

\* Whatever waits for a timer has one coming.
NothingForgotten == TypeOK /\ HeldBackWillFlush /\ CountsWillEnd /\ ShownIsTakenBack

\* A value never gives way to an older one: what is held back, or else what is cached, is the
\* last accepted one, however debounce, bypass and throttle are switched (set_config).
NewestWins ==
    \A d \in Known : newest[d] = IF pending[d].other # Unset THEN pending[d].other ELSE cache[d].other
=============================================================================
