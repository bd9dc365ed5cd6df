----------------------------- MODULE Lifecycle ------------------------------
(***************************************************************************)
(* The life of a Zigbee device in components/zigbee_mgr: announced,        *)
(* interviewed, identified, matched, configured, removed.                  *)
(*                                                                         *)
(* Four tasks work on the pool of devices.  The RX task serves announces,  *)
(* leaves and Basic frames; the interview task takes join events; the      *)
(* identity task takes what Basic frames say; the configure worker runs    *)
(* the steps of the matched definition and retries on timers.  Every one   *)
(* holds the pool's lock only for a look or a write and works on a copy in *)
(* between, so each hold is one step here.                                 *)
(*                                                                         *)
(* A network address is a small number that grows old: addr has the one    *)
(* the device has, the pool the one the hub believes.  A name is what the  *)
(* Basic cluster told: nothing, the maker alone, or maker and model; a     *)
(* definition is found by model.  A sleep between two attempts ends by its *)
(* time-out or earlier by a wake: the time-out may come at any moment, so  *)
(* wakes add nothing and are left out.                                     *)
(***************************************************************************)
EXTENDS Naturals, Sequences, SequencesExt, Functions

CONSTANTS
    Device,             \* IEEE addresses
    Nobody,             \* no device
    Supported,          \* devices whose model has a definition
    JoinDepth,          \* s_join_queue
    UpdateDepth,        \* the identity queue
    ConfigDepth,        \* CONFIGURE_QUEUE_DEPTH
    RetryPool,          \* RETRY_POOL
    InterviewAttempts,  \* INTERVIEW_MAX_ATTEMPTS
    ConfigAttempts      \* MAX_ATTEMPTS

CONSTANTS               \* bounds of the state space
    MaxAddress,         \* announces give addresses 1..MaxAddress
    MaxAnnounces, MaxUpdates,
    MaxUpsets           \* removals, requests of a user, flushes, timers that do not start

ASSUME LifecycleConstants ==
    /\ Nobody \notin Device /\ Supported \subseteq Device
    /\ {JoinDepth, UpdateDepth, ConfigDepth, RetryPool, InterviewAttempts, ConfigAttempts, MaxAddress} \subseteq Nat \ {0}
    /\ {MaxAnnounces, MaxUpdates, MaxUpsets} \subseteq Nat

VARIABLES
    known, dev,         \* the pool: its devices, and their records
    addr,               \* the address each device really has
    rx,                 \* the RX task inside on_tc_dev_ind
    joins,              \* s_join_queue
    iv,                 \* task_interview
    trig,               \* a task inside zigbee_interview_trigger
    updates, id,        \* the identity queue, task_identity
    configs, retries,   \* the configure queue, the busy retry timers of each device
    cf,                 \* task_configure
    counts,             \* the bounds' counters
    lost, lostCfg,      \* history: devices whose last join event, or configure request, was dropped,
    gone,               \* devices a user deleted and that were not announced since,
    overtaken           \* devices to which a task gives an address from before: it held one when they were
                        \*          announced, or queued one behind their last join event

pool  == <<known, dev>>
tasks == <<rx, joins, iv, trig, updates, id, configs, retries, cf>>
past  == <<lost, lostCfg, gone, overtaken>>
vars  == <<pool, addr, tasks, counts, past>>

-----------------------------------------------------------------------------
\* pool_add's zeroed record, in the fields that matter here.
Fresh == [nwk |-> 0, interview |-> "none", name |-> "blank", support |-> "unknown", configure |-> "pending", tries |-> 0]

Idle       == [pc |-> "idle", dev |-> Nobody]
Join(d, n) == [dev |-> d, nwk |-> n]

\* zhac_adapter_has_def: the model names a definition.
HasDef(d, name) == name = "full" /\ d \in Supported

Init ==
    /\ known = {} /\ dev = [d \in Device |-> Fresh] /\ addr = [d \in Device |-> 0]
    /\ rx = Idle /\ joins = <<>> /\ iv = Idle /\ trig = Idle
    /\ updates = <<>> /\ id = Idle
    /\ configs = <<>> /\ retries = [d \in Device |-> 0] /\ cf = Idle
    /\ counts = [announces |-> 0, updates |-> 0, upsets |-> 0]
    /\ lost = {} /\ lostCfg = {} /\ gone = {} /\ overtaken = {}

Count(what, max) == counts[what] < max /\ counts' = [counts EXCEPT ![what] = @ + 1]

-----------------------------------------------------------------------------
\* Announces: on_tc_dev_ind, the pool first, then the queue.  Addresses are only compared: the numbers go
\* to them in the order in which they are first given.

Announced(d, n) ==
    /\ rx = Idle /\ n <= counts.announces + 1 /\ Count("announces", MaxAnnounces)
    /\ addr' = [addr EXCEPT ![d] = n]
    /\ known' = known \cup {d}
    /\ dev' = [dev EXCEPT ![d] = [(IF d \in known THEN @ ELSE Fresh) EXCEPT !.nwk = n]]
    /\ rx' = [pc |-> "queue", dev |-> d, nwk |-> n]
    /\ gone' = gone \ {d}
    /\ overtaken' = IF iv.pc = "begin" /\ iv.dev = d THEN overtaken \cup {d} ELSE overtaken \ {d}
    /\ UNCHANGED <<joins, iv, trig, updates, id, configs, retries, cf, lost, lostCfg>>

\* The send waits for nothing.  With the queue full the oldest event makes room, if it is still there; and
\* the event itself is dropped when another task has taken that room before it.
Room == Len(joins) < JoinDepth

SendJoin ==
    /\ joins' = Append(joins, Join(rx.dev, rx.nwk)) /\ lost' = lost \ {rx.dev}
    /\ rx' = Idle

QueueJoin ==
    /\ rx.pc = "queue"
    /\ IF Room THEN SendJoin ELSE rx' = [rx EXCEPT !.pc = "evict"] /\ UNCHANGED <<joins, lost>>
    /\ UNCHANGED <<pool, addr, iv, trig, updates, id, configs, retries, cf, counts, lostCfg, gone, overtaken>>

DropOldest ==
    /\ rx.pc = "evict" /\ rx' = [rx EXCEPT !.pc = "again"]
    /\ IF joins = <<>> THEN UNCHANGED <<joins, lost>> ELSE joins' = Tail(joins) /\ lost' = lost \cup {Head(joins).dev}
    /\ UNCHANGED <<pool, addr, iv, trig, updates, id, configs, retries, cf, counts, lostCfg, gone, overtaken>>

QueueAgain ==
    /\ rx.pc = "again"
    /\ IF Room THEN SendJoin ELSE rx' = Idle /\ joins' = joins /\ lost' = lost \cup {rx.dev}
    /\ UNCHANGED <<pool, addr, iv, trig, updates, id, configs, retries, cf, counts, lostCfg, gone, overtaken>>

\* zigbee_interview_flush_join_queue, when the coordinator is started again.
FlushJoins ==
    /\ joins # <<>> /\ Count("upsets", MaxUpsets)
    /\ joins' = <<>> /\ lost' = lost \cup {joins[i].dev : i \in DOMAIN joins}
    /\ UNCHANGED <<pool, addr, rx, iv, trig, updates, id, configs, retries, cf, lostCfg, gone, overtaken>>

\* device_cmd_remove, hard: out of the pool; what the queues and tasks hold stays.
HardRemove(d) ==
    /\ d \in known /\ Count("upsets", MaxUpsets)
    /\ known' = known \ {d} /\ dev' = [dev EXCEPT ![d] = Fresh]
    /\ gone' = gone \cup {d}
    /\ UNCHANGED <<addr, tasks, lost, lostCfg, overtaken>>

-----------------------------------------------------------------------------
\* A new interview on demand: of a device that failed and is heard again, or of a user.

\* zcl_refresh_liveness: failed becomes none first, so one frame alone asks.
Heard(d) ==
    /\ d \in known /\ dev[d].interview = "failed" /\ trig = Idle
    /\ dev' = [dev EXCEPT ![d].interview = "none"]
    /\ trig' = [pc |-> "read", dev |-> d, nwk |-> 0]
    /\ UNCHANGED <<known, addr, rx, joins, iv, updates, id, configs, retries, cf, counts, past>>

Requested(d) ==
    /\ trig = Idle /\ Count("upsets", MaxUpsets)
    /\ trig' = [pc |-> "read", dev |-> d, nwk |-> 0]
    /\ UNCHANGED <<pool, addr, rx, joins, iv, updates, id, configs, retries, cf, past>>

TriggerRead ==
    /\ trig.pc = "read"
    /\ trig' = IF trig.dev \in known THEN [trig EXCEPT !.pc = "send", !.nwk = dev[trig.dev].nwk] ELSE Idle
    /\ UNCHANGED <<pool, addr, rx, joins, iv, updates, id, configs, retries, cf, counts, past>>

\* The queue may take it, or stay full for 100 ms.
TriggerSend ==
    /\ trig.pc = "send"
    /\ IF Len(joins) < JoinDepth
       THEN /\ joins' = Append(joins, Join(trig.dev, trig.nwk)) /\ lost' = lost \ {trig.dev}
            /\ overtaken' = IF trig.nwk = addr[trig.dev] THEN overtaken ELSE overtaken \cup {trig.dev}
       ELSE joins' = joins /\ lost' = lost \cup {trig.dev} /\ UNCHANGED overtaken
    /\ trig' = Idle
    /\ UNCHANGED <<pool, addr, rx, iv, updates, id, configs, retries, cf, counts, lostCfg, gone>>

-----------------------------------------------------------------------------
\* zigbee_configure_enqueue and schedule_retry.

Busy == FoldFunction(LAMBDA a, b : a + b, 0, retries)

Requeue(d) ==
    /\ IF Len(configs) < ConfigDepth
       THEN configs' = Append(configs, d) /\ lostCfg' = lostCfg \ {d}
       ELSE configs' = configs /\ lostCfg' = lostCfg \cup {d}
    /\ UNCHANGED retries

\* No free slot, or a timer that does not start: back into the queue at once.
ScheduleRetry(d) ==
    \/ /\ Busy < RetryPool
       /\ retries' = [retries EXCEPT ![d] = @ + 1] /\ lostCfg' = lostCfg \ {d}
       /\ UNCHANGED <<configs, counts>>
    \/ Busy = RetryPool /\ Requeue(d) /\ UNCHANGED counts
    \/ Busy < RetryPool /\ Count("upsets", MaxUpsets) /\ Requeue(d)

EnqueueConfigure(d) ==
    IF Len(configs) < ConfigDepth THEN Requeue(d) /\ UNCHANGED counts ELSE ScheduleRetry(d)

\* retry_timer_cb, in the timer service.
RetryFires(d) ==
    /\ retries[d] > 0 /\ retries' = [retries EXCEPT ![d] = @ - 1]
    /\ IF Len(configs) < ConfigDepth
       THEN configs' = Append(configs, d) /\ UNCHANGED lostCfg
       ELSE configs' = configs /\ lostCfg' = lostCfg \cup {d}
    /\ UNCHANGED <<pool, addr, rx, joins, iv, trig, updates, id, cf, counts, lost, gone, overtaken>>

-----------------------------------------------------------------------------
\* task_interview.

\* A device interviewed before is only given its address and configured again.
Rejoined(d, n) ==
    [dev[d] EXCEPT !.nwk = IF n # 0 THEN n ELSE @,
                   !.configure = IF @ = "done" THEN "pending" ELSE @,
                   !.tries = IF dev[d].configure = "done" THEN 0 ELSE @]

Receive ==
    /\ iv.pc = "idle" /\ joins # <<>>
    /\ joins' = Tail(joins)
    /\ LET d == Head(joins).dev
           n == Head(joins).nwk
       IN  IF d \in known /\ dev[d].interview = "ready"
           THEN /\ dev' = [dev EXCEPT ![d] = Rejoined(d, n)]
                /\ iv' = [pc |-> "enqueue", dev |-> d]
           ELSE /\ iv' = [pc |-> "attempt", dev |-> d, nwk |-> n, attempt |-> 1]
                /\ UNCHANGED dev
    /\ UNCHANGED <<known, addr, rx, trig, updates, id, configs, retries, cf, counts, past>>

\* The address an attempt uses: the pool's, or else the event's.
ReadNwk ==
    /\ iv.pc = "attempt"
    /\ iv' = [pc |-> "begin", dev |-> iv.dev, nwk |-> iv.nwk, attempt |-> iv.attempt,
              use |-> IF iv.dev \in known /\ dev[iv.dev].nwk # 0 THEN dev[iv.dev].nwk ELSE iv.nwk]
    /\ UNCHANGED <<pool, addr, rx, joins, trig, updates, id, configs, retries, cf, counts, past>>

\* The attempt takes its copy of the record, which it makes when there is none.
Begin ==
    /\ iv.pc = "begin"
    /\ LET d == iv.dev
           r == IF d \in known THEN dev[d] ELSE Fresh
       IN  /\ known' = known \cup {d}
           /\ dev' = [dev EXCEPT ![d] = [r EXCEPT !.nwk = iv.use, !.interview = "none", !.configure = "pending", !.tries = 0]]
           /\ iv' = [pc |-> "ask", dev |-> d, nwk |-> iv.nwk, attempt |-> iv.attempt]
    /\ UNCHANGED <<addr, rx, joins, trig, updates, id, configs, retries, cf, counts, past>>

\* The descriptors, then the Basic cluster.  Without a node descriptor the attempt failed; an
\* empty list of endpoints fails the interview; an unread name leaves the identity pending.
Answers == {[interview |-> "failed", name |-> "blank"], [interview |-> "pending", name |-> "blank"],
            [interview |-> "ready", name |-> "maker"], [interview |-> "ready", name |-> "full"]}

Ask ==
    /\ iv.pc = "ask"
    /\ \/ iv' = [pc |-> "failed", dev |-> iv.dev, nwk |-> iv.nwk, attempt |-> iv.attempt]
       \/ \E a \in Answers : iv' = [pc |-> "commit", dev |-> iv.dev, got |-> a]
    /\ UNCHANGED <<pool, addr, rx, joins, trig, updates, id, configs, retries, cf, counts, past>>

\* The outcome goes into the record field by field, when there still is one, unless a late
\* identity was found meanwhile.
Outcome(r) ==
    IF iv.got.interview = "pending" /\ r.interview = "ready" THEN r
    ELSE [r EXCEPT !.interview = iv.got.interview, !.name = iv.got.name, !.configure = "pending", !.tries = 0,
                   !.support = IF HasDef(iv.dev, iv.got.name) THEN "matched" ELSE "unmatched"]

Committed == dev' = [dev EXCEPT ![iv.dev] = Outcome(@)] /\ UNCHANGED known

Commit ==
    /\ iv.pc = "commit"
    /\ IF iv.dev \in known
       THEN /\ Committed
            /\ iv' = IF dev'[iv.dev].support = "matched" /\ dev'[iv.dev].configure # "done"
                     THEN [pc |-> "enqueue", dev |-> iv.dev] ELSE Idle
       ELSE iv' = Idle /\ UNCHANGED pool
    /\ UNCHANGED <<addr, rx, joins, trig, updates, id, configs, retries, cf, counts, past>>

InterviewEnqueue ==
    /\ iv.pc = "enqueue" /\ EnqueueConfigure(iv.dev) /\ iv' = Idle
    /\ UNCHANGED <<pool, addr, rx, joins, trig, updates, id, cf, lost, gone, overtaken>>

\* The last attempt stamps the failure; the others sleep.
Unstamped(d) == FALSE   \* mutant
StampFailed(d) == d \in known /\ dev[d].interview # "ready"

AttemptFailed ==
    /\ iv.pc = "failed"
    /\ IF iv.attempt < InterviewAttempts
       THEN iv' = [iv EXCEPT !.pc = "sleep"] /\ UNCHANGED dev
       ELSE /\ iv' = Idle
            /\ dev' = IF StampFailed(iv.dev) THEN [dev EXCEPT ![iv.dev].interview = "failed"] ELSE dev
    /\ UNCHANGED <<known, addr, rx, joins, trig, updates, id, configs, retries, cf, counts, past>>

\* After the sleep a device that waits comes first: this one goes back to the tail.
Verbatim(d, n) == Join(d, n)   \* mutant
Again(d, n) == Join(d, 0)

Yield(d) ==
    IF Len(joins) < JoinDepth
    THEN joins' = Append(joins, Again(d, iv.nwk)) /\ UNCHANGED lost
    ELSE joins' = joins /\ lost' = lost \cup {d}

Wake ==
    /\ iv.pc = "sleep"
    /\ IF joins # <<>>
       THEN Yield(iv.dev) /\ iv' = Idle
       ELSE /\ iv' = [pc |-> "attempt", dev |-> iv.dev, nwk |-> iv.nwk, attempt |-> iv.attempt + 1]
            /\ UNCHANGED <<joins, lost>>
    /\ UNCHANGED <<pool, addr, rx, trig, updates, id, configs, retries, cf, counts, lostCfg, gone, overtaken>>

-----------------------------------------------------------------------------
\* task_identity: a name told by the device itself, found by its address.

Told(d, name) ==
    /\ addr[d] # 0 /\ Count("updates", MaxUpdates)
    /\ updates' = IF Len(updates) < UpdateDepth THEN Append(updates, [nwk |-> addr[d], name |-> name]) ELSE updates
    /\ UNCHANGED <<pool, addr, rx, joins, iv, trig, id, configs, retries, cf, past>>

Named(old, told) == IF old = "full" THEN old ELSE told

Applied(r, told) ==
    [r EXCEPT !.name = Named(@, told), !.interview = IF @ = "pending" THEN "ready" ELSE @]

UpdateDropped == \A d \in known : dev[d].nwk # Head(updates).nwk

Apply ==
    /\ id.pc = "idle" /\ updates # <<>>
    /\ updates' = Tail(updates)
    /\ \/ UpdateDropped /\ UNCHANGED <<dev, id>>
       \/ \E d \in known :
             LET r == Applied(dev[d], Head(updates).name)
             IN  /\ dev[d].nwk = Head(updates).nwk
                 /\ dev' = [dev EXCEPT ![d] = r]
                 /\ id' = IF r # dev[d] /\ r.support # "matched"
                          THEN [pc |-> "look", dev |-> d, support |-> r.support] ELSE Idle
    /\ UNCHANGED <<known, addr, rx, joins, iv, trig, configs, retries, cf, counts, past>>

Verdict(d) == IF HasDef(d, dev[d].name) THEN "matched" ELSE "unmatched"

\* The matcher works on a second copy; no definition, as before, is no news.
Look ==
    /\ id.pc = "look"
    /\ id' = IF id.dev \notin known \/ (Verdict(id.dev) = "unmatched" /\ id.support = "unmatched") THEN Idle
             ELSE [pc |-> "write", dev |-> id.dev, support |-> Verdict(id.dev)]
    /\ UNCHANGED <<pool, addr, rx, joins, iv, trig, updates, configs, retries, cf, counts, past>>

Rematched(r, support, again) ==
    [r EXCEPT !.support = support,
              !.configure = IF again THEN "pending" ELSE @,
              !.tries = IF again /\ support = "matched" THEN 0 ELSE @]

WriteVerdict ==
    /\ id.pc = "write"
    /\ LET d == id.dev
           again == id.support = "unmatched" \/ dev[d].configure # "done"
       IN  IF d \in known
           THEN /\ dev' = [dev EXCEPT ![d] = Rematched(@, id.support, again)]
                /\ id' = IF again /\ id.support = "matched" THEN [pc |-> "enqueue", dev |-> d] ELSE Idle
           ELSE id' = Idle /\ UNCHANGED dev
    /\ UNCHANGED <<known, addr, rx, joins, iv, trig, updates, configs, retries, cf, counts, past>>

IdentityEnqueue ==
    /\ id.pc = "enqueue" /\ EnqueueConfigure(id.dev) /\ id' = Idle
    /\ UNCHANGED <<pool, addr, rx, joins, iv, trig, updates, cf, lost, gone, overtaken>>

-----------------------------------------------------------------------------
\* task_configure.

Take ==
    /\ cf.pc = "idle" /\ configs # <<>>
    /\ configs' = Tail(configs)
    /\ LET d == Head(configs)
       IN  cf' = IF d \notin known \/ dev[d].configure = "done" \/ dev[d].support # "matched" THEN Idle
                 ELSE [pc |-> IF HasDef(d, dev[d].name) THEN "mark" ELSE "downgrade", dev |-> d, tries |-> dev[d].tries]
    /\ UNCHANGED <<pool, addr, rx, joins, iv, trig, updates, id, retries, counts, past>>

Downgrade ==
    /\ cf.pc = "downgrade" /\ cf' = Idle
    /\ dev' = IF cf.dev \in known THEN [dev EXCEPT ![cf.dev].support = "unmatched", ![cf.dev].configure = "pending"] ELSE dev
    /\ UNCHANGED <<known, addr, rx, joins, iv, trig, updates, id, configs, retries, counts, past>>

Mark ==
    /\ cf.pc = "mark" /\ cf' = [cf EXCEPT !.pc = "run"]
    /\ dev' = IF cf.dev \in known THEN [dev EXCEPT ![cf.dev].configure = "progress"] ELSE dev
    /\ UNCHANGED <<known, addr, rx, joins, iv, trig, updates, id, configs, retries, counts, past>>

\* The steps were sent, or one failed: another attempt follows, up to the last.
GivesUp(tries) == tries >= ConfigAttempts

Finish(ok) ==
    /\ cf.pc = "run"
    /\ LET tries == IF ok THEN 0 ELSE cf.tries + 1
       IN  /\ dev' = IF cf.dev \in known
                     THEN [dev EXCEPT ![cf.dev].configure = IF ok THEN "done" ELSE "failed", ![cf.dev].tries = tries] ELSE dev
           /\ cf' = IF ok \/ GivesUp(tries) THEN Idle ELSE [pc |-> "retry", dev |-> cf.dev, tries |-> tries]
    /\ UNCHANGED <<known, addr, rx, joins, iv, trig, updates, id, configs, retries, counts, past>>

Retry ==
    /\ cf.pc = "retry" /\ ScheduleRetry(cf.dev) /\ cf' = Idle
    /\ UNCHANGED <<pool, addr, rx, joins, iv, trig, updates, id, lost, gone, overtaken>>

-----------------------------------------------------------------------------
Next ==
    \/ \E d \in Device : \/ \E n \in 1..MaxAddress : Announced(d, n)
                         \/ HardRemove(d) \/ Heard(d) \/ Requested(d) \/ RetryFires(d)
                         \/ \E name \in {"maker", "full"} : Told(d, name)
    \/ QueueJoin \/ DropOldest \/ QueueAgain \/ FlushJoins \/ TriggerRead \/ TriggerSend
    \/ Receive \/ ReadNwk \/ Begin \/ Ask \/ Commit \/ InterviewEnqueue \/ AttemptFailed \/ Wake
    \/ Apply \/ Look \/ WriteVerdict \/ IdentityEnqueue
    \/ Take \/ Downgrade \/ Mark \/ (\E ok \in BOOLEAN : Finish(ok)) \/ Retry

Spec == Init /\ [][Next]_vars

-----------------------------------------------------------------------------
\* A join event of d is on its way to the interview task, or the task is at work on it.
Expected(d) ==
    \/ rx.dev = d \/ trig.dev = d \/ (iv.dev = d /\ iv.pc # "enqueue")
    \/ \E i \in DOMAIN joins : joins[i].dev = d

\* A device that was announced and not yet interviewed does not fall between the tasks: its
\* join event is queued or in a task's hands, or the queue was full or flushed; when the
\* attempts are used up it is stamped failed, which the next frame it sends finds.
NotStranded == \A d \in known : dev[d].interview = "none" => Expected(d) \/ d \in lost

\* A matched device that is not configured, and whose attempts are not used up, has a request
\* in the queue, a retry timer, or a task that is about to ask: neither the worker's
\* de-duplication, nor a full queue, nor an exhausted timer pool forgets it.
ConfigureNotForgotten ==
    \A d \in known :
        \/ dev[d].support # "matched" \/ dev[d].interview # "ready" \/ dev[d].configure = "done"
        \/ dev[d].configure = "failed" /\ dev[d].tries >= ConfigAttempts
        \/ retries[d] > 0 \/ (\E i \in DOMAIN configs : configs[i] = d) \/ d \in lostCfg
        \/ cf.dev = d \/ (iv.dev = d /\ iv.pc = "enqueue") \/ (id.dev = d /\ id.pc = "enqueue")

\* No device the hub knows is left without what is to come for it.
NothingDropped == NotStranded /\ ConfigureNotForgotten

\* The pool has the address a device announced last, or an event with that address is still
\* to be served: no stale event moves a live device back to an address it has left.
AddressFresh ==
    \A d \in known \ gone :
        \/ dev[d].nwk = addr[d] \/ d \in lost \cup overtaken
        \/ rx.dev = d \/ \E i \in DOMAIN joins : joins[i] = Join(d, addr[d])
=============================================================================
