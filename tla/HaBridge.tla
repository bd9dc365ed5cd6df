------------------------------ MODULE HaBridge ------------------------------
(***************************************************************************)
(* The Home Assistant bridge, components/ha_bridge/ha_bridge.cpp: what it  *)
(* publishes, records and retracts for each device while settings, devices *)
(* and the broker change around it.                                        *)
(*                                                                         *)
(* Posts to its queue, calls of the settings and each publish of its task  *)
(* are steps.  A topic is the prefix it lies under and the entity it       *)
(* configures; the hub's own entity is a device that is always there.      *)
(* A publish that the gateway takes reaches the broker, which keeps it     *)
(* (mqtt_gw is modelled in MqttGateway).                                   *)
(***************************************************************************)
EXTENDS Naturals, Sequences, FiniteSets

CONSTANTS
    Device, Hub,        \* devices of the pool, and the hub
    Prefix, Entity,     \* discovery prefixes; what a device may expose
    Shapes,             \* sets of entities that a device may have
    Passive,            \* battery devices: they have an availability topic
    Length, Room,       \* what a topic under a prefix takes of the record of a device, and Collect::buf
    Depth               \* kQueueDepth

CONSTANTS MaxCalls, MaxBreaks       \* bounds: calls of others, connections that break

VARIABLES
    pool,       \* what each device exposes now, empty when it is not there
    conf,       \* s_enabled, s_prefix
    caller,     \* ha_bridge_configure
    queue,      \* s_q
    task,       \* the bridge's task: its step, devices to come, the one in hand
    was,        \* was_connected
    pub,        \* s_pub and s_bridge_topic: the topics recorded, and whether the device was told offline
    up,         \* mqtt_gw_is_connected
    broker,     \* retained config topics and availability
    silent,     \* passive devices not heard for kPassiveSilenceS
    counts,     \* the bounds' counters
    excused     \* history: left - retained topics whose record or retraction failed, or that were published by an op
                \*          overtaken by the settings; dropped - those of entities that a device had when it was
                \*          published and no longer had at the next time; lost - a full queue, a config given up;
                \*          flap - a break not noticed

vars == <<pool, conf, caller, queue, task, was, pub, up, broker, silent, counts, excused>>

None == "none"
Idle == [pc |-> "idle"]
All  == Device \cup {Hub}
Blank == [topics |-> {}, passive |-> FALSE, offline |-> FALSE]

Topics(d, ts) == {<<d, t>> : t \in ts}

Init ==
    /\ pool \in [All -> Shapes \cup {{}}] /\ pool[Hub] = {CHOOSE e \in Entity : TRUE}
    /\ conf \in [enabled : BOOLEAN, prefix : Prefix]
    /\ caller = Idle /\ queue = <<>> /\ task = Idle /\ was = FALSE /\ up = FALSE
    /\ pub = [d \in All |-> Blank]
    /\ broker = [topics |-> {}, avail |-> [d \in Device |-> None]]
    /\ silent = {} /\ counts = [calls |-> 0, breaks |-> 0]
    /\ excused = [left |-> {}, dropped |-> {}, lost |-> FALSE, flap |-> FALSE]

Call  == counts.calls < MaxCalls /\ counts' = [counts EXCEPT !.calls = @ + 1]
Break == counts.breaks < MaxBreaks /\ counts' = [counts EXCEPT !.breaks = @ + 1]

\* post: nothing waits for room.
Post(m) ==
    IF Len(queue) < Depth THEN queue' = Append(queue, m) /\ UNCHANGED excused
    ELSE UNCHANGED queue /\ excused' = [excused EXCEPT !.lost = TRUE]

Msg(op)       == [op |-> op, dev |-> Hub]
DevMsg(op, d) == [op |-> op, dev |-> d]

-----------------------------------------------------------------------------
\* ha_bridge_configure: retract under the old settings, move, publish under the new.
Configure(enabled, prefix) ==
    /\ caller = Idle /\ Call
    /\ caller' = [pc |-> "retract", enabled |-> enabled, prefix |-> prefix]
    /\ UNCHANGED <<pool, conf, queue, task, was, pub, up, broker, silent, excused>>

OnlyWhenOff  == conf.enabled /\ ~caller.enabled   \* mutant
NeedsRetract == conf.enabled /\ (~caller.enabled \/ caller.prefix # conf.prefix)

PostRetract ==
    /\ caller.pc = "retract" /\ caller' = [caller EXCEPT !.pc = "move"]
    /\ IF NeedsRetract THEN Post(Msg("retract")) ELSE UNCHANGED <<queue, excused>>
    /\ UNCHANGED <<pool, conf, task, was, pub, up, broker, silent, counts>>

Move ==
    /\ caller.pc = "move" /\ caller' = [caller EXCEPT !.pc = "republish"]
    /\ conf' = [enabled |-> caller.enabled, prefix |-> caller.prefix]
    /\ UNCHANGED <<pool, queue, task, was, pub, up, broker, silent, counts, excused>>

PostRepublish ==
    /\ caller.pc = "republish" /\ caller' = Idle
    /\ IF caller.enabled THEN Post(Msg("republish")) ELSE UNCHANGED <<queue, excused>>
    /\ UNCHANGED <<pool, conf, task, was, pub, up, broker, silent, counts>>

\* An op that runs ahead of the retraction, or between it and the new settings.
Moving == caller.pc = "move" \/ \E i \in DOMAIN queue : queue[i].op = "retract"

-----------------------------------------------------------------------------
\* The rest of the hub: a device joins, is interviewed anew, or leaves; a command comes in.

DeviceChanged(d, shape) ==
    /\ Call /\ pool' = [pool EXCEPT ![d] = shape]
    /\ IF conf.enabled THEN Post(DevMsg("device", d)) ELSE UNCHANGED <<queue, excused>>
    /\ UNCHANGED <<conf, caller, task, was, pub, up, broker, silent>>

DeviceRemoved(d) ==
    /\ pool[d] # {} /\ Call /\ pool' = [pool EXCEPT ![d] = {}]
    /\ Post(DevMsg("removed", d))
    /\ UNCHANGED <<conf, caller, task, was, pub, up, broker, silent>>

OnMqttRx ==
    /\ conf.enabled /\ up /\ Call /\ Len(queue) < Depth
    /\ queue' = Append(queue, Msg("command"))
    /\ UNCHANGED <<pool, conf, caller, task, was, pub, up, broker, silent, excused>>

\* ha_bridge_publish_state, and the time that passes without it.
PublishState(d) ==
    /\ conf.enabled /\ up /\ d \in silent /\ silent' = silent \ {d}
    /\ UNCHANGED <<pool, conf, caller, queue, task, was, pub, up, broker, counts, excused>>

FallsSilent(d) ==
    /\ d \in Passive \ silent /\ pub[d].passive /\ Call /\ silent' = silent \cup {d}
    /\ UNCHANGED <<pool, conf, caller, queue, task, was, pub, up, broker, excused>>

\* The connection, and a broker that may have lost what it kept.
Connects ==
    /\ ~up /\ up' = TRUE /\ excused' = [excused EXCEPT !.flap = @ \/ was]
    /\ UNCHANGED <<pool, conf, caller, queue, task, was, pub, broker, silent, counts>>

Breaks(restarted) ==
    /\ up /\ Break /\ up' = FALSE
    /\ broker' = IF restarted THEN [topics |-> {}, avail |-> [d \in Device |-> None]] ELSE broker
    /\ UNCHANGED <<pool, conf, caller, queue, task, was, pub, silent, excused>>

-----------------------------------------------------------------------------
\* The task.  republish_all, or what follows an op without it: the look at the connection.
Publishing(todo) == [pc |-> "next", todo |-> todo, early |-> Moving]
After(t) == IF t.todo = {} THEN [pc |-> "poll"] ELSE t
Republish == IF conf.enabled /\ up THEN Publishing(All) ELSE [pc |-> "poll"]

Recorded == {d \in All : pub[d] # Blank}
Retracting(todo) == After([pc |-> "retract", todo |-> todo, tried |-> {}])

Handled(m) ==
    CASE m.op = "republish" -> Republish
      [] m.op = "retract"   -> Retracting(Recorded)
      [] m.op = "removed"   -> Retracting(Recorded \cap {m.dev})
      [] m.op = "device"    -> IF conf.enabled /\ up /\ pool[m.dev] # {} THEN Publishing({m.dev}) ELSE [pc |-> "poll"]
      [] m.op = "command"   -> [pc |-> "poll"]

Fresh(t) == [excused EXCEPT !.flap = IF t.pc = "next" /\ t.todo = All THEN FALSE ELSE @]

Receive ==
    /\ task = Idle /\ queue # <<>> /\ queue' = Tail(queue)
    /\ task' = Handled(Head(queue)) /\ excused' = Fresh(task')
    /\ UNCHANGED <<pool, conf, caller, was, pub, up, broker, silent, counts>>

\* tick_availability.
Flips == {d \in Passive : pub[d].passive /\ pub[d].offline # (d \in silent)}

Tick ==
    IF conf.enabled /\ up
    THEN /\ pub' = [d \in All |-> IF d \in Flips THEN [pub[d] EXCEPT !.offline = ~@] ELSE pub[d]]
         /\ broker' = [broker EXCEPT !.avail = [d \in Device |-> IF d \notin Flips THEN @[d]
                                                                ELSE IF d \in silent THEN "offline" ELSE "online"]]
    ELSE UNCHANGED <<pub, broker>>

\* After an op, or after a second without one: a connection that is back has everything published.
Edge   == up /\ ~was

Poll ==
    /\ task.pc = "poll" \/ (task = Idle /\ queue = <<>> /\ (was # up \/ Flips # {}))
    /\ was' = up
    /\ IF Edge /\ conf.enabled THEN task' = Publishing(All) /\ UNCHANGED <<pub, broker>> ELSE task' = Idle /\ Tick
    /\ excused' = Fresh(task')
    /\ UNCHANGED <<pool, conf, caller, queue, up, silent, counts>>

\* publish_device, and publish_bridge before it, which looks at nothing: a device that is gone or the
\* settings' end skip it.
Skips(d)   == d # Hub /\ (~conf.enabled \/ pool[d] = {})
NextOf(S)  == IF Hub \in S THEN {Hub} ELSE S

Begin ==
    /\ task.pc = "next" /\ task.todo # {}
    /\ \E d \in NextOf(task.todo) :
          task' = IF Skips(d) THEN After([task EXCEPT !.todo = @ \ {d}])
                  ELSE [pc |-> "entity", todo |-> task.todo \ {d}, early |-> task.early \/ Moving,
                        dev |-> d, left |-> pool[d], got |-> {}, room |-> Room, failed |-> FALSE]
    /\ UNCHANGED <<pool, conf, caller, queue, was, pub, up, broker, silent, counts, excused>>

Published(d, t) == [broker EXCEPT !.topics = @ \cup {<<d, t>>}]

\* One config of ha::build_device.  The gateway may be full for two seconds: it is given up.  One that
\* is published and has no room in the record any more is not recorded.
Entity1(gaveUp) ==
    /\ task.pc = "entity" /\ task.left # {}
    /\ LET e == CHOOSE x \in task.left : TRUE
           t == <<conf.prefix, e>>
           done == up /\ ~gaveUp
           fits == task.dev = Hub \/ Length[conf.prefix] <= task.room
       IN  /\ gaveUp => up
           /\ task' = [task EXCEPT !.left = @ \ {e}, !.got = IF done /\ fits THEN @ \cup {t} ELSE @,
                                    !.room = IF done /\ fits THEN @ - Length[conf.prefix] ELSE @,
                                    !.early = @ \/ Moving, !.failed = @ \/ ~done]
           /\ broker' = IF done THEN Published(task.dev, t) ELSE broker
           /\ excused' = [excused EXCEPT !.lost = @ \/ gaveUp,
                                         !.left = IF done /\ (task'.early \/ ~fits) THEN @ \cup {<<task.dev, t>>} ELSE @]
    /\ IF gaveUp THEN Break ELSE UNCHANGED counts
    /\ UNCHANGED <<pool, conf, caller, queue, was, pub, up, silent>>

\* The record takes the place of the old one, the hub's only when something was published.
Topics2(d)  == IF d = Hub /\ task.got = {} THEN pub[d].topics ELSE task.got

\* What only the old one had: the settings overtook it or its publish failed; or, under a prefix that is
\* the same, the device has it no longer.  Nothing of it is retracted.
Unrecorded(d) == pub[d].topics \ Topics2(d)
Overtaken     == task.early \/ Moving \/ task.failed
Forgotten(d)  == IF Overtaken THEN Unrecorded(d) ELSE {}
Dropped(d)    == IF Overtaken THEN {} ELSE {t \in Unrecorded(d) : t[1] = conf.prefix}

Record ==
    /\ task.pc = "entity" /\ task.left = {}
    /\ LET d == task.dev
           passive == d \in Passive
       IN  /\ pub' = [pub EXCEPT ![d] = [topics |-> Topics2(d), passive |-> passive, offline |-> passive /\ d \in silent]]
           /\ broker' = IF passive /\ up THEN [broker EXCEPT !.avail[d] = IF d \in silent THEN "offline" ELSE "online"] ELSE broker
           /\ excused' = [excused EXCEPT !.left = @ \cup Topics(d, Forgotten(d)),
                                         !.dropped = (@ \cup Topics(d, Dropped(d))) \ Topics(d, Topics2(d))]
    /\ task' = After([pc |-> "next", todo |-> task.todo, early |-> task.early])
    /\ UNCHANGED <<pool, conf, caller, queue, was, up, silent, counts>>

\* retract_device: each topic recorded, which may be given up; then the availability, and the record
\* goes whether they could be published or not.
InHand  == CHOOSE d \in NextOf(task.todo) : TRUE
Untried == pub[InHand].topics \ task.tried

RetractTopic(gaveUp) ==
    /\ task.pc = "retract" /\ Untried # {}
    /\ LET t == CHOOSE x \in Untried : TRUE
           x == {<<InHand, t>>}
           done == up /\ ~gaveUp
       IN  /\ gaveUp => up
           /\ task' = [task EXCEPT !.tried = @ \cup {t}]
           /\ broker' = IF done THEN [broker EXCEPT !.topics = @ \ x] ELSE broker
           /\ excused' = [excused EXCEPT !.left = IF done THEN @ \ x ELSE @ \cup x]
    /\ IF gaveUp THEN Break ELSE UNCHANGED counts
    /\ UNCHANGED <<pool, conf, caller, queue, was, pub, up, silent>>

Retract ==
    /\ task.pc = "retract" /\ Untried = {}
    /\ task' = Retracting(task.todo \ {InHand})
    /\ pub' = [pub EXCEPT ![InHand] = Blank]
    /\ broker' = IF up /\ pub[InHand].passive THEN [broker EXCEPT !.avail[InHand] = None] ELSE broker
    /\ silent' = silent \ {InHand}
    /\ UNCHANGED <<pool, conf, caller, queue, was, up, counts, excused>>

-----------------------------------------------------------------------------
Next ==
    \/ (\E en \in BOOLEAN, p \in Prefix : Configure(en, p)) \/ PostRetract \/ Move \/ PostRepublish
    \/ (\E d \in Device : \/ \E s \in Shapes : DeviceChanged(d, s)
                          \/ DeviceRemoved(d) \/ PublishState(d) \/ FallsSilent(d))
    \/ OnMqttRx \/ Connects \/ (\E r \in BOOLEAN : Breaks(r))
    \/ Receive \/ Poll \/ Begin \/ (\E g \in BOOLEAN : Entity1(g) \/ RetractTopic(g)) \/ Record \/ Retract

Spec == Init /\ [][Next]_vars

-----------------------------------------------------------------------------
Quiet == task = Idle /\ queue = <<>> /\ caller = Idle /\ up /\ was /\ ~excused.lost /\ ~excused.flap

Wanted ==
    IF conf.enabled THEN UNION {{<<d, <<conf.prefix, e>>>> : e \in pool[d]} : d \in All} ELSE {}

\* Home Assistant is left no entity of a device, a prefix or a bridge that is gone, but for those that
\* the bridge could not retract or record (the broker away, the gateway or the record full), that the
\* settings overtook, or that the device itself stopped having: a device published anew replaces its
\* record, and an entity that is in the old record only is retracted never again.
NoGhosts == Quiet => broker.topics \subseteq Wanted \cup excused.left \cup excused.dropped

\* Every device is there under the current prefix, whatever broke or changed while it was published,
\* but for a connection that broke and came back between two looks at it.
AllPresent == Quiet => Wanted \subseteq broker.topics

\* A battery device is shown as it was last heard.
AvailabilityTrue ==
    Quiet /\ conf.enabled /\ Flips = {} =>
        \A d \in Passive : pool[d] # {} => broker.avail[d] = IF d \in silent THEN "offline" ELSE "online"

\* Home Assistant sees the devices that are there, as they are.
DevicesShown == AllPresent /\ AvailabilityTrue
=============================================================================
