---------------------------- MODULE MqttGateway -----------------------------
(***************************************************************************)
(* The MQTT client of the hub and who starts and stops it:                 *)
(* components/mqtt_gw/mqtt_gw_s3.cpp, and the settings of mqtt_gw_cfg.cpp. *)
(*                                                                         *)
(* A section under s_client_mtx is one step, except that of a subscribe,   *)
(* which the client's own task may interleave: its event handler takes no  *)
(* lock.  Whoever stops a client waits until that handler has returned.    *)
(* The broker keeps a client's subscriptions for one connection, and       *)
(* publishes its will when a connection breaks, not when it is closed.     *)
(***************************************************************************)
EXTENDS Naturals, Sequences

CONSTANTS
    Url, Root, Filter,  \* broker addresses, root topics, subscription filters
    Request,            \* requests to mqtt_gw_cfg_apply: root, url and enabled ("yes", "no"), each or None
    MaxFails,           \* MQTT_MAX_FAILS
    Depth               \* MQTT_PUBQ_DEPTH

None == "none"

ASSUME GatewayConstants ==
    Request \subseteq [root : Root \cup {None}, url : Url \cup {None}, enabled : {"yes", "no", None}]

CONSTANTS               \* bounds of the state space
    MaxCalls,           \* calls of settings, of the network, of publishers
    MaxBreaks           \* connections that break or fail, clients that cannot be created

VARIABLES
    stored,     \* NVS: enabled, broker_url
    gw,         \* s_enabled, s_connected, s_fail_count, s_broker_url, s_root_topic, s_sub_filter
    client,     \* s_client: None, or its will, whether it is connected, and its handler's step
    pubq,       \* s_pubq
    worker,     \* mqtt_pub_worker: whether it has just destroyed a client
    timer,      \* mqtt_start and mqtt_rearm: armed or not
    web,        \* mqtt_gw_cfg_apply
    net,        \* mqtt_gw_on_sta_up
    subscriber, \* mqtt_gw_subscribe
    broker,     \* retained availability of each root topic, and the subscriptions of this connection
    counts,     \* the bounds' counters
    excused     \* history: left - root topics last told online by a connection that was closed, or whose root topic moved;
                \*          crossed - the handler subscribed in the middle of a subscribe; net - the network has been up;
                \*          failed - the last client could not be created

vars == <<stored, gw, client, pubq, worker, timer, web, net, subscriber, broker, counts, excused>>

Idle == [pc |-> "idle"]

\* mqtt_gw_cfg_boot: enabled or not, with an address or without.
Init ==
    /\ stored \in [enabled : BOOLEAN, url : Url \cup {None}]
    /\ \E r \in Root :
          gw = [enabled |-> stored.enabled /\ stored.url # None, connected |-> FALSE, fails |-> 0,
                url |-> IF stored.enabled THEN stored.url ELSE None, root |-> r, filter |-> None]
    /\ client = Idle /\ pubq = <<>> /\ worker = "idle"
    /\ timer = [start |-> FALSE, rearm |-> FALSE]
    /\ web = Idle /\ net = Idle /\ subscriber = Idle
    /\ broker = [avail |-> [r \in Root |-> None], subs |-> {}]
    /\ counts = [calls |-> 0, breaks |-> 0]
    /\ excused = [left |-> {}, crossed |-> FALSE, net |-> FALSE, failed |-> FALSE]

Call  == counts.calls < MaxCalls /\ counts' = [counts EXCEPT !.calls = @ + 1]
Break == counts.breaks < MaxBreaks /\ counts' = [counts EXCEPT !.breaks = @ + 1]

Runs == client # Idle

-----------------------------------------------------------------------------
\* Sections under s_client_mtx.

Free     == subscriber.pc \notin {"set", "sub"}
Joinable == Runs => client.pc = "wait"

\* esp_mqtt_client_stop and destroy: the connection is closed, no event tells of it.
Closed == [broker EXCEPT !.subs = {}]
Leaves(failed) ==
    excused' = [excused EXCEPT !.left = IF Runs /\ client.up THEN @ \cup {r \in Root : broker.avail[r] = "online"} ELSE @,
                               !.crossed = FALSE, !.failed = failed]

Destroy == /\ Free /\ Joinable
           /\ client' = Idle /\ broker' = Closed /\ Leaves(FALSE)

\* restart_client_locked: without an address there is no client, and one may not be created.
Fresh(root) == [pc |-> "wait", up |-> FALSE, will |-> root]

Restart(url) ==
    /\ Free /\ Joinable /\ broker' = Closed
    /\ \/ client' = (IF url = None THEN Idle ELSE Fresh(gw.root)) /\ Leaves(FALSE) /\ UNCHANGED counts
       \/ url # None /\ Break /\ client' = Idle /\ Leaves(TRUE)

\* mqtt_gw_start.
Start ==
    /\ Call /\ Free
    /\ IF Runs THEN UNCHANGED <<gw, client>>
       ELSE gw' = [gw EXCEPT !.fails = 0] /\ client' = IF gw.url = None THEN Idle ELSE Fresh(gw.root)
    /\ UNCHANGED <<stored, pubq, worker, timer, web, net, subscriber, broker, excused>>

\* mqtt_gw_set_client_id and mqtt_gw_set_tls_pin: a client that runs starts anew.
Credentials ==
    /\ Runs /\ web = Idle /\ Restart(gw.url)
    /\ UNCHANGED <<stored, gw, pubq, worker, timer, web, net, subscriber>>

\* deferred_mqtt_start_cb and mqtt_rearm_cb.
MayStart == gw.enabled /\ gw.url # None /\ ~Runs

Deferred ==
    /\ timer.start /\ timer' = [timer EXCEPT !.start = FALSE]
    /\ IF MayStart THEN Restart(gw.url) /\ gw' = [gw EXCEPT !.fails = 0]
       ELSE Free /\ UNCHANGED <<gw, client, broker, counts, excused>>
    /\ UNCHANGED <<stored, pubq, worker, web, net, subscriber>>

Rearm ==
    /\ timer.rearm /\ timer' = [timer EXCEPT !.rearm = FALSE]
    /\ gw' = [gw EXCEPT !.fails = 0]
    /\ IF MayStart THEN Restart(gw.url) ELSE Free /\ UNCHANGED <<client, broker, counts, excused>>
    /\ UNCHANGED <<stored, pubq, worker, web, net, subscriber>>

-----------------------------------------------------------------------------
\* The client's task and mqtt_event_handler.

Connects ==
    /\ Runs /\ client.pc = "wait" /\ ~client.up
    /\ client' = [client EXCEPT !.up = TRUE, !.pc = "connected"]
    /\ UNCHANGED <<stored, gw, pubq, worker, timer, web, net, subscriber, broker, counts, excused>>

OnConnected ==
    /\ Runs /\ client.pc = "connected" /\ client' = [client EXCEPT !.pc = "subscribe"]
    /\ gw' = [gw EXCEPT !.connected = TRUE, !.fails = 0]
    /\ UNCHANGED <<stored, pubq, worker, timer, web, net, subscriber, broker, counts, excused>>

Subscribes ==
    /\ Runs /\ client.pc = "subscribe" /\ client' = [client EXCEPT !.pc = "tell"]
    /\ broker' = [broker EXCEPT !.subs = IF gw.filter = None THEN @ ELSE @ \cup {gw.filter}]
    /\ excused' = [excused EXCEPT !.crossed = @ \/ subscriber.pc = "set"]
    /\ UNCHANGED <<stored, gw, pubq, worker, timer, web, net, subscriber, counts>>

TellsOnline ==
    /\ Runs /\ client.pc = "tell" /\ client' = [client EXCEPT !.pc = "wait"]
    /\ broker' = [broker EXCEPT !.avail[gw.root] = "online"]
    /\ excused' = [excused EXCEPT !.left = IF gw.root = client.will THEN @ \ {gw.root} ELSE @ \cup {gw.root}]
    /\ UNCHANGED <<stored, gw, pubq, worker, timer, web, net, subscriber, counts>>

\* A connection breaks, and the will is published, or none is made.
Will(c)   == IF c.up THEN [broker.avail EXCEPT ![c.will] = "offline"] ELSE broker.avail

Breaks ==
    /\ Runs /\ client.pc = "wait" /\ Break
    /\ client' = [client EXCEPT !.up = FALSE, !.pc = "broken"]
    /\ broker' = [avail |-> Will(client), subs |-> {}]
    /\ excused' = [excused EXCEPT !.crossed = FALSE]
    /\ UNCHANGED <<stored, gw, pubq, worker, timer, web, net, subscriber>>

\* The sentinel finds the queue full: the next failure tries again.
OnDisconnected ==
    /\ Runs /\ client.pc = "broken" /\ client' = [client EXCEPT !.pc = "wait"]
    /\ gw' = [gw EXCEPT !.connected = FALSE, !.fails = @ + 1]
    /\ pubq' = IF gw.fails + 1 >= MaxFails /\ Len(pubq) < Depth THEN Append(pubq, "disable") ELSE pubq
    /\ UNCHANGED <<stored, worker, timer, web, net, subscriber, broker, counts, excused>>

-----------------------------------------------------------------------------
\* mqtt_gw_publish and mqtt_pub_worker.

Publish ==
    /\ Call /\ Runs /\ Len(pubq) < Depth /\ pubq' = Append(pubq, "message")
    /\ UNCHANGED <<stored, gw, client, worker, timer, web, net, subscriber, broker, excused>>

Message ==
    /\ worker = "idle" /\ pubq # <<>> /\ Head(pubq) = "message" /\ Free /\ pubq' = Tail(pubq)
    /\ UNCHANGED <<stored, gw, client, worker, timer, web, net, subscriber, broker, counts, excused>>

Disable ==
    /\ worker = "idle" /\ pubq # <<>> /\ Head(pubq) = "disable" /\ pubq' = Tail(pubq)
    /\ Destroy /\ worker' = "rearm"
    /\ UNCHANGED <<stored, gw, timer, web, net, subscriber, counts>>

StaysOff == timer   \* mutant
Rearmed  == [timer EXCEPT !.rearm = TRUE]

ArmRearm ==
    /\ worker = "rearm" /\ worker' = "idle" /\ timer' = Rearmed
    /\ UNCHANGED <<stored, gw, client, pubq, web, net, subscriber, broker, counts, excused>>

-----------------------------------------------------------------------------
\* mqtt_gw_on_sta_up, by the network's task (net) or by mqtt_gw_cfg_apply (web): its check, its section
\* and its timer.
StaDown(me) == IF gw.enabled /\ gw.url # None THEN [me EXCEPT !.pc = "teardown"] ELSE Idle

StaUp ==
    /\ net = Idle /\ Call /\ net' = StaDown([pc |-> "up"])
    /\ excused' = [excused EXCEPT !.net = TRUE]
    /\ UNCHANGED <<stored, gw, client, pubq, worker, timer, web, subscriber, broker>>

TearDown ==
    /\ \/ net.pc = "teardown" /\ net' = [net EXCEPT !.pc = "arm"] /\ UNCHANGED web
       \/ web.pc = "teardown" /\ web' = [web EXCEPT !.pc = "arm"] /\ UNCHANGED net
    /\ Destroy
    /\ UNCHANGED <<stored, gw, pubq, worker, timer, subscriber, counts>>

ArmStart ==
    /\ \/ net.pc = "arm" /\ net' = Idle /\ UNCHANGED web
       \/ web.pc = "arm" /\ web' = Idle /\ UNCHANGED net
    /\ timer' = [timer EXCEPT !.start = TRUE]
    /\ UNCHANGED <<stored, gw, client, pubq, worker, subscriber, broker, counts, excused>>

-----------------------------------------------------------------------------
\* mqtt_gw_cfg_apply: root topic, then address, then enabled; each when it is in the request.

Apply(doc) ==
    /\ web = Idle /\ Call /\ web' = [pc |-> "root", doc |-> doc]
    /\ UNCHANGED <<stored, gw, client, pubq, worker, timer, net, subscriber, broker, excused>>

\* mqtt_gw_set_root_topic does not touch the client, nor its will.
SetRoot ==
    /\ web.pc = "root" /\ web' = [web EXCEPT !.pc = "url"]
    /\ gw' = IF web.doc.root = None THEN gw ELSE [gw EXCEPT !.root = web.doc.root]
    /\ excused' = [excused EXCEPT !.left = IF gw'.root # gw.root THEN @ \cup {gw.root} ELSE @]
    /\ UNCHANGED <<stored, client, pubq, worker, timer, net, subscriber, broker, counts>>

\* mqtt_gw_set_broker_url, when MQTT is enabled.
SetUrl ==
    /\ web.pc = "url" /\ web' = [web EXCEPT !.pc = "enabled"]
    /\ IF web.doc.url = None THEN UNCHANGED <<stored, gw, client, broker, counts, excused>>
       ELSE /\ stored' = [stored EXCEPT !.url = web.doc.url]
            /\ IF stored.enabled THEN gw' = [gw EXCEPT !.url = web.doc.url] /\ Restart(web.doc.url)
               ELSE UNCHANGED <<gw, client, broker, counts, excused>>
    /\ UNCHANGED <<pubq, worker, timer, net, subscriber>>

SetEnabled ==
    /\ web.pc = "enabled"
    /\ stored' = IF web.doc.enabled = None THEN stored ELSE [stored EXCEPT !.enabled = web.doc.enabled = "yes"]
    /\ CASE web.doc.enabled = "yes" /\ stored.url # None ->
                /\ web' = [web EXCEPT !.pc = "teardown"]                            \* mqtt_gw_configure
                /\ gw' = [gw EXCEPT !.url = stored.url, !.enabled = TRUE]
                /\ excused' = [excused EXCEPT !.net = TRUE]
                /\ UNCHANGED <<client, broker>>
         [] web.doc.enabled = "no" /\ Runs ->
                /\ web' = Idle /\ Destroy                                           \* mqtt_gw_stop
                /\ gw' = [gw EXCEPT !.enabled = FALSE, !.connected = FALSE, !.fails = 0]
         [] web.doc.enabled = "no" /\ ~Runs ->
                /\ web' = Idle /\ Free /\ gw' = [gw EXCEPT !.enabled = FALSE] /\ UNCHANGED <<client, broker, excused>>
         [] OTHER -> web' = Idle /\ UNCHANGED <<gw, client, broker, excused>>
    /\ UNCHANGED <<pubq, worker, timer, net, subscriber, counts>>

-----------------------------------------------------------------------------
\* mqtt_gw_subscribe: the old filter is left, the new one stored, and subscribed when there is a client.
WithoutOld(f) == IF gw.filter # f THEN broker.subs \ {gw.filter} ELSE broker.subs

Subscribe(f) ==
    /\ subscriber = Idle /\ Call /\ subscriber' = [pc |-> "set", filter |-> f]
    /\ broker' = [broker EXCEPT !.subs = WithoutOld(f)]
    /\ UNCHANGED <<stored, gw, client, pubq, worker, timer, web, net, excused>>

SetFilter ==
    /\ subscriber.pc = "set" /\ subscriber' = [subscriber EXCEPT !.pc = "sub"]
    /\ gw' = [gw EXCEPT !.filter = subscriber.filter]
    /\ UNCHANGED <<stored, client, pubq, worker, timer, web, net, broker, counts, excused>>

SubscribeLive ==
    /\ subscriber.pc = "sub" /\ subscriber' = Idle
    /\ broker' = [broker EXCEPT !.subs = IF Runs /\ client.up THEN @ \cup {gw.filter} ELSE @]
    /\ UNCHANGED <<stored, gw, client, pubq, worker, timer, web, net, counts, excused>>

-----------------------------------------------------------------------------
Next ==
    \/ Start \/ Credentials \/ Deferred \/ Rearm
    \/ Connects \/ OnConnected \/ Subscribes \/ TellsOnline \/ Breaks \/ OnDisconnected
    \/ Publish \/ Message \/ Disable \/ ArmRearm
    \/ StaUp \/ TearDown \/ ArmStart
    \/ (\E doc \in Request : Apply(doc)) \/ SetRoot \/ SetUrl \/ SetEnabled
    \/ (\E f \in Filter : Subscribe(f)) \/ SetFilter \/ SubscribeLive

Spec == Init /\ [][Next]_vars

-----------------------------------------------------------------------------
\* While MQTT is wanted and the network has been up, there is a client or something that will make one:
\* not every sequence of failures, disabling, re-arming and settings may end without.  A client
\* that could not be created is excused.
KeepsTrying ==
    gw.enabled /\ gw.url # None /\ excused.net /\ ~excused.failed =>
        Runs \/ timer.start \/ timer.rearm \/ worker = "rearm" \/ web # Idle \/ net # Idle

\* Nobody is told that the hub is online while its connection is broken.  A connection that was closed
\* on purpose, and a root topic that moved while a client ran, leave the old message behind.
OnlineIsTrue ==
    \A r \in Root \ excused.left : broker.avail[r] = "online" => Runs /\ client.up /\ client.will = r

\* A connected client is subscribed to the filter that was set last and to no other, whatever order the
\* connection and the calls come in.  A handler that subscribes in the middle of a call is excused.
OneFilter ==
    Runs /\ client.up /\ client.pc \in {"tell", "wait"} /\ subscriber = Idle /\ gw.filter # None /\ ~excused.crossed =>
        broker.subs = {gw.filter}

\* The settings are followed: a client comes back while MQTT is wanted, and what the broker holds for the hub is
\* so, its availability and its one subscription.
SettingsFollowed == KeepsTrying /\ OnlineIsTrue /\ OneFilter
=============================================================================
