-------------------------- MODULE MqttGatewayProofs --------------------------
(***************************************************************************)
(* Theorems about MqttGateway, for any addresses, topics, filters and      *)
(* requests, and any number of calls and failures.                         *)
(***************************************************************************)
EXTENDS MqttGateway, TLAPS

\* The types of the variables.
Gateways    == [enabled : BOOLEAN, connected : BOOLEAN, fails : Nat,
                url : Url \cup {None}, root : Root, filter : Filter \cup {None}]
Clients     == {Idle} \cup [pc : {"wait", "connected", "subscribe", "tell", "broken"}, up : BOOLEAN, will : Root]
Brokers     == [avail : [Root -> {None, "online", "offline"}], subs : SUBSET (Filter \cup {None})]
Excuses     == [left : SUBSET Root, crossed : BOOLEAN, net : BOOLEAN, failed : BOOLEAN]
Timers      == [start : BOOLEAN, rearm : BOOLEAN]
Counts      == [calls : Nat, breaks : Nat]
Requests    == [pc : {"root", "url", "enabled", "teardown", "arm"}, doc : Request]
Subscribers == [pc : {"set", "sub"}, filter : Filter]
Settings    == [enabled : BOOLEAN, url : Url \cup {None}]
Away        == [pc : {"teardown", "arm"}]

Types ==
    /\ stored \in Settings
    /\ gw \in Gateways
    /\ client \in Clients
    /\ timer \in Timers
    /\ web \in {Idle} \cup Requests
    /\ net \in {Idle} \cup Away
    /\ subscriber \in {Idle} \cup Subscribers
    /\ broker \in Brokers
    /\ counts \in Counts
    /\ excused \in Excuses

\* The handler runs while the connection it handles is up.
HandlesItsConnection ==
    Runs => /\ client.pc \in {"connected", "subscribe", "tell"} => client.up
            /\ client.pc = "broken" => ~client.up

\* KeepsTrying, but a request that is not yet at its end makes no client.
Returning ==
    gw.enabled /\ gw.url # None /\ excused.net /\ ~excused.failed =>
        \/ Runs \/ timer.start \/ timer.rearm \/ worker = "rearm"
        \/ web.pc \in {"teardown", "arm"} \/ net.pc \in {"teardown", "arm"}

\* The filter that a connection may have: that of the call under way, or the one in force.
Meant == IF subscriber.pc = "set" THEN subscriber.filter ELSE gw.filter

Subscribed ==
    /\ ~(Runs /\ client.up) => broker.subs = {}
    /\ ~excused.crossed => broker.subs \subseteq {Meant}
    /\ OneFilter

IInv == Types /\ HandlesItsConnection /\ Returning /\ OnlineIsTrue /\ Subscribed
USE GatewayConstants DEF Gateways, Clients, Brokers, Excuses, Timers, Counts, Requests, Subscribers, Settings

-----------------------------------------------------------------------------
LEMMA Initially == Init => IInv
<1> SUFFICES ASSUME Init PROVE IInv
  OBVIOUS
<1>1. client = Idle /\ broker = [avail |-> [r \in Root |-> None], subs |-> {}]
      /\ web = Idle /\ net = Idle /\ subscriber = Idle
      /\ excused = [left |-> {}, crossed |-> FALSE, net |-> FALSE, failed |-> FALSE]
  BY DEF Init
<1>2. Types
  <2>1. gw \in Gateways
    BY DEF Init
  <2>2. timer \in Timers /\ counts \in Counts
    BY DEF Init
  <2>3. stored \in Settings
    BY DEF Init
  <2> QED
    BY <1>1, <2>1, <2>2, <2>3 DEF Types
<1>3. HandlesItsConnection /\ Returning /\ Subscribed
  BY <1>1 DEF HandlesItsConnection, Returning, Subscribed, OneFilter, Runs
<1>4. OnlineIsTrue
  BY <1>1 DEF OnlineIsTrue, None
<1> QED
  BY <1>2, <1>3, <1>4 DEF IInv

-----------------------------------------------------------------------------
\* A client is destroyed or replaced: nothing is subscribed, and what says online is left behind.
Down ==
    /\ client' = Idle \/ client' = Fresh(gw.root)
    /\ broker' = Closed
    /\ \E failed \in BOOLEAN : Leaves(failed)
    /\ UNCHANGED subscriber

LEMMA DownKeeps ==
    ASSUME IInv, Down
    PROVE  /\ client' \in Clients
           /\ broker' \in Brokers
           /\ excused' \in Excuses
           /\ excused'.net = excused.net
           /\ HandlesItsConnection' /\ OnlineIsTrue' /\ Subscribed'
<1>1. client' \in Clients
  <2>1. gw.root \in Root
    BY DEF IInv, Types
  <2>2. Fresh(gw.root) \in [pc : {"wait", "connected", "subscribe", "tell", "broken"}, up : BOOLEAN, will : Root]
    BY <2>1 DEF Fresh
  <2> QED
    BY <2>2 DEF Down
<1>2. broker' \in Brokers
      /\ broker'.avail = broker.avail /\ broker'.subs = {}
  BY DEF Down, Closed, IInv, Types
<1>3. PICK failed \in BOOLEAN : Leaves(failed)
  BY DEF Down
<1>4. /\ excused' \in Excuses
      /\ excused'.net = excused.net
      /\ excused'.left = IF Runs /\ client.up
                         THEN excused.left \cup {r \in Root : broker.avail[r] = "online"} ELSE excused.left
  BY <1>3 DEF Leaves, IInv, Types
<1>5. ~(Runs /\ client.up)' /\ (Runs' => client'.pc = "wait")
  BY DEF Down, Fresh, Runs
<1>6. HandlesItsConnection' /\ Subscribed'
  BY <1>2, <1>5 DEF HandlesItsConnection, Subscribed, OneFilter
<1>7. OnlineIsTrue'
  BY <1>2, <1>4 DEF OnlineIsTrue, IInv
<1> QED
  BY <1>1, <1>2, <1>4, <1>6, <1>7

LEMMA Destroyed ==
    ASSUME IInv, Destroy, UNCHANGED subscriber
    PROVE  Down /\ client' = Idle
  BY DEF Destroy, Down

LEMMA Restarted ==
    ASSUME IInv, NEW url, Restart(url), UNCHANGED subscriber
    PROVE  /\ Down /\ counts' \in Counts
           /\ (client' # Idle) \/ url = None \/ excused'.failed
<1>1. CASE client' = (IF url = None THEN Idle ELSE Fresh(gw.root)) /\ Leaves(FALSE) /\ UNCHANGED counts
  BY <1>1 DEF Restart, Down, IInv, Types, Fresh, Idle
<1>2. CASE url # None /\ Break /\ client' = Idle /\ Leaves(TRUE)
  <2>1. excused'.failed
    BY <1>2 DEF Leaves, IInv, Types
  <2>2. counts' \in Counts
    BY <1>2 DEF Break, IInv, Types
  <2> QED
    BY <1>2, <2>1, <2>2 DEF Restart, Down
<1> QED
  BY <1>1, <1>2 DEF Restart

LEMMA Called ==
    ASSUME IInv, Call
    PROVE  counts' \in Counts
  BY DEF IInv, Types, Call

\* Steps that leave the client's connection and its subscriptions as they are.
Connection == <<client, broker, subscriber, excused>>

LEMMA ConnectionKept ==
    ASSUME IInv, UNCHANGED Connection, gw'.filter = gw.filter
    PROVE  HandlesItsConnection' /\ OnlineIsTrue' /\ Subscribed'
  BY DEF IInv, Connection, HandlesItsConnection, OnlineIsTrue, Subscribed, OneFilter, Meant, Runs

-----------------------------------------------------------------------------
\* Who starts a client.
LEMMA StartKeeps == IInv /\ Start => IInv'
<1> SUFFICES ASSUME IInv, Start PROVE IInv'
  OBVIOUS
<1> USE DEF IInv
<1>1. counts' \in Counts
  BY Called DEF Start
<1>2. CASE Runs
  <2>1. UNCHANGED <<Connection, gw, stored, timer, web, net, worker>>
    BY <1>2 DEF Start, Connection
  <2>2. Types'
    BY <1>1, <2>1 DEF Types, Connection
  <2>3. HandlesItsConnection' /\ OnlineIsTrue' /\ Subscribed'
    BY <2>1, ConnectionKept
  <2>4. Returning'
    BY <2>1 DEF Returning, Runs, Connection
  <2> QED
    BY <2>2, <2>3, <2>4
<1>3. CASE ~Runs
  <2>1. /\ gw' = [gw EXCEPT !.fails = 0] /\ client' = (IF gw.url = None THEN Idle ELSE Fresh(gw.root))
        /\ UNCHANGED <<stored, timer, web, net, subscriber, worker, broker, excused>>
    BY <1>3 DEF Start
  <2>2. /\ gw' \in Gateways
        /\ gw'.enabled = gw.enabled /\ gw'.url = gw.url /\ gw'.filter = gw.filter /\ gw.root \in Root
    BY <2>1 DEF Types
  <2>3. /\ client' \in Clients
        /\ client' # Idle => client'.pc = "wait" /\ ~client'.up
        /\ gw.url # None => client' # Idle
    BY <2>1, <2>2 DEF Fresh, Idle
  <2>4. Types'
    BY <1>1, <2>1, <2>2, <2>3 DEF Types
  <2>5. HandlesItsConnection' /\ OnlineIsTrue' /\ Subscribed'
    BY <1>3, <2>1, <2>2, <2>3 DEF HandlesItsConnection, OnlineIsTrue, Subscribed, OneFilter, Meant, Runs
  <2>6. Returning'
    BY <2>1, <2>2, <2>3 DEF Returning, Runs
  <2> QED
    BY <2>4, <2>5, <2>6
<1> QED
  BY <1>2, <1>3

LEMMA CredentialsKeeps == IInv /\ Credentials => IInv'
<1> SUFFICES ASSUME IInv, Credentials PROVE IInv'
  OBVIOUS
<1> USE DEF IInv
<1>1. Restart(gw.url) /\ UNCHANGED <<stored, gw, worker, timer, web, net, subscriber>>
  BY DEF Credentials
<1>2. /\ Down /\ counts' \in Counts
      /\ client' # Idle \/ gw.url = None \/ excused'.failed
  BY <1>1, Restarted
<1>3. Types'
  BY <1>1, <1>2, DownKeeps DEF Types
<1>4. Returning'
  BY <1>1, <1>2 DEF Returning, Runs
<1> QED
  BY <1>2, <1>3, <1>4, DownKeeps

LEMMA DeferredKeeps == IInv /\ Deferred => IInv'
<1> SUFFICES ASSUME IInv, Deferred PROVE IInv'
  OBVIOUS
<1> USE DEF IInv
<1>1. timer' = [timer EXCEPT !.start = FALSE] /\ UNCHANGED <<stored, worker, web, net, subscriber>>
  BY DEF Deferred
<1>2. timer' \in Timers
  BY <1>1 DEF Types
<1>3. gw' = [gw EXCEPT !.fails = 0] \/ gw' = gw
  BY DEF Deferred
<1>4. /\ gw' \in Gateways
      /\ gw'.enabled = gw.enabled /\ gw'.url = gw.url /\ gw'.filter = gw.filter
  BY <1>3 DEF Types
<1>5. CASE MayStart
  <2>1. /\ Down /\ counts' \in Counts
        /\ client' # Idle \/ gw.url = None \/ excused'.failed
    BY <1>1, <1>5, Restarted DEF Deferred
  <2>2. Types'
    BY <1>1, <1>2, <1>4, <2>1, DownKeeps DEF Types
  <2>3. Returning'
    BY <1>4, <2>1 DEF Returning, Runs
  <2> QED
    BY <2>1, <2>2, <2>3, DownKeeps
<1>6. CASE ~MayStart
  <2>1. UNCHANGED <<Connection, counts>>
    BY <1>1, <1>6 DEF Deferred, Connection
  <2>2. Types'
    BY <1>1, <1>2, <1>4, <2>1 DEF Types, Connection
  <2>3. HandlesItsConnection' /\ OnlineIsTrue' /\ Subscribed'
    BY <1>4, <2>1, ConnectionKept
  <2>4. Returning'
    BY <1>1, <1>4, <1>6, <2>1 DEF Returning, Runs, Connection, MayStart
  <2> QED
    BY <2>2, <2>3, <2>4
<1> QED
  BY <1>5, <1>6

LEMMA RearmKeeps == IInv /\ Rearm => IInv'
<1> SUFFICES ASSUME IInv, Rearm PROVE IInv'
  OBVIOUS
<1> USE DEF IInv
<1>1. timer' = [timer EXCEPT !.rearm = FALSE] /\ UNCHANGED <<stored, worker, web, net, subscriber>>
  BY DEF Rearm
<1>2. timer' \in Timers
  BY <1>1 DEF Types
<1>3. gw' = [gw EXCEPT !.fails = 0] \/ gw' = gw
  BY DEF Rearm
<1>4. /\ gw' \in Gateways
      /\ gw'.enabled = gw.enabled /\ gw'.url = gw.url /\ gw'.filter = gw.filter
  BY <1>3 DEF Types
<1>5. CASE MayStart
  <2>1. /\ Down /\ counts' \in Counts
        /\ client' # Idle \/ gw.url = None \/ excused'.failed
    BY <1>1, <1>5, Restarted DEF Rearm
  <2>2. Types'
    BY <1>1, <1>2, <1>4, <2>1, DownKeeps DEF Types
  <2>3. Returning'
    BY <1>4, <2>1 DEF Returning, Runs
  <2> QED
    BY <2>1, <2>2, <2>3, DownKeeps
<1>6. CASE ~MayStart
  <2>1. UNCHANGED <<Connection, counts>>
    BY <1>1, <1>6 DEF Rearm, Connection
  <2>2. Types'
    BY <1>1, <1>2, <1>4, <2>1 DEF Types, Connection
  <2>3. HandlesItsConnection' /\ OnlineIsTrue' /\ Subscribed'
    BY <1>4, <2>1, ConnectionKept
  <2>4. Returning'
    BY <1>1, <1>4, <1>6, <2>1 DEF Returning, Runs, Connection, MayStart
  <2> QED
    BY <2>2, <2>3, <2>4
<1> QED
  BY <1>5, <1>6

-----------------------------------------------------------------------------
\* The client's task and its handler.
LEMMA ConnectsKeeps == IInv /\ Connects => IInv'
<1> SUFFICES ASSUME IInv, Connects PROVE IInv'
  OBVIOUS
<1> USE DEF IInv
<1>1. /\ Runs /\ ~client.up /\ client' = [client EXCEPT !.up = TRUE, !.pc = "connected"]
      /\ UNCHANGED <<stored, gw, worker, timer, web, net, subscriber, broker, counts, excused>>
  BY DEF Connects
<1>2. /\ client' \in [pc : {"wait", "connected", "subscribe", "tell", "broken"}, up : BOOLEAN, will : Root]
      /\ client'.up /\ client'.pc = "connected" /\ client' # Idle
  BY <1>1 DEF Types, Runs, Idle
<1>3. Types'
  BY <1>1, <1>2 DEF Types
<1>4. HandlesItsConnection' /\ OnlineIsTrue' /\ Subscribed'
  BY <1>1, <1>2 DEF HandlesItsConnection, OnlineIsTrue, Subscribed, OneFilter, Meant, Runs
<1>5. Returning'
  BY <1>1, <1>2 DEF Returning, Runs
<1> QED
  BY <1>3, <1>4, <1>5

LEMMA OnConnectedKeeps == IInv /\ OnConnected => IInv'
<1> SUFFICES ASSUME IInv, OnConnected PROVE IInv'
  OBVIOUS
<1> USE DEF IInv
<1>1. /\ Runs /\ client.pc = "connected" /\ client' = [client EXCEPT !.pc = "subscribe"]
      /\ gw' = [gw EXCEPT !.connected = TRUE, !.fails = 0]
      /\ UNCHANGED <<stored, worker, timer, web, net, subscriber, broker, counts, excused>>
  BY DEF OnConnected
<1>2. /\ client' \in [pc : {"wait", "connected", "subscribe", "tell", "broken"}, up : BOOLEAN, will : Root]
      /\ client'.up = client.up /\ client'.pc = "subscribe" /\ client' # Idle /\ client'.will = client.will
  BY <1>1 DEF Types, Runs, Idle
<1>6. /\ gw' \in Gateways
      /\ gw'.enabled = gw.enabled /\ gw'.url = gw.url /\ gw'.filter = gw.filter
  BY <1>1 DEF Types
<1>3. Types'
  BY <1>1, <1>2, <1>6 DEF Types
<1>4. HandlesItsConnection' /\ OnlineIsTrue' /\ Subscribed'
  BY <1>1, <1>2, <1>6 DEF HandlesItsConnection, OnlineIsTrue, Subscribed, OneFilter, Meant, Runs
<1>5. Returning'
  BY <1>1, <1>2, <1>6 DEF Returning, Runs
<1> QED
  BY <1>3, <1>4, <1>5

LEMMA SubscribesKeeps == IInv /\ Subscribes => IInv'
<1> SUFFICES ASSUME IInv, Subscribes PROVE IInv'
  OBVIOUS
<1> USE DEF IInv
<1>1. /\ Runs /\ client.pc = "subscribe" /\ client' = [client EXCEPT !.pc = "tell"]
      /\ broker' = [broker EXCEPT !.subs = IF gw.filter = None THEN @ ELSE @ \cup {gw.filter}]
      /\ excused' = [excused EXCEPT !.crossed = @ \/ subscriber.pc = "set"]
      /\ UNCHANGED <<stored, gw, worker, timer, web, net, subscriber, counts>>
  BY DEF Subscribes
<1>2. /\ client' \in [pc : {"wait", "connected", "subscribe", "tell", "broken"}, up : BOOLEAN, will : Root]
      /\ client'.up = client.up /\ client'.pc = "tell" /\ client' # Idle /\ client'.will = client.will
  BY <1>1 DEF Types, Runs, Idle
<1>6. /\ broker' \in Brokers
      /\ broker'.avail = broker.avail
      /\ broker'.subs = IF gw.filter = None THEN broker.subs ELSE broker.subs \cup {gw.filter}
  BY <1>1 DEF Types
<1>7. /\ excused' \in Excuses
      /\ excused'.left = excused.left /\ excused'.net = excused.net /\ excused'.failed = excused.failed
      /\ excused'.crossed <=> (excused.crossed \/ subscriber.pc = "set")
  BY <1>1 DEF Types
<1>3. Types'
  BY <1>1, <1>2, <1>6, <1>7 DEF Types
<1>4. HandlesItsConnection' /\ OnlineIsTrue'
  BY <1>1, <1>2, <1>6, <1>7 DEF HandlesItsConnection, OnlineIsTrue, Runs
<1>8. Subscribed'
  <2>1. Runs' /\ client'.up
    BY <1>1, <1>2 DEF HandlesItsConnection, Runs
  <2>2. ~excused'.crossed => subscriber.pc # "set" /\ broker.subs \subseteq {gw.filter} /\ Meant' = gw.filter
    BY <1>1, <1>7 DEF Subscribed, Meant
  <2> QED
    BY <1>1, <1>6, <2>1, <2>2 DEF Subscribed, OneFilter
<1>5. Returning'
  BY <1>1, <1>2, <1>7 DEF Returning, Runs
<1> QED
  BY <1>3, <1>4, <1>5, <1>8

LEMMA TellsOnlineKeeps == IInv /\ TellsOnline => IInv'
<1> SUFFICES ASSUME IInv, TellsOnline PROVE IInv'
  OBVIOUS
<1> USE DEF IInv
<1>1. /\ Runs /\ client.pc = "tell" /\ client' = [client EXCEPT !.pc = "wait"]
      /\ broker' = [broker EXCEPT !.avail[gw.root] = "online"]
      /\ excused' = [excused EXCEPT !.left = IF gw.root = client.will THEN @ \ {gw.root} ELSE @ \cup {gw.root}]
      /\ UNCHANGED <<stored, gw, worker, timer, web, net, subscriber, counts>>
  BY DEF TellsOnline
<1>2. /\ client' \in [pc : {"wait", "connected", "subscribe", "tell", "broken"}, up : BOOLEAN, will : Root]
      /\ client'.up = client.up /\ client'.pc = "wait" /\ client' # Idle /\ client'.will = client.will
  BY <1>1 DEF Types, Runs, Idle
<1>6. /\ broker' \in Brokers
      /\ broker'.subs = broker.subs
      /\ broker'.avail = [broker.avail EXCEPT ![gw.root] = "online"]
  BY <1>1 DEF Types
<1>7. /\ excused' \in Excuses
      /\ excused'.crossed = excused.crossed /\ excused'.net = excused.net /\ excused'.failed = excused.failed
      /\ excused'.left = IF gw.root = client.will THEN excused.left \ {gw.root} ELSE excused.left \cup {gw.root}
  BY <1>1 DEF Types
<1>3. Types'
  BY <1>1, <1>2, <1>6, <1>7 DEF Types
<1>9. client.up
  BY <1>1 DEF HandlesItsConnection
<1>4. HandlesItsConnection' /\ Subscribed'
  BY <1>1, <1>2, <1>6, <1>7, <1>9 DEF HandlesItsConnection, Subscribed, OneFilter, Meant, Runs
<1>8. OnlineIsTrue'
  <2> SUFFICES ASSUME NEW r \in Root, r \notin excused'.left, broker'.avail[r] = "online"
               PROVE  Runs' /\ client'.up /\ client'.will = r
    BY DEF OnlineIsTrue
  <2>1. CASE r = gw.root
    BY <1>2, <1>7, <1>9, <2>1 DEF Runs
  <2>2. CASE r # gw.root
    <3>1. r \notin excused.left /\ broker.avail[r] = "online"
      BY <1>6, <1>7, <2>2 DEF Types
    <3> QED
      BY <1>2, <3>1 DEF OnlineIsTrue, Runs
  <2> QED
    BY <2>1, <2>2
<1>5. Returning'
  BY <1>1, <1>2, <1>7 DEF Returning, Runs
<1> QED
  BY <1>3, <1>4, <1>5, <1>8

LEMMA BreaksKeeps == IInv /\ Breaks => IInv'
<1> SUFFICES ASSUME IInv, Breaks PROVE IInv'
  OBVIOUS
<1> USE DEF IInv
<1>1. /\ Runs /\ Break /\ client' = [client EXCEPT !.up = FALSE, !.pc = "broken"]
      /\ broker' = [avail |-> Will(client), subs |-> {}]
      /\ excused' = [excused EXCEPT !.crossed = FALSE]
      /\ UNCHANGED <<stored, gw, worker, timer, web, net, subscriber>>
  BY DEF Breaks
<1>2. client' \in [pc : {"wait", "connected", "subscribe", "tell", "broken"}, up : BOOLEAN, will : Root]
      /\ ~client'.up /\ client'.pc = "broken" /\ client' # Idle
  BY <1>1 DEF Types, Runs, Idle
<1>6. Will(client) \in [Root -> {None, "online", "offline"}]
  BY DEF Types, Will
<1>7. /\ excused' \in Excuses
      /\ excused'.left = excused.left /\ excused'.net = excused.net /\ excused'.failed = excused.failed
  BY <1>1 DEF Types
<1>9. counts' \in Counts
  BY <1>1 DEF Types, Break
<1>3. Types'
  BY <1>1, <1>2, <1>6, <1>7, <1>9 DEF Types
<1>4. HandlesItsConnection' /\ Subscribed'
  BY <1>1, <1>2 DEF HandlesItsConnection, Subscribed, OneFilter, Runs
<1>8. OnlineIsTrue'
  <2> SUFFICES ASSUME NEW r \in Root, r \notin excused.left, Will(client)[r] = "online"
               PROVE  FALSE
    BY <1>1, <1>7 DEF OnlineIsTrue
  <2>1. broker.avail[r] = "online" /\ ~(client.up /\ r = client.will)
    BY DEF Will, Types
  <2> QED
    BY <2>1 DEF OnlineIsTrue
<1>5. Returning'
  BY <1>1, <1>2, <1>7 DEF Returning, Runs
<1> QED
  BY <1>3, <1>4, <1>5, <1>8

LEMMA OnDisconnectedKeeps == IInv /\ OnDisconnected => IInv'
<1> SUFFICES ASSUME IInv, OnDisconnected PROVE IInv'
  OBVIOUS
<1> USE DEF IInv
<1>1. /\ Runs /\ client.pc = "broken" /\ client' = [client EXCEPT !.pc = "wait"]
      /\ gw' = [gw EXCEPT !.connected = FALSE, !.fails = @ + 1]
      /\ UNCHANGED <<stored, worker, timer, web, net, subscriber, broker, counts, excused>>
  BY DEF OnDisconnected
<1>2. /\ client' \in [pc : {"wait", "connected", "subscribe", "tell", "broken"}, up : BOOLEAN, will : Root]
      /\ client'.up = client.up /\ client'.pc = "wait" /\ client' # Idle /\ client'.will = client.will
  BY <1>1 DEF Types, Runs, Idle
<1>6. /\ gw' \in Gateways
      /\ gw'.enabled = gw.enabled /\ gw'.url = gw.url /\ gw'.filter = gw.filter
  <2>1. gw.fails \in Nat /\ gw.fails + 1 \in Nat
    BY DEF Types
  <2> QED
    BY <1>1, <2>1 DEF Types
<1>3. Types'
  BY <1>1, <1>2, <1>6 DEF Types
<1>4. HandlesItsConnection' /\ OnlineIsTrue' /\ Subscribed'
  BY <1>1, <1>2, <1>6 DEF HandlesItsConnection, OnlineIsTrue, Subscribed, OneFilter, Meant, Runs
<1>5. Returning'
  BY <1>1, <1>2, <1>6 DEF Returning, Runs
<1> QED
  BY <1>3, <1>4, <1>5

-----------------------------------------------------------------------------
\* The publishing task.
LEMMA PublishesKeeps == IInv /\ (Publish \/ Message) => IInv'
<1> SUFFICES ASSUME IInv, (Publish \/ Message) PROVE IInv'
  OBVIOUS
<1> USE DEF IInv
<1>1. counts' \in Counts
  BY Called DEF Publish, Message, Types
<1>2. UNCHANGED <<Connection, stored, gw, worker, timer, web, net>>
  BY DEF Publish, Message, Connection
<1>3. Types'
  BY <1>1, <1>2 DEF Types, Connection
<1>4. HandlesItsConnection' /\ OnlineIsTrue' /\ Subscribed'
  BY <1>2, ConnectionKept
<1>5. Returning'
  BY <1>2 DEF Returning, Runs, Connection
<1> QED
  BY <1>3, <1>4, <1>5

LEMMA DisableKeeps == IInv /\ Disable => IInv'
<1> SUFFICES ASSUME IInv, Disable PROVE IInv'
  OBVIOUS
<1> USE DEF IInv
<1>1. Destroy /\ worker' = "rearm" /\ UNCHANGED <<stored, gw, timer, web, net, subscriber, counts>>
  BY DEF Disable
<1>2. Down
  BY <1>1, Destroyed
<1>3. Types'
  BY <1>1, <1>2, DownKeeps DEF Types
<1>4. Returning'
  BY <1>1 DEF Returning
<1> QED
  BY <1>2, <1>3, <1>4, DownKeeps

LEMMA ArmRearmKeeps == IInv /\ ArmRearm => IInv'
<1> SUFFICES ASSUME IInv, ArmRearm PROVE IInv'
  OBVIOUS
<1> USE DEF IInv
<1>1. timer' = [timer EXCEPT !.rearm = TRUE] /\ UNCHANGED <<Connection, stored, gw, web, net, counts>>
  BY DEF ArmRearm, Rearmed, Connection
<1>2. timer' \in Timers /\ timer'.rearm
  BY <1>1 DEF Types
<1>3. Types'
  BY <1>1, <1>2 DEF Types, Connection
<1>4. HandlesItsConnection' /\ OnlineIsTrue' /\ Subscribed'
  BY <1>1, ConnectionKept
<1>5. Returning'
  BY <1>2 DEF Returning
<1> QED
  BY <1>3, <1>4, <1>5

-----------------------------------------------------------------------------
\* The network is up.
LEMMA StaUpKeeps == IInv /\ StaUp => IInv'
<1> SUFFICES ASSUME IInv, StaUp PROVE IInv'
  OBVIOUS
<1> USE DEF IInv
<1>1. /\ net = Idle /\ net' = StaDown([pc |-> "up"]) /\ excused' = [excused EXCEPT !.net = TRUE]
      /\ UNCHANGED <<stored, gw, client, worker, timer, web, subscriber, broker>>
  BY DEF StaUp
<1>2. counts' \in Counts
  BY Called DEF StaUp
<1>3. net' \in {Idle} \cup Away /\ (gw.enabled /\ gw.url # None => net'.pc = "teardown")
  BY <1>1 DEF StaDown, Away
<1>4. /\ excused' \in Excuses
      /\ excused'.left = excused.left /\ excused'.crossed = excused.crossed
  BY <1>1 DEF Types
<1>5. Types'
  BY <1>1, <1>2, <1>3, <1>4 DEF Types
<1>6. HandlesItsConnection' /\ OnlineIsTrue' /\ Subscribed'
  BY <1>1, <1>4 DEF HandlesItsConnection, OnlineIsTrue, Subscribed, OneFilter, Meant, Runs
<1>7. Returning'
  BY <1>1, <1>3 DEF Returning
<1> QED
  BY <1>5, <1>6, <1>7

LEMMA TearDownKeeps == IInv /\ TearDown => IInv'
<1> SUFFICES ASSUME IInv, TearDown PROVE IInv'
  OBVIOUS
<1> USE DEF IInv
<1>1. Destroy /\ UNCHANGED <<stored, gw, worker, timer, subscriber, counts>>
  BY DEF TearDown
<1>2. Down
  BY <1>1, Destroyed
<1>3. \/ net.pc = "teardown" /\ net' = [net EXCEPT !.pc = "arm"] /\ UNCHANGED web
      \/ web.pc = "teardown" /\ web' = [web EXCEPT !.pc = "arm"] /\ UNCHANGED net
  BY DEF TearDown
<1>4. /\ net' \in {Idle} \cup Away
      /\ web' \in {Idle} \cup Requests
      /\ web'.pc = "arm" \/ net'.pc = "arm"
  BY <1>3 DEF Types, Away, Idle
<1>5. Types'
  BY <1>1, <1>2, <1>4, DownKeeps DEF Types
<1>6. Returning'
  BY <1>4 DEF Returning
<1> QED
  BY <1>2, <1>5, <1>6, DownKeeps

LEMMA ArmStartKeeps == IInv /\ ArmStart => IInv'
<1> SUFFICES ASSUME IInv, ArmStart PROVE IInv'
  OBVIOUS
<1> USE DEF IInv
<1>1. timer' = [timer EXCEPT !.start = TRUE] /\ UNCHANGED <<Connection, stored, gw, worker, counts>>
  BY DEF ArmStart, Connection
<1>2. net' \in {net, Idle} /\ web' \in {web, Idle}
  BY DEF ArmStart
<1>3. timer' \in Timers /\ timer'.start
  BY <1>1 DEF Types
<1>4. Types'
  BY <1>1, <1>2, <1>3 DEF Types, Connection
<1>5. HandlesItsConnection' /\ OnlineIsTrue' /\ Subscribed'
  BY <1>1, ConnectionKept
<1>6. Returning'
  BY <1>3 DEF Returning
<1> QED
  BY <1>4, <1>5, <1>6

-----------------------------------------------------------------------------
\* The settings.
LEMMA ApplyKeeps == IInv /\ (\E doc \in Request : Apply(doc)) => IInv'
<1> SUFFICES ASSUME IInv, (\E doc \in Request : Apply(doc)) PROVE IInv'
  OBVIOUS
<1> USE DEF IInv
<1>1. PICK doc \in Request : web' = [pc |-> "root", doc |-> doc] /\ web = Idle
  BY DEF Apply
<1>2. UNCHANGED <<Connection, stored, gw, worker, timer, net>> /\ counts' \in Counts
  BY Called DEF Apply, Connection
<1>3. web' \in Requests
  BY <1>1
<1>4. Types'
  BY <1>2, <1>3 DEF Types, Connection
<1>5. HandlesItsConnection' /\ OnlineIsTrue' /\ Subscribed'
  BY <1>2, ConnectionKept
<1>6. Returning'
  BY <1>1, <1>2 DEF Returning, Runs, Connection, Idle
<1> QED
  BY <1>4, <1>5, <1>6

LEMMA SetRootKeeps == IInv /\ SetRoot => IInv'
<1> SUFFICES ASSUME IInv, SetRoot PROVE IInv'
  OBVIOUS
<1> USE DEF IInv
<1>1. /\ web.pc = "root" /\ web' = [web EXCEPT !.pc = "url"]
      /\ gw' = IF web.doc.root = None THEN gw ELSE [gw EXCEPT !.root = web.doc.root]
      /\ excused' = [excused EXCEPT !.left = IF gw'.root # gw.root THEN @ \cup {gw.root} ELSE @]
      /\ UNCHANGED <<stored, client, worker, timer, net, subscriber, broker, counts>>
  BY DEF SetRoot
<1>2. web \in Requests
  BY <1>1 DEF Types, Idle
<1>3. web.doc.root \in Root \cup {None} /\ web' \in Requests /\ web'.pc = "url"
  BY <1>1, <1>2
<1>4. /\ gw' \in Gateways
      /\ gw'.enabled = gw.enabled /\ gw'.url = gw.url /\ gw'.filter = gw.filter
  BY <1>1, <1>3 DEF Types
<1>5. /\ excused' \in Excuses
      /\ excused'.crossed = excused.crossed /\ excused'.net = excused.net /\ excused'.failed = excused.failed
      /\ excused.left \subseteq excused'.left
  BY <1>1, <1>4 DEF Types
<1>6. Types'
  BY <1>1, <1>3, <1>4, <1>5 DEF Types
<1>7. HandlesItsConnection' /\ OnlineIsTrue' /\ Subscribed'
  BY <1>1, <1>4, <1>5 DEF HandlesItsConnection, OnlineIsTrue, Subscribed, OneFilter, Meant, Runs
<1>8. Returning'
  BY <1>1, <1>4, <1>5 DEF Returning, Runs
<1> QED
  BY <1>6, <1>7, <1>8

LEMMA SetUrlKeeps == IInv /\ SetUrl => IInv'
<1> SUFFICES ASSUME IInv, SetUrl PROVE IInv'
  OBVIOUS
<1> USE DEF IInv
<1>1. web.pc = "url" /\ web' = [web EXCEPT !.pc = "enabled"] /\ UNCHANGED <<worker, timer, net, subscriber>>
  BY DEF SetUrl
<1>2. web \in Requests
  BY <1>1 DEF Types, Idle
<1>3. web.doc.url \in Url \cup {None} /\ web' \in Requests /\ web'.pc = "enabled"
  BY <1>1, <1>2
<1>4. stored' \in Settings
  BY <1>3 DEF SetUrl, Types
<1>5. CASE web.doc.url # None /\ stored.enabled
  <2>1. gw' = [gw EXCEPT !.url = web.doc.url] /\ Restart(web.doc.url)
    BY <1>5 DEF SetUrl
  <2>2. /\ gw' \in Gateways
        /\ gw'.enabled = gw.enabled /\ gw'.filter = gw.filter
    BY <1>3, <2>1 DEF Types
  <2>3. /\ Down /\ counts' \in Counts
        /\ client' # Idle \/ excused'.failed
    BY <1>1, <1>5, <2>1, Restarted
  <2>4. Types'
    BY <1>1, <1>3, <1>4, <2>2, <2>3, DownKeeps DEF Types
  <2>5. Returning'
    BY <2>3 DEF Returning, Runs
  <2> QED
    BY <2>3, <2>4, <2>5, DownKeeps
<1>6. CASE ~(web.doc.url # None /\ stored.enabled)
  <2>1. UNCHANGED <<Connection, gw, counts>>
    BY <1>1, <1>6 DEF SetUrl, Connection
  <2>2. Types'
    BY <1>1, <1>3, <1>4, <2>1 DEF Types, Connection
  <2>3. HandlesItsConnection' /\ OnlineIsTrue' /\ Subscribed'
    BY <2>1, ConnectionKept
  <2>4. Returning'
    BY <1>1, <1>3, <2>1 DEF Returning, Runs, Connection
  <2> QED
    BY <2>2, <2>3, <2>4
<1> QED
  BY <1>5, <1>6

LEMMA SetEnabledKeeps == IInv /\ SetEnabled => IInv'
<1> SUFFICES ASSUME IInv, SetEnabled PROVE IInv'
  OBVIOUS
<1> USE DEF IInv
<1>1. web.pc = "enabled" /\ UNCHANGED <<worker, timer, net, subscriber, counts>>
  BY DEF SetEnabled
<1>2. web \in Requests
  BY <1>1 DEF Types, Idle
<1>3. stored' \in Settings
  <2>1. stored' = IF web.doc.enabled = None THEN stored ELSE [stored EXCEPT !.enabled = web.doc.enabled = "yes"]
    BY DEF SetEnabled
  <2>2. (web.doc.enabled = "yes") \in BOOLEAN
    OBVIOUS
  <2> QED
    BY <2>1, <2>2 DEF Types
<1>4. CASE web.doc.enabled = "yes" /\ stored.url # None
  <2>1. /\ web' = [web EXCEPT !.pc = "teardown"] /\ gw' = [gw EXCEPT !.url = stored.url, !.enabled = TRUE]
        /\ excused' = [excused EXCEPT !.net = TRUE] /\ UNCHANGED <<client, broker>>
    BY <1>4 DEF SetEnabled, None
  <2>2. web' \in Requests /\ web'.pc = "teardown"
    BY <1>2, <2>1
  <2>3. gw' \in Gateways
        /\ gw'.filter = gw.filter
    BY <2>1 DEF Types
  <2>4. /\ excused' \in Excuses
        /\ excused'.left = excused.left /\ excused'.crossed = excused.crossed
    BY <2>1 DEF Types
  <2>5. Types'
    BY <1>1, <1>3, <2>1, <2>2, <2>3, <2>4 DEF Types
  <2>6. HandlesItsConnection' /\ OnlineIsTrue' /\ Subscribed'
    BY <1>1, <2>1, <2>3, <2>4 DEF HandlesItsConnection, OnlineIsTrue, Subscribed, OneFilter, Meant, Runs
  <2>7. Returning'
    BY <2>2 DEF Returning
  <2> QED
    BY <2>5, <2>6, <2>7
<1>5. CASE web.doc.enabled = "no" /\ Runs
  <2>1. /\ web' = Idle /\ Destroy
        /\ gw' = [gw EXCEPT !.enabled = FALSE, !.connected = FALSE, !.fails = 0]
    BY <1>5 DEF SetEnabled
  <2>2. Down
    BY <1>1, <2>1, Destroyed
  <2>3. gw' \in Gateways
        /\ ~gw'.enabled
    BY <2>1 DEF Types
  <2>4. Types'
    BY <1>1, <1>3, <2>1, <2>2, <2>3, DownKeeps DEF Types
  <2>5. Returning'
    BY <2>3 DEF Returning
  <2> QED
    BY <2>2, <2>4, <2>5, DownKeeps
<1>6. CASE web.doc.enabled = "no" /\ ~Runs
  <2>1. web' = Idle /\ gw' = [gw EXCEPT !.enabled = FALSE] /\ UNCHANGED <<client, broker, excused>>
    BY <1>6 DEF SetEnabled
  <2>2. gw' \in Gateways
        /\ ~gw'.enabled /\ gw'.filter = gw.filter
    BY <2>1 DEF Types
  <2>3. Types'
    BY <1>1, <1>3, <2>1, <2>2 DEF Types
  <2>4. HandlesItsConnection' /\ OnlineIsTrue' /\ Subscribed'
    BY <1>1, <2>1, <2>2, ConnectionKept DEF Connection
  <2>5. Returning'
    BY <2>2 DEF Returning
  <2> QED
    BY <2>3, <2>4, <2>5
<1>7. CASE ~(web.doc.enabled = "yes" /\ stored.url # None) /\ web.doc.enabled # "no"
  <2>1. web' = Idle /\ UNCHANGED <<Connection, gw>>
    BY <1>1, <1>7 DEF SetEnabled, Connection
  <2>2. Types'
    BY <1>1, <1>3, <2>1 DEF Types, Connection
  <2>3. HandlesItsConnection' /\ OnlineIsTrue' /\ Subscribed'
    BY <2>1, ConnectionKept
  <2>4. Returning'
    BY <1>1, <2>1 DEF Returning, Runs, Connection
  <2> QED
    BY <2>2, <2>3, <2>4
<1> QED
  BY <1>4, <1>5, <1>6, <1>7

-----------------------------------------------------------------------------
\* A subscribe.
LEMMA SubscribeKeeps == IInv /\ (\E f \in Filter : Subscribe(f)) => IInv'
<1> SUFFICES ASSUME IInv, (\E f \in Filter : Subscribe(f)) PROVE IInv'
  OBVIOUS
<1> USE DEF IInv
<1>1. PICK f \in Filter : Subscribe(f)
  OBVIOUS
<1>2. /\ subscriber = Idle /\ subscriber' = [pc |-> "set", filter |-> f]
      /\ broker' = [broker EXCEPT !.subs = WithoutOld(f)]
      /\ UNCHANGED <<stored, gw, client, worker, timer, web, net, excused>>
  BY <1>1 DEF Subscribe
<1>3. counts' \in Counts
  BY <1>1, Called DEF Subscribe
<1>4. subscriber' \in Subscribers /\ subscriber'.pc = "set" /\ subscriber'.filter = f
  BY <1>2
<1>5. WithoutOld(f) \subseteq broker.subs /\ (~excused.crossed => WithoutOld(f) \subseteq {f})
  BY <1>2 DEF WithoutOld, Subscribed, Meant, Idle
<1>6. /\ broker' \in Brokers
      /\ broker'.avail = broker.avail /\ broker'.subs = WithoutOld(f)
  BY <1>2, <1>5 DEF Types
<1>7. Types'
  BY <1>2, <1>3, <1>4, <1>6 DEF Types
<1>8. HandlesItsConnection' /\ OnlineIsTrue'
  BY <1>2, <1>6 DEF HandlesItsConnection, OnlineIsTrue, Runs
<1>9. Subscribed'
  BY <1>2, <1>4, <1>5, <1>6 DEF Subscribed, OneFilter, Meant, Runs, Idle
<1>10. Returning'
  BY <1>2 DEF Returning, Runs
<1> QED
  BY <1>7, <1>8, <1>9, <1>10

LEMMA SetFilterKeeps == IInv /\ SetFilter => IInv'
<1> SUFFICES ASSUME IInv, SetFilter PROVE IInv'
  OBVIOUS
<1> USE DEF IInv
<1>1. /\ subscriber.pc = "set" /\ subscriber' = [subscriber EXCEPT !.pc = "sub"]
      /\ gw' = [gw EXCEPT !.filter = subscriber.filter]
      /\ UNCHANGED <<stored, client, worker, timer, web, net, broker, counts, excused>>
  BY DEF SetFilter
<1>2. subscriber \in Subscribers
  BY <1>1 DEF Types, Idle
<1>3. subscriber' \in Subscribers /\ subscriber'.pc = "sub"
  BY <1>1, <1>2
<1>4. /\ gw' \in Gateways
      /\ gw'.filter = subscriber.filter /\ gw'.enabled = gw.enabled /\ gw'.url = gw.url
  BY <1>1, <1>2 DEF Types
<1>5. Types'
  BY <1>1, <1>3, <1>4 DEF Types
<1>6. HandlesItsConnection' /\ OnlineIsTrue'
  BY <1>1 DEF HandlesItsConnection, OnlineIsTrue, Runs
<1>7. Subscribed'
  BY <1>1, <1>3, <1>4 DEF Subscribed, OneFilter, Meant, Runs, Idle
<1>8. Returning'
  BY <1>1, <1>4 DEF Returning, Runs
<1> QED
  BY <1>5, <1>6, <1>7, <1>8

LEMMA SubscribeLiveKeeps == IInv /\ SubscribeLive => IInv'
<1> SUFFICES ASSUME IInv, SubscribeLive PROVE IInv'
  OBVIOUS
<1> USE DEF IInv
<1>1. /\ subscriber.pc = "sub" /\ subscriber' = Idle
      /\ broker' = [broker EXCEPT !.subs = IF Runs /\ client.up THEN @ \cup {gw.filter} ELSE @]
      /\ UNCHANGED <<stored, gw, client, worker, timer, web, net, counts, excused>>
  BY DEF SubscribeLive
<1>2. gw.filter \in Filter \cup {None} /\ broker.subs \in SUBSET (Filter \cup {None})
  BY DEF Types
<1>3. /\ broker' \in Brokers
      /\ broker'.avail = broker.avail
      /\ broker'.subs = IF Runs /\ client.up THEN broker.subs \cup {gw.filter} ELSE broker.subs
  BY <1>1, <1>2 DEF Types
<1>4. Types'
  BY <1>1, <1>3 DEF Types
<1>5. HandlesItsConnection' /\ OnlineIsTrue'
  BY <1>1, <1>3 DEF HandlesItsConnection, OnlineIsTrue, Runs
<1>6. Subscribed'
  BY <1>1, <1>3 DEF Subscribed, OneFilter, Meant, Runs, Idle
<1>7. Returning'
  BY <1>1 DEF Returning, Runs
<1> QED
  BY <1>4, <1>5, <1>6, <1>7

-----------------------------------------------------------------------------
LEMMA NextKeeps == IInv /\ [Next]_vars => IInv'
<1> SUFFICES ASSUME IInv, [Next]_vars PROVE IInv'
  OBVIOUS
<1>1. CASE UNCHANGED vars
  <2>1. UNCHANGED <<Connection, stored, gw, worker, timer, web, net, counts>>
    BY <1>1 DEF vars, Connection
  <2>2. HandlesItsConnection' /\ OnlineIsTrue' /\ Subscribed'
    BY <2>1, ConnectionKept
  <2>3. Types' /\ Returning'
    BY <2>1 DEF IInv, Types, Returning, Runs, Connection
  <2> QED
    BY <2>2, <2>3 DEF IInv
<1>2. CASE Start \/ Credentials \/ Deferred \/ Rearm
  BY <1>2, StartKeeps, CredentialsKeeps, DeferredKeeps, RearmKeeps
<1>3. CASE Connects \/ OnConnected \/ Subscribes \/ TellsOnline \/ Breaks \/ OnDisconnected
  BY <1>3, ConnectsKeeps, OnConnectedKeeps, SubscribesKeeps, TellsOnlineKeeps, BreaksKeeps, OnDisconnectedKeeps
<1>4. CASE Publish \/ Message \/ Disable \/ ArmRearm
  BY <1>4, PublishesKeeps, DisableKeeps, ArmRearmKeeps
<1>5. CASE StaUp \/ TearDown \/ ArmStart
  BY <1>5, StaUpKeeps, TearDownKeeps, ArmStartKeeps
<1>6. CASE (\E doc \in Request : Apply(doc)) \/ SetRoot \/ SetUrl \/ SetEnabled
  BY <1>6, ApplyKeeps, SetRootKeeps, SetUrlKeeps, SetEnabledKeeps
<1>7. CASE (\E f \in Filter : Subscribe(f)) \/ SetFilter \/ SubscribeLive
  BY <1>7, SubscribeKeeps, SetFilterKeeps, SubscribeLiveKeeps
<1> QED
  BY <1>1, <1>2, <1>3, <1>4, <1>5, <1>6, <1>7 DEF Next

\* The state has its types, and what the handler, the timers and the two callers leave half done
\* always leads back to a client.
THEOREM Inductive == Spec => []IInv
<1> QED
  BY Initially, NextKeeps, PTL DEF Spec

LEMMA InvariantTells == IInv => SettingsFollowed
<1> SUFFICES ASSUME IInv PROVE SettingsFollowed
  OBVIOUS
<1>1. KeepsTrying
  BY DEF IInv, Returning, KeepsTrying, Idle
<1> QED
  BY <1>1 DEF IInv, Subscribed, SettingsFollowed

\* Whatever order connections, failures, timers, settings and calls come in, MQTT that is wanted has a client or
\* something that makes one, no topic says online for a connection that is broken, and a connected client
\* is subscribed to the filter set last and to no other.
THEOREM SettingsAreFollowed == Spec => []SettingsFollowed
<1> QED
  BY Inductive, InvariantTells, PTL
=============================================================================
