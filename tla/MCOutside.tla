----------------------------- MODULE MCOutside ------------------------------
(***************************************************************************)
(* The texts of the rules, and the ways out: to MQTT and Home Assistant,   *)
(* to Telegram and to the network chip.  Parts that share no state here: a *)
(* behaviour explores the one that part names, and leaves the others as    *)
(* they start.                                                             *)
(* Client: one broker address, two root topics, two filters; requests that *)
(* move the root topic, set address and enabled together or apart.         *)
(* Bridge: a battery device and the hub, two entities, two prefixes: p is  *)
(* set at boot, under q the record has room for one entity.                *)
(* Discovery: exposes of thermostats, lights, covers, locks, fans and      *)
(* others, four at a time.                                                 *)
(* Frames: three on the line, with payloads that look like a preamble.     *)
(* Messages: each kind, its fields present, left out and cut.              *)
(* Rows: three devices, the weight of one past a page, two of the same     *)
(* hash.  Telegram: two senders, texts to escape, cut and refuse.          *)
(* Metrics: two tasks, two cores, two samples, three increments.           *)
(* Rules: texts with words one too long, one that just fits and others,    *)
(* and events for them; INT32_MAX at 3000.  Expressions: up to six tokens, *)
(* INT32_MAX at 3, room for five operations, three values and two          *)
(* parentheses.  Schedules: a calendar of two months of two weeks of three *)
(* days, with steps, ranges and lists in each field.                       *)
(***************************************************************************)
EXTENDS MqttGateway, Integers, TLC

CONSTANTS hub, d1, e1, e2, p, q

VARIABLES part,
          pool, conf, caller, queue, task, was, pub, up, retained, silent, calls, pardon,
          exposes, used, entities, unfit, pc,
          wire, buf, intact, gone, decoded, resynced,
          meant, got,
          rows, index, owes, list, joins,
          asking, sender, m, link, nvs, outbox, poster, posted, accepted, configs, sends,
          kind, value, counter, op, setting, reader, begun, ended, incs, set, reads,
          words, st, written, rule, heard, fired, sent, expr, asked, from, now, answer

Req(root, url, enabled) == [root |-> root, url |-> url, enabled |-> enabled]
Requests == {Req("s", None, None), Req(None, "u", "yes"), Req(None, "u", None), Req(None, None, "no")}

X(name, type, access, offers) ==
    [name |-> name, type |-> type, pub |-> access # "set", set |-> access # "get", words |-> offers]

Exposes ==
    {X(n, "numeric", "both", {}) : n \in {"current_heating_setpoint", "occupied_heating_setpoint", "brightness",
        "color_temp", "color_x", "color_y", "hue", "position", "tilt"}}
    \cup {X(n, "binary", "both", {}) : n \in {"state", "fan_mode", "fan_state", "lock_state"}}
    \cup {X("system_mode", "enum", a, {"off", "heat"}) : a \in {"get", "both"}}
    \cup {X("preset", "enum", a, {"eco"}) : a \in {"get", "both"}}
    \cup {X("fan_mode", "enum", a, {"off", "low"}) : a \in {"get", "both"}}
    \cup {X("state", "enum", a, {"LOCK", "UNLOCK"}) : a \in {"set", "both"}}
    \cup {X("local_temperature", "numeric", "get", {}), X("saturation", "numeric", "get", {}),
          X("running_state", "enum", "get", {"idle"}), X("running_state", "binary", "get", {}),
          X("fan_mode", "enum", "both", {"off", "on"}), X("state", "binary", "get", {}),
          X("color_xy", "composite", "both", {}), X("state", "enum", "both", {"OPEN", "CLOSE"}),
          X("lock_state", "enum", "get", {"locked"}), X("identify", "enum", "set", {"go"}),
          X("action", "enum", "get", {"single"}), X("action", "enum", "get", {"single", "and more"}),
          X("preset", "enum", "both", {"eco", "and more"}), X("fan_mode", "enum", "both", {"off", "and more"}),
          X("note", "text", "both", {})}

Bridge == INSTANCE HaBridge WITH
    Device <- {d1}, Hub <- hub, Prefix <- {p, q}, Entity <- {e1, e2}, Shapes <- {{e1}, {e1, e2}}, Passive <- {d1},
    Length <- (p :> 1 @@ q :> 2), Room <- 2, Depth <- 2, MaxCalls <- 2, MaxBreaks <- 1, broker <- retained, counts <- calls, excused <- pardon
Discovery == INSTANCE HaDiscovery WITH Menu <- Exposes, kMax <- 4


Byte     == [is |-> "byte", v |-> 1]
Payloads == {<<>>, <<Byte, Byte>>, [i \in 1..3 |-> [is |-> "preamble", v |-> i]]}
Weights  == [d \in {1, 5, 2} |-> IF d = 5 THEN 9 ELSE 3]

Frames   == INSTANCE HapWire WITH Payload <- Payloads, MaxFrames <- 3, MaxRead <- 5, excused <- resynced
Messages == INSTANCE HapJson WITH Buffer <- 24, MaxList <- 2
Pool     == INSTANCE DevicePool WITH
    Device <- {1, 5, 2}, Nwk <- {3, 6}, Task <- {1}, PoolMax <- 3, HashSize <- 4, Weight <- Weights, Budget <- 6,
    MaxJoins <- 3

Word(of, len) == [of |-> of, len |-> len]
Post(text, chat, mode) == [text |-> text, chat |-> chat, mode |-> mode]
Letter == <<65>>  Quote == <<34>>  Bell == <<7>>  TwoBytes == <<195, 169>>  FourBytes == <<240, 159, 152, 128>>
Posts  ==
    {Post(<<Letter, FourBytes>>, Word("", 0), Word("", 0)),
     Post(<<Quote, Quote, TwoBytes>>, Word("x", 5), Word("HTML", 4)),
     Post(<<Bell, TwoBytes, TwoBytes, Letter>>, Word("", 0), Word("bold", 4)),
     Post(<<TwoBytes, TwoBytes, TwoBytes, TwoBytes>>, Word("", 0), Word("", 0)),
     Post(<<Letter>>, Word("y", 33), Word("", 0))}

Telegram == INSTANCE TgGateway WITH
    Sender <- {1, 2}, Message <- Posts, Token <- {Word("t", 80), Word("u", 81)}, Chat <- {Word("c", 32), Word("e", 33)},
    TEXT_MAX <- 7, ESC_CAP <- 6, Depth <- 1, MaxCalls <- 4,
    call <- asking, holder <- sender, queue <- outbox, worker <- poster, count <- sends

Counts == INSTANCE Metrics WITH
    Task <- {1, 2}, Shards <- 2, Sample <- {1, 2}, Least <- 0, Most <- 3,
    MaxSamples <- 2, MaxIncs <- 3, MaxSets <- 2, MaxReads <- 1

-----------------------------------------------------------------------------
\* Texts of rules.

NoWord        == Word("", 0)
WordsOf(of, lens) == {Word(of, n) : n \in lens}
Compare == {"=", "!=", "<", ">", "<=", ">="}
Whole(n)   == [is |-> "int", n |-> n]
Decimal(n) == [is |-> "dec", n |-> n]       \* thousandths
OnDevice(ref, attr, cmp, lit) == [is |-> "device", ref |-> ref, attr |-> attr, op |-> cmp, lit |-> lit]
NoLiteral == [is |-> "unread"]
ADevice   == Word("d", 4)
AnAttr    == Word("temperature", 11)

Triggers ==
    {[is |-> "boot"]}
    \cup {[is |-> k, key |-> w] : k \in {"cron", "event", "timer", "mqtt"}, w \in WordsOf("k", {1, 63, 64})}
    \cup {OnDevice(w, AnAttr, "any", NoLiteral) :
            w \in WordsOf("d", {0, 4, 29, 30}) \cup WordsOf("ieee", {18}) \cup WordsOf("bad ieee", {5})}
    \cup {OnDevice(ADevice, w, "any", NoLiteral) : w \in WordsOf("temperature", {27, 28}) \cup {NoWord}}
    \cup {OnDevice(ADevice, AnAttr, o, l) : o \in Compare,
            l \in {Whole(20), Whole(3000), Whole(-5), Decimal(20050), Decimal(-5), Decimal(40000), Decimal(20),
                   [is |-> "open"], [is |-> "junk"]}}
    \cup {OnDevice(ADevice, AnAttr, o, [is |-> "text", word |-> w]) : o \in {"=", "<", "!="}, w \in WordsOf("on", {2, 47, 48})}

Do(what, args) == [do |-> what, args |-> args]

Actions ==
    {Do("set", <<ADevice, Word("state", 5), w>>) :
        w \in WordsOf("1", {1, 19, 20}) \cup WordsOf("%value%", {7}) \cup WordsOf("expr", {12, 48, 49}) \cup WordsOf("bad expr", {12})}
    \cup {Do("set", <<Word("d", n), Word("state", k), Word("1", 1)>>) : n \in {0, 31, 32}, k \in {5, 31, 32}}
    \cup {Do("toggle", <<Word("d", n), Word("state", k)>>) : n \in {0, 31, 32}, k \in {0, 31, 32}}
    \cup {Do("publish", <<Word("t", n), w>>) :
        n \in {31, 32}, w \in WordsOf("1", {31, 32}) \cup WordsOf("%value%", {7}) \cup WordsOf("expr", {40, 49})}
    \cup {Do("event", <<w>>) : w \in WordsOf("e", {31, 32})}
    \cup {Do("timer", <<Word("1", n), Word("500", k)>>) : n \in {1, 32}, k \in {3, 32}}
    \cup {Do("log", <<w>>) : w \in WordsOf("m", {0, 31, 60})}
    \cup {Do("run", <<w>>) : w \in WordsOf("s", {0, 31, 32}) \cup WordsOf("blank at the cut", {40})}
    \cup {Do("dance", <<>>)}

Reading(ref, attr, type, n, word) == [is |-> "device", ref |-> ref, attr |-> attr, type |-> type, n |-> n, word |-> word]
Mqtt(w) == [is |-> "mqtt", key |-> Word("k", 63), payload |-> w]

Readings ==
    {[is |-> "boot"], [is |-> "timer", key |-> Word("k", 1)], [is |-> "event", key |-> Word("k", 63)],
     Mqtt(Word("digits", 3)), Mqtt(Word("p", 33)),
     Reading("d", AnAttr, "bool", 1, NoWord), Reading("x", AnAttr, "int", 20, NoWord), Reading("d", Word("state", 5), "int", 20, NoWord)}
    \cup {Reading("d", AnAttr, k, n, NoWord) : k \in {"int", "float"}, n \in {20, 2005}}
    \cup {Reading("d", AnAttr, "str", 0, w) : w \in WordsOf("on", {2, 40})}

-----------------------------------------------------------------------------
\* Schedules.

Star(n)   == [star |-> TRUE, step |-> n, ranges |-> {}]
Listed(r) == [star |-> FALSE, step |-> 1, ranges |-> r]
Fields    ==
    [sec |-> {Star(1), Listed({<<1, 1, 1>>})}, min |-> {Star(1), Listed({<<0, 0, 1>>})},
     hour |-> {Star(1), Listed({<<1, 1, 1>>})},
     day |-> {Star(1), Star(2), Listed({<<3, 3, 1>>}), Listed({<<1, 2, 9>>, <<3, 3, 1>>}), Listed({<<2, 4, 1>>})},
     month |-> {Star(1), Star(9), Listed({<<2, 2, 1>>})}, wday |-> {Star(1), Star(2), Listed({<<1, 1, 1>>})},
     from |-> {0, 9, 31, 100, 130, 150}]


Texts == INSTANCE RuleText WITH IntMax <- 3000, text <- written
Expressions == INSTANCE RuleExpr WITH
    Literal <- {0, 2, 4}, IntMax <- 3, EXPR_OPS_MAX <- 5, EXPR_STACK_MAX <- 3, EXPR_PAREN_MAX <- 2, Value <- {-4, 0, 2},
    MaxTokens <- 6, MaxJunk <- 3, text <- words
Schedules == INSTANCE CronNext WITH
    MinuteLen <- 2, HourLen <- 2, DayLen <- 2, WeekLen <- 3, MonthLen <- <<2, 2>>, t <- now

-----------------------------------------------------------------------------
gateway   == vars
bridge    == <<pool, conf, caller, queue, task, was, pub, up, retained, silent, calls, pardon>>
discovery == <<exposes, used, entities, unfit, pc>>
frames    == <<wire, buf, intact, gone, decoded, resynced>>
messages  == <<meant, got>>
table     == <<rows, index, owes, list, joins>>
telegram  == <<asking, sender, m, link, nvs, outbox, poster, posted, accepted, configs, sends>>
texts     == <<written, rule, heard, fired, sent>>
exprs     == <<words, st>>
crons     == <<expr, asked, from, now, answer>>
metrics   == <<kind, value, counter, op, setting, reader, begun, ended, incs, set, reads>>

MCInit ==
    /\ part \in {"gateway", "bridge", "discovery", "frames", "messages", "table", "telegram", "metrics",
                "texts", "exprs", "crons"}
    /\ Init             /\ (part # "gateway" => ~stored.enabled /\ stored.url = None /\ gw.root = "r")
    /\ Bridge!Init      /\ conf.prefix = p /\ (part # "bridge" => ~conf.enabled /\ pool[d1] = {})
    /\ Counts!Init      /\ (part # "metrics" => kind = "value")
    /\ Discovery!Init /\ Messages!Init /\ Pool!Init /\ Telegram!Init
    /\ Expressions!Init
    /\ IF part = "texts" THEN Texts!Init
                         ELSE written = <<>> /\ rule = <<>> /\ heard = <<>> /\ fired = FALSE /\ sent = <<>>
    /\ IF part = "crons" THEN Schedules!Init
                         ELSE expr = <<>> /\ asked = <<>> /\ from = 0 /\ now = 0 /\ answer = 0
    /\ IF part = "frames" THEN Frames!Init
       ELSE wire = <<>> /\ buf = <<>> /\ intact = {} /\ gone = 0 /\ decoded = {} /\ resynced = {}

MCNext ==
    /\ UNCHANGED part
    /\ \/ part = "gateway"   /\ Next
       \/ part = "bridge"    /\ Bridge!Next
       \/ part = "discovery" /\ Discovery!Next
       \/ part = "frames"    /\ Frames!Next
       \/ part = "messages"  /\ Messages!Next
       \/ part = "table"     /\ Pool!Next
       \/ part = "telegram"  /\ Telegram!Next
       \/ part = "metrics"   /\ Counts!Next
       \/ part = "texts"     /\ Texts!Next
       \/ part = "exprs"     /\ Expressions!Next
       \/ part = "crons"     /\ Schedules!Next
    /\ part # "gateway"   => UNCHANGED gateway
    /\ part # "bridge"    => UNCHANGED bridge
    /\ part # "discovery" => UNCHANGED discovery
    /\ part # "frames"    => UNCHANGED frames
    /\ part # "messages"  => UNCHANGED messages
    /\ part # "table"     => UNCHANGED table
    /\ part # "telegram"  => UNCHANGED telegram
    /\ part # "metrics"   => UNCHANGED metrics
    /\ part # "texts"     => UNCHANGED texts
    /\ part # "exprs"     => UNCHANGED exprs
    /\ part # "crons"     => UNCHANGED crons

MCSpec == MCInit /\ [][MCNext]_<<part, gateway, bridge, discovery, frames, messages, table, telegram, metrics,
                              texts, exprs, crons>>

\* See HaBridge and HaDiscovery: nothing is left on the broker of devices and prefixes that are gone, what is
\* there is shown, and every expose that publishes is heard by one entity, and set by it, under a topic of its own.
ShownAndGone ==
    /\ part = "bridge" => Bridge!NoGhosts /\ Bridge!DevicesShown
    /\ part = "discovery" => Discovery!ShownOnce /\ Discovery!TopicsDiffer

\* See HapWire and HapJson: an intact frame is found among noise; a message says to the other chip what it
\* was to say.
ArrivesAsSent ==
    /\ part = "frames" => Frames!FramesFound
    /\ part = "messages" => Messages!Carried

\* See DevicePool: both indices find each device; a list read by pages leaves out none that stayed.
RowsFound == part = "table" => Pool!LookupsFind /\ Pool!PagesComplete

\* See TgGateway: what is posted was asked for by one call, with a token and a chat that were set.
PostsAreAsked == part = "telegram" => Telegram!PostsAreAsked

\* See Metrics: without a lock nothing recorded is lost, and a reading covers what was over before it began.
CountsAddUp == part = "metrics" => Counts!NothingLost /\ Counts!ReadingsCover

\* A rule fires on the events its text names, and an action sends the value its text says; an expression
\* is computed as it reads; a schedule's next time is the first that fits: or the text is refused.
TextsMeanWhatTheySay ==
    /\ part = "texts" => Texts!RuleMeansText
    /\ part = "exprs" => Expressions!ExprMeansText
    /\ part = "crons" => Schedules!NextIsFirst
=============================================================================
