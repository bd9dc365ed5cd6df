------------------------------- MODULE HapJson -------------------------------
(***************************************************************************)
(* The JSON payloads of the frames between the two chips                   *)
(* (components/hap_json).  Each message is enumerated twice: the encoder   *)
(* writes keys on one chip, the decoder reads them back on the other, with *)
(* a default for what is missing or of another type, and a cast to the     *)
(* width of the receiver's field.                                          *)
(*                                                                         *)
(* A document is a function from keys to typed values.  A text is its      *)
(* content, abstracted to a name, and a length; an address is a number     *)
(* written as one.  A payload longer than the frame is refused whole by    *)
(* its encoder and is not sent: here they fit.  Numbers are finite.        *)
(***************************************************************************)
EXTENDS Integers, Sequences, TLC

CONSTANTS
    Buffer,     \* size of the buffers callers decode names and sources into
    MaxList     \* rows a caller of a list decoder has room for

VARIABLES meant, got    \* of the last message: as it should be received, and as it is

vars == <<meant, got>>

-----------------------------------------------------------------------------
\* ArduinoJson: a typed value, and "doc[k] | default".

Num(n)   == [is |-> "int",  v |-> n]
Flag(b)  == [is |-> "bool", v |-> b]
Text(s)  == [is |-> "text", v |-> s]
Addr(x)  == [is |-> "ieee", v |-> x]
X100(n)  == [is |-> "x100", v |-> n]
List(s)  == [is |-> "list", v |-> s]

Refused == "refused" :> Flag(TRUE)
NoText  == [of |-> "", len |-> 0]

Is(doc, k, type)     == k \in DOMAIN doc /\ doc[k].is = type
Or(doc, k, type, no) == IF Is(doc, k, type) THEN doc[k].v ELSE no

Unsigned(doc, k) == LET n == Or(doc, k, "int", 0) IN IF n < 0 THEN 0 ELSE n
Byte(doc, k)     == Unsigned(doc, k) % 256
Narrow(doc, k)   == Unsigned(doc, k) % 256      \* mutant
Half(doc, k)     == Unsigned(doc, k) % 65536
Signed(doc, k)   == Or(doc, k, "int", 0)
True(doc, k)     == Or(doc, k, "bool", FALSE)
Chars(doc, k)    == Or(doc, k, "text", NoText)

\* fmt_ieee, parse_ieee.
fmt_ieee(x)        == Addr(x)
parse_ieee(doc, k) == Or(doc, k, "ieee", 0)

\* strncpy into an array of size bytes, and its terminator.
Cut(s, size) == IF s.len < size THEN s ELSE [s EXCEPT !.len = size - 1]
Copied(doc, k, size) == Cut(Chars(doc, k), size)

When(c, doc) == IF c THEN doc ELSE <<>>
Unless(c, out) == IF c THEN Refused ELSE out

-----------------------------------------------------------------------------
\* Values each kind of field is tried with: its ends, and one past a narrower field.

U8  == {0, 1, 255}
U16 == {0, 256, 65535}
U32 == {0, 65536, 2147483647}
I32 == {-2147483647, -1, 0, 300}
Ieee == {0, 7}
Some(n)   == {[of |-> "a", len |-> l] : l \in {1, n - 1}} \cup {NoText}       \* char[n]
Given(n)  == {[of |-> "b", len |-> l] : l \in {1, n - 1, n}} \cup {NoText}    \* const char*, against n bytes

HapSyncInfo   == [session_id |-> U32, fw_ver |-> Some(32), device_count |-> U16, is_ack |-> BOOLEAN]
HapHeartbeat  ==
    [f \in {"uptime", "heap", "psram_free", "psram_total", "proto_mask", "heap_min_free", "internal_free",
            "internal_min_free", "internal_largest_block", "psram_min_free", "psram_largest_block",
            "task_stack_hwm_bytes"} |-> U32]
    @@ [cpu_pct_c0 |-> U8, cpu_pct_c1 |-> U8, device_count |-> U16]
HapSetAttrReq ==
    [ieee |-> Ieee, ep |-> U8, cluster |-> U16, attr |-> U16, val |-> I32, key |-> Some(24), sval |-> Some(32),
     fval |-> {0, 150}, has_fval |-> BOOLEAN]
HapAlert          == [code |-> 1..5, ieee |-> Ieee, msg |-> Some(80), ts |-> U32]
HapDeviceEvent    == [ieee |-> Ieee, cluster |-> U16, attr |-> U16, val |-> I32, ts |-> U32, val_type |-> {"int", "float"}]
HapRuleExecResult == [ok |-> BOOLEAN, rule_id |-> U16, err |-> Some(64)]
HapRuleSlotInfo   == [rule_id |-> U16, rule_type |-> {0}, enabled |-> BOOLEAN, name |-> Some(24), src |-> Some(128)]
HapScriptInfo     == [name |-> Some(25), size |-> U16]
HapOtaStatus      == [ok |-> BOOLEAN, rcvd |-> U32, total |-> U32, err |-> Some(64)]
HapBindReq        == [src_ieee |-> Ieee, src_ep |-> U8, cluster |-> U16, dst_ieee |-> Ieee, dst_ep |-> U8, unbind |-> BOOLEAN]
HapMqttMsgIn      == [topic |-> Given(64), payload |-> Given(256)]
HapMqttPublish    == [topic |-> Some(128), payload |-> Some(512), qos |-> U8, retain |-> BOOLEAN]

\* Messages that differ from one of their struct in at most two fields.
Plain(struct)    == [f \in DOMAIN struct |-> CHOOSE v \in struct[f] : TRUE]
Messages(struct) ==
    UNION {{[Plain(struct) EXCEPT ![f] = v, ![g] = w] : v \in struct[f], w \in struct[g]} :
           f \in DOMAIN struct, g \in DOMAIN struct}

-----------------------------------------------------------------------------
\* SYNC, HEARTBEAT, ALERT.

encode_sync_req(m) ==
    "proto_ver" :> Num(1) @@ "fw_ver" :> Text(m.fw_ver) @@ "session_id" :> Num(m.session_id) @@ "is_ack" :> Flag(FALSE)
encode_sync_ack(m) ==
    "device_count" :> Num(m.device_count) @@ "is_ack" :> Flag(TRUE) @@ encode_sync_req(m)
decode_sync(doc) ==
    [session_id |-> Unsigned(doc, "session_id"), device_count |-> Half(doc, "device_count"),
     is_ack |-> True(doc, "is_ack"), fw_ver |-> Copied(doc, "fw_ver", 32)]

HeartbeatKeys ==
    [uptime |-> "uptime", heap |-> "heap", psram_free |-> "psram_free", psram_total |-> "psram_total",
     cpu_c0 |-> "cpu_pct_c0", cpu_c1 |-> "cpu_pct_c1", proto_mask |-> "proto_mask", heap_min |-> "heap_min_free",
     int_free |-> "internal_free", int_min |-> "internal_min_free", int_blk |-> "internal_largest_block",
     psram_min |-> "psram_min_free", psram_blk |-> "psram_largest_block", stack_hwm |-> "task_stack_hwm_bytes",
     dev_count |-> "device_count"]
encode_heartbeat(m) == [k \in DOMAIN HeartbeatKeys |-> Num(m[HeartbeatKeys[k]])]
decode_heartbeat(doc) ==
    [uptime |-> Unsigned(doc, "uptime"), cpu_pct_c0 |-> Byte(doc, "cpu_c0"), cpu_pct_c1 |-> Byte(doc, "cpu_c1"),
     heap |-> Unsigned(doc, "heap"), psram_free |-> Unsigned(doc, "psram_free"),
     psram_total |-> Unsigned(doc, "psram_total"), proto_mask |-> Unsigned(doc, "proto_mask"),
     heap_min_free |-> Unsigned(doc, "heap_min"), internal_free |-> Unsigned(doc, "int_free"),
     internal_min_free |-> Unsigned(doc, "int_min"), internal_largest_block |-> Unsigned(doc, "int_blk"),
     psram_min_free |-> Unsigned(doc, "psram_min"), psram_largest_block |-> Unsigned(doc, "psram_blk"),
     task_stack_hwm_bytes |-> Unsigned(doc, "stack_hwm"), device_count |-> Half(doc, "dev_count")]

encode_alert(m) ==
    "code" :> Num(m.code) @@ "ieee" :> fmt_ieee(m.ieee) @@ "msg" :> Text(m.msg) @@ "ts" :> Num(m.ts)
decode_alert(doc) ==
    [code |-> Byte(doc, "code"), ieee |-> parse_ieee(doc, "ieee"), msg |-> Copied(doc, "msg", 80), ts |-> Unsigned(doc, "ts")]

-----------------------------------------------------------------------------
\* Messages about one device.

encode_get_device_req(m)  == "ieee" :> fmt_ieee(m.ieee)
decode_get_device_req(doc) == Unless(~Is(doc, "ieee", "ieee"), [ieee |-> parse_ieee(doc, "ieee")])
encode_device_join(m)     == "ieee" :> fmt_ieee(m.ieee)
decode_device_join(doc)   == Unless(~Is(doc, "ieee", "ieee"), [ieee |-> parse_ieee(doc, "ieee")])
encode_interview_req(m)   == "ieee" :> fmt_ieee(m.ieee)
decode_interview_req(doc) == Unless(parse_ieee(doc, "ieee") = 0, [ieee |-> parse_ieee(doc, "ieee")])

encode_device_set_name(m) == "ieee" :> fmt_ieee(m.ieee) @@ "name" :> Text(m.name)
decode_device_set_name(doc) ==
    Unless(~Is(doc, "ieee", "ieee"), [ieee |-> parse_ieee(doc, "ieee"), name |-> Copied(doc, "name", Buffer)])

decode_group_query(doc) ==
    Unless(~Is(doc, "ieee", "ieee"), [ieee |-> parse_ieee(doc, "ieee"), ep |-> Or(doc, "ep", "int", 1)])

encode_device_delete(m) == "ieee" :> fmt_ieee(m.ieee) @@ When(m.hard, "hard" :> Flag(TRUE))
decode_device_delete(doc) ==
    Unless(parse_ieee(doc, "ieee") = 0, [ieee |-> parse_ieee(doc, "ieee"), hard |-> True(doc, "hard")])

encode_set_attr(m) ==
    "ieee" :> fmt_ieee(m.ieee) @@ "ep" :> Num(m.ep) @@ "cl" :> Num(m.cluster) @@ "at" :> Num(m.attr) @@ "val" :> Num(m.val)
    @@ When(m.key # NoText, "key" :> Text(m.key)) @@ When(m.sval # NoText, "sval" :> Text(m.sval))
    @@ When(m.has_fval, "fval" :> X100(m.fval))
decode_set_attr(doc) ==
    [ieee |-> parse_ieee(doc, "ieee"), ep |-> Byte(doc, "ep"), cluster |-> Half(doc, "cl"), attr |-> Half(doc, "at"),
     val |-> Signed(doc, "val"), key |-> Copied(doc, "key", 24), sval |-> Copied(doc, "sval", 32),
     has_fval |-> Is(doc, "fval", "x100"), fval |-> Or(doc, "fval", "x100", 0)]

encode_bind_req(m) ==
    "src_ieee" :> fmt_ieee(m.src_ieee) @@ "src_ep" :> Num(m.src_ep) @@ "cluster" :> Num(m.cluster)
    @@ "dst_ieee" :> fmt_ieee(m.dst_ieee) @@ "dst_ep" :> Num(m.dst_ep) @@ "unbind" :> Flag(m.unbind)
decode_bind_req(doc) ==
    Unless(0 \in {parse_ieee(doc, "src_ieee"), parse_ieee(doc, "dst_ieee")},
           [src_ieee |-> parse_ieee(doc, "src_ieee"), src_ep |-> Byte(doc, "src_ep"), cluster |-> Half(doc, "cluster"),
            dst_ieee |-> parse_ieee(doc, "dst_ieee"), dst_ep |-> Byte(doc, "dst_ep"), unbind |-> True(doc, "unbind")])

\* A null pointer leaves a key out; the decoder answers -1 for it.
Options == {"occupancy_timeout", "debounce_ms", "throttle_ms"}
encode_device_options_set(m) ==
    "ieee" :> fmt_ieee(m.ieee) @@ [k \in {o \in Options : m.given[o]} |-> Num(m.value[k])]
decode_device_options_set(doc) ==
    Unless(parse_ieee(doc, "ieee") = 0,
           [ieee |-> parse_ieee(doc, "ieee"), value |-> [o \in Options |-> Or(doc, o, "int", -1)]])
encode_device_options_ack(m)   == "ok" :> Flag(m.ok)
decode_device_options_ack(doc) == [ok |-> True(doc, "ok")]

\* Readings: one event, many in a frame, and one attribute for the browser.
Reading(ev) == IF ev.val_type = "float" THEN X100(ev.val) ELSE Num(ev.val)
encode_device_event(ev) ==
    "ieee" :> fmt_ieee(ev.ieee) @@ "cl" :> Num(ev.cluster) @@ "at" :> Num(ev.attr) @@ "val" :> Reading(ev)
    @@ "vt" :> Text(ev.val_type) @@ "ts" :> Num(ev.ts)
encode_bulk(evs) ==
    Unless(Len(evs) > 50,
        "devs" :> List([i \in DOMAIN evs |->
            "ieee" :> fmt_ieee(evs[i].ieee) @@ "cl" :> Num(evs[i].cluster) @@ "at" :> Num(evs[i].attr)
            @@ "val" :> (IF evs[i].val_type = "float" THEN X100(evs[i].val) ELSE Num(evs[i].val))
            @@ "vt" :> Text(evs[i].val_type) @@ "ts" :> Num(evs[i].ts)]))
encode_device_attr_update(ieee, key, val_type, int_val, str_val) ==
    "type" :> Text("device_update") @@ "ieee" :> fmt_ieee(ieee)
    @@ "attrs" :> (key :> (CASE val_type = "bool"  -> Flag(int_val # 0)
                             [] val_type = "str"   -> Text(str_val)
                             [] val_type = "float" -> X100(int_val)
                             [] OTHER              -> Num(int_val)))

-----------------------------------------------------------------------------
\* A device, as a row of the list and by itself.  A definition's vendor and model stand for what the device
\* reports, if there is one; a cluster of 0 is an empty place.

Shown(label, reported) == IF Cut(label, 32) # NoText THEN Cut(label, 32) ELSE reported
Used(clusters)         == List(SelectSeq(clusters, LAMBDA c : c # 0))
devlist_add_one(d) ==
    "ieee" :> fmt_ieee(d.ieee) @@ "nwk" :> Num(d.nwk) @@ "name" :> Text(d.name) @@ "ep_count" :> Num(Len(d.eps))
    @@ "manufacturer" :> Text(d.manufacturer_name) @@ "vendor" :> Text(Shown(d.vendor, d.manufacturer_name))
    @@ "model" :> Text(Shown(d.model, d.model_id)) @@ "bat_pct" :> Num(d.battery)
    @@ "model_id" :> Text(d.model_id) @@ "known" :> Flag(d.model # NoText)
encode_device_info(d) ==
    "ok" :> Flag(TRUE) @@ "ieee" :> fmt_ieee(d.ieee) @@ "nwk" :> Num(d.nwk) @@ "name" :> Text(d.name)
    @@ "manufacturer" :> Text(d.manufacturer_name) @@ "vendor" :> Text(Shown(d.vendor, d.manufacturer_name))
    @@ "model" :> Text(Shown(d.model, d.model_id)) @@ "bat_pct" :> Num(d.battery) @@ "ep_count" :> Num(Len(d.eps))
    @@ "eps" :> List(d.eps) @@ "clusters" :> List([i \in DOMAIN d.eps |-> Used(d.clusters)])
    @@ "clusters_out" :> List([i \in DOMAIN d.eps |-> Used(d.clusters_out)])

\* The attributes and exposes, n characters each, spliced in before the last brace if they fit.
KeyLen == [attrs |-> 9, exposes |-> 11]     \* ,"attrs": and ,"exposes":
splice(msg, key, n, cap) ==
    LET at == msg.len - 1 + KeyLen[key]
    IN  IF at < cap /\ n \in 1 .. cap - at - 1 THEN [len |-> at + n + 1, has |-> Append(msg.has, key)] ELSE msg
encode_device_info_full(len, attrs, exposes, cap) ==
    splice(splice([len |-> len, has |-> <<"base">>], "attrs", attrs, cap), "exposes", exposes, cap)

-----------------------------------------------------------------------------
\* Rules and scripts.

encode_rule_create(m) == "name" :> Text(m.name) @@ "dsl" :> Text(m.dsl)
decode_rule_create(doc) ==
    Unless(Chars(doc, "dsl") = NoText, [name |-> Copied(doc, "name", Buffer), dsl |-> Copied(doc, "dsl", Buffer)])
encode_rule_delete(m)   == "id" :> Num(m.id)
decode_rule_delete(doc) == Unless(~Is(doc, "id", "int"), [id |-> Half(doc, "id")])
encode_rule_update(m)   == "id" :> Num(m.id) @@ "enabled" :> Flag(m.enabled)
decode_rule_update(doc) == Unless(~Is(doc, "id", "int"), [id |-> Half(doc, "id"), enabled |-> True(doc, "enabled")])
encode_rule_update_dsl(m) == "id" :> Num(m.id) @@ "name" :> Text(m.name) @@ "dsl" :> Text(m.dsl)
decode_rule_update_dsl(doc) ==
    Unless(~Is(doc, "id", "int") \/ Chars(doc, "dsl") = NoText,
           [id |-> Half(doc, "id"), name |-> Copied(doc, "name", Buffer), dsl |-> Copied(doc, "dsl", Buffer)])

First(n, s) == SubSeq(s, 1, IF Len(s) < n THEN Len(s) ELSE n)
encode_rule_list_rsp(slots) ==
    "rules" :> List([i \in DOMAIN slots |->
        "id" :> Num(slots[i].rule_id) @@ "type" :> Num(slots[i].rule_type) @@ "enabled" :> Flag(slots[i].enabled)
        @@ "name" :> Text(slots[i].name) @@ "src" :> Text(slots[i].src)])
decode_rule_list_rsp(doc) ==
    LET rows == First(MaxList, Or(doc, "rules", "list", <<>>))
    IN  [i \in DOMAIN rows |->
            [rule_id |-> Half(rows[i], "id"), rule_type |-> Byte(rows[i], "type"), enabled |-> True(rows[i], "enabled"),
             name |-> Copied(rows[i], "name", 24), src |-> Copied(rows[i], "src", 128)]]
encode_rule_exec_result(m) == "ok" :> Flag(m.ok) @@ "id" :> Num(m.rule_id) @@ "err" :> Text(m.err)
decode_rule_exec_result(doc) == [ok |-> True(doc, "ok"), rule_id |-> Half(doc, "id"), err |-> Copied(doc, "err", 64)]

\* Scripts have to be named, by both sides.
encode_script_write(m) == Unless(m.name = NoText, "name" :> Text(m.name) @@ "src" :> Text(m.src))
decode_script_write(doc) ==
    Unless(Chars(doc, "name") = NoText, [name |-> Copied(doc, "name", Buffer), src |-> Copied(doc, "src", Buffer)])
encode_script_read_rsp(m) == Unless(m.name = NoText, "name" :> Text(m.name) @@ "src" :> Text(m.src))
decode_script_read_rsp(doc) ==
    Unless(Chars(doc, "name") = NoText, [name |-> Copied(doc, "name", Buffer), src |-> Copied(doc, "src", Buffer)])
encode_script_check_req(m) == Unless(m.name = NoText, "name" :> Text(m.name) @@ "src" :> Text(m.src))
decode_script_check_req(doc) ==
    Unless(NoText \in {Chars(doc, "name"), Chars(doc, "src")},
           [name |-> Copied(doc, "name", Buffer), src |-> Copied(doc, "src", Buffer)])
encode_script_delete(m)     == Unless(m.name = NoText, "name" :> Text(m.name))
decode_script_delete(doc)   == Unless(Chars(doc, "name") = NoText, [name |-> Copied(doc, "name", Buffer)])
encode_script_run_req(m)    == Unless(m.name = NoText, "name" :> Text(m.name))
decode_script_run_req(doc)  == Unless(Chars(doc, "name") = NoText, [name |-> Copied(doc, "name", Buffer)])
encode_script_read_req(m)   == Unless(m.name = NoText, "name" :> Text(m.name))
decode_script_read_req(doc) == Unless(Chars(doc, "name") = NoText, [name |-> Copied(doc, "name", Buffer)])
encode_script_check_rsp(m) ==
    "ok" :> Flag(m.ok) @@ When(m.err # NoText, "err" :> Text(m.err)) @@ When(m.line > 0, "line" :> Num(m.line))
decode_script_check_rsp(doc) ==
    [ok |-> True(doc, "ok"), err |-> Copied(doc, "err", Buffer), line |-> Signed(doc, "line")]
encode_script_list_rsp(scripts) ==
    "scripts" :> List([i \in DOMAIN scripts |-> "name" :> Text(scripts[i].name) @@ "size" :> Num(scripts[i].size)])
decode_script_list_rsp(doc) ==
    LET rows == First(MaxList, Or(doc, "scripts", "list", <<>>))
    IN  [i \in DOMAIN rows |-> [name |-> Copied(rows[i], "name", 25), size |-> Half(rows[i], "size")]]

-----------------------------------------------------------------------------
\* The network, the other chip's clock and log, MQTT and updates.

encode_permit_join(m)   == "duration" :> Num(m.duration)
decode_permit_join(doc) == Unless(~Is(doc, "duration", "int"), [duration |-> Signed(doc, "duration") % 256])

encode_zigbee_cfg_set(m) ==
    When(m.channel >= 0, "channel" :> Num(m.channel)) @@ When(m.net_key_hex # NoText, "net_key_hex" :> Text(m.net_key_hex))
    @@ When(m.regenerate, "regenerate" :> Flag(TRUE))
hex_nibble(s) == s.of = "hex"
decode_zigbee_cfg_set(doc) ==
    LET c == Or(doc, "channel", "int", -1)  k == Chars(doc, "net_key_hex")
    IN  [channel |-> IF c \in 11..26 THEN c ELSE -1, net_key |-> IF k.len = 32 /\ hex_nibble(k) THEN k ELSE NoText,
         regenerate |-> True(doc, "regenerate")]
encode_zigbee_cfg_ack(m) == "ok" :> Flag(m.ok) @@ "channel" :> Num(m.channel) @@ "net_key_set" :> Flag(m.net_key_set)
decode_zigbee_cfg_ack(doc) ==
    [ok |-> True(doc, "ok"), channel |-> Signed(doc, "channel") % 256, net_key_set |-> True(doc, "net_key_set")]

encode_mqtt_msg_in(m)   == "topic" :> Text(m.topic) @@ "payload" :> Text(m.payload)
decode_mqtt_msg_in(doc) == [topic |-> Copied(doc, "topic", 64), payload |-> Copied(doc, "payload", 256)]
encode_mqtt_publish(m) ==
    "topic" :> Text(m.topic) @@ "payload" :> Text(m.payload) @@ "qos" :> Num(m.qos) @@ "retain" :> Flag(m.retain)
decode_mqtt_publish(doc) ==
    [topic |-> Copied(doc, "topic", 128), payload |-> Copied(doc, "payload", 512), qos |-> Byte(doc, "qos"),
     retain |-> True(doc, "retain")]
encode_time_sync(m)   == "ts" :> Num(m.ts)
decode_time_sync(doc) == Unless(~Is(doc, "ts", "int"), [ts |-> Unsigned(doc, "ts")])
encode_log_line(m)    == "msg" :> Text(m.msg)
decode_log_line(doc)  == [msg |-> Copied(doc, "msg", Buffer)]
encode_ota_status(m)  == "ok" :> Flag(m.ok) @@ "rcvd" :> Num(m.rcvd) @@ "total" :> Num(m.total) @@ "err" :> Text(m.err)
decode_ota_status(doc) ==
    [ok |-> True(doc, "ok"), rcvd |-> Unsigned(doc, "rcvd"), total |-> Unsigned(doc, "total"), err |-> Copied(doc, "err", 64)]

-----------------------------------------------------------------------------
\* One message after another.  The first argument is what the header promises the receiver.

Delivered(promise, out) == meant' = promise /\ got' = out

Arrays(m, size) == [f \in DOMAIN m |-> IF f \in DOMAIN size THEN Cut(m[f], size[f]) ELSE m[f]]
Buffers == [f \in {"name", "dsl", "src", "msg", "err"} |-> Buffer]
Promised(ok, m) == Unless(~ok, Arrays(m, Buffers))
Sources == [name |-> Given(Buffer), src |-> Given(Buffer)]
Named   == [name |-> Given(Buffer)]

Sync ==
    \E m \in Messages(HapSyncInfo) :
        IF m.is_ack THEN Delivered(m, decode_sync(encode_sync_ack(m)))
                    ELSE Delivered([m EXCEPT !.device_count = 0], decode_sync(encode_sync_req(m)))
Heartbeat == \E m \in Messages(HapHeartbeat) : Delivered(m, decode_heartbeat(encode_heartbeat(m)))
Alert     == \E m \in Messages(HapAlert) : Delivered(m, decode_alert(encode_alert(m)))

OneDevice ==
    \E m \in Messages([ieee |-> Ieee]) :
        \/ Delivered(m, decode_get_device_req(encode_get_device_req(m)))
        \/ Delivered(m, decode_device_join(encode_device_join(m)))
        \/ Delivered(Promised(m.ieee # 0, m), decode_interview_req(encode_interview_req(m)))
SetName  == \E m \in Messages([ieee |-> Ieee, name |-> Given(Buffer)]) :
                Delivered(Promised(TRUE, m), decode_device_set_name(encode_device_set_name(m)))
GroupQuery == \E m \in Messages([ieee |-> Ieee, ep |-> U8]) :
                \/ Delivered(m, decode_group_query("ieee" :> fmt_ieee(m.ieee) @@ "ep" :> Num(m.ep)))
                \/ Delivered([m EXCEPT !.ep = 1], decode_group_query("ieee" :> fmt_ieee(m.ieee)))
DeviceDelete == \E m \in Messages([ieee |-> Ieee, hard |-> BOOLEAN]) :
                Delivered(Promised(m.ieee # 0, m), decode_device_delete(encode_device_delete(m)))
SetAttribute == \E m \in Messages(HapSetAttrReq) :
                Delivered(IF m.has_fval THEN m ELSE [m EXCEPT !.fval = 0], decode_set_attr(encode_set_attr(m)))
Bind         == \E m \in Messages(HapBindReq) :
                Delivered(Promised(m.src_ieee # 0 /\ m.dst_ieee # 0, m), decode_bind_req(encode_bind_req(m)))
DeviceOptions ==
    \/ \E x \in Ieee, given \in [Options -> BOOLEAN], value \in [Options -> {0, 60}] :
          Delivered(Promised(x # 0, [ieee |-> x, value |-> [o \in Options |-> IF given[o] THEN value[o] ELSE -1]]),
                    decode_device_options_set(encode_device_options_set([ieee |-> x, given |-> given, value |-> value])))
    \/ \E m \in Messages([ok |-> BOOLEAN]) : Delivered(m, decode_device_options_ack(encode_device_options_ack(m)))
\* The same reading reads the same by itself, in bulk and in the browser.
Readings ==
    \E ev \in Messages(HapDeviceEvent) :
        \/ Delivered(encode_device_event(ev), encode_bulk(<<ev>>)["devs"].v[1])
        \/ Delivered([val |-> Reading(ev)],
                     [val |-> encode_device_attr_update(ev.ieee, "t", ev.val_type, ev.val, NoText)["attrs"]["t"]])

HapDevice ==
    [ieee |-> Ieee, nwk |-> U16, name |-> Some(30), manufacturer_name |-> Some(33), model_id |-> Some(33),
     vendor |-> Given(32), model |-> Given(32), battery |-> U8, eps |-> {<<>>, <<1>>, <<1, 242>>},
     clusters |-> {<<>>, <<0, 6, 0>>, <<6, 8>>}, clusters_out |-> {<<>>, <<0, 6, 0>>, <<6, 8>>}]
\* A row of the list says what the device's own page says, and both name it as its definition does.
DeviceRow ==
    \E d \in Messages(HapDevice) :
        LET row == devlist_add_one(d)  page == encode_device_info(d)  both == DOMAIN row \cap DOMAIN page
        IN  Delivered([k \in both |-> page[k]] @@ "model_id" :> Text(d.model_id) @@ "known" :> Flag(d.model.len > 0), row)
DevicePage ==
    \E len \in {10, 20}, attrs \in {0, 1, 8}, exposes \in {0, 1, 8}, cap \in 20 .. 56 :
        LET with == len + KeyLen.attrs + attrs
            now  == IF attrs > 0 /\ with <= cap THEN [len |-> with, has |-> <<"base", "attrs">>]
                                               ELSE [len |-> len, has |-> <<"base">>]
            more == now.len + KeyLen.exposes + exposes
        IN  Delivered(IF exposes > 0 /\ more <= cap THEN [len |-> more, has |-> Append(now.has, "exposes")] ELSE now,
                      encode_device_info_full(len, attrs, exposes, cap))

RuleCreate == \E m \in Messages([name |-> Given(Buffer), dsl |-> Given(Buffer)]) :
                Delivered(Promised(m.dsl # NoText, m), decode_rule_create(encode_rule_create(m)))
RuleById   ==
    \/ \E m \in Messages([id |-> U16]) : Delivered(m, decode_rule_delete(encode_rule_delete(m)))
    \/ \E m \in Messages([id |-> U16, enabled |-> BOOLEAN]) : Delivered(m, decode_rule_update(encode_rule_update(m)))
RuleUpdateDsl == \E m \in Messages([id |-> U16, name |-> Given(Buffer), dsl |-> Given(Buffer)]) :
                Delivered(Promised(m.dsl # NoText, m), decode_rule_update_dsl(encode_rule_update_dsl(m)))
RuleList ==
    \E m \in Messages(HapRuleSlotInfo) :
        \E rows \in {<<>>, <<m>>, <<Plain(HapRuleSlotInfo), m>>, <<m, m, Plain(HapRuleSlotInfo)>>} :
            Delivered([rows |-> First(MaxList, rows)], [rows |-> decode_rule_list_rsp(encode_rule_list_rsp(rows))])
RuleResult == \E m \in Messages(HapRuleExecResult) : Delivered(m, decode_rule_exec_result(encode_rule_exec_result(m)))

ScriptSource ==
    \E m \in Messages(Sources) :
        \/ Delivered(Promised(m.name # NoText, m), decode_script_write(encode_script_write(m)))
        \/ Delivered(Promised(m.name # NoText, m), decode_script_read_rsp(encode_script_read_rsp(m)))
        \/ Delivered(Promised(NoText \notin {m.name, m.src}, m), decode_script_check_req(encode_script_check_req(m)))
ScriptByName ==
    \E m \in Messages(Named) :
        \/ Delivered(Promised(m.name # NoText, m), decode_script_delete(encode_script_delete(m)))
        \/ Delivered(Promised(m.name # NoText, m), decode_script_run_req(encode_script_run_req(m)))
        \/ Delivered(Promised(m.name # NoText, m), decode_script_read_req(encode_script_read_req(m)))
ScriptChecked == \E m \in Messages([ok |-> BOOLEAN, err |-> Given(Buffer), line |-> {0, 1, 300}]) :
                Delivered(Promised(TRUE, m), decode_script_check_rsp(encode_script_check_rsp(m)))
ScriptList ==
    \E m \in Messages(HapScriptInfo) :
        \E rows \in {<<>>, <<m>>, <<m, m, Plain(HapScriptInfo)>>} :
            Delivered([rows |-> First(MaxList, rows)], [rows |-> decode_script_list_rsp(encode_script_list_rsp(rows))])

PermitJoin == \E m \in Messages([duration |-> U8]) : Delivered(m, decode_permit_join(encode_permit_join(m)))
Keys == {[of |-> "hex", len |-> n] : n \in {31, 32, 33}} \cup {[of |-> "junk", len |-> 32], NoText}
ZigbeeConfig ==
    \/ \E m \in Messages([channel |-> {-1, 10, 11, 26, 27}, net_key_hex |-> Keys, regenerate |-> BOOLEAN]) :
          Delivered([channel |-> IF m.channel \in 11..26 THEN m.channel ELSE -1,
                     net_key |-> IF m.net_key_hex = [of |-> "hex", len |-> 32] THEN m.net_key_hex ELSE NoText,
                     regenerate |-> m.regenerate],
                    decode_zigbee_cfg_set(encode_zigbee_cfg_set(m)))
    \/ \E m \in Messages([ok |-> BOOLEAN, channel |-> U8, net_key_set |-> BOOLEAN]) :
          Delivered(m, decode_zigbee_cfg_ack(encode_zigbee_cfg_ack(m)))
Mqtt ==
    \/ \E m \in Messages(HapMqttMsgIn) :
          Delivered(Arrays(m, [topic |-> 64, payload |-> 256]), decode_mqtt_msg_in(encode_mqtt_msg_in(m)))
    \/ \E m \in Messages(HapMqttPublish) : Delivered(m, decode_mqtt_publish(encode_mqtt_publish(m)))
TimeSync  == \E m \in Messages([ts |-> U32]) : Delivered(m, decode_time_sync(encode_time_sync(m)))
LogLine   == \E m \in Messages([msg |-> Given(Buffer)]) : Delivered(Promised(TRUE, m), decode_log_line(encode_log_line(m)))
OtaStatus == \E m \in Messages(HapOtaStatus) : Delivered(m, decode_ota_status(encode_ota_status(m)))

Init == meant = Refused /\ got = Refused
Next ==
    /\ "refused" \in DOMAIN meant
    /\ \/ Sync \/ Heartbeat \/ Alert
       \/ OneDevice \/ SetName \/ GroupQuery \/ DeviceDelete \/ SetAttribute \/ Bind \/ DeviceOptions \/ Readings
       \/ DeviceRow \/ DevicePage
       \/ RuleCreate \/ RuleById \/ RuleUpdateDsl \/ RuleList \/ RuleResult
       \/ ScriptSource \/ ScriptByName \/ ScriptChecked \/ ScriptList
       \/ PermitJoin \/ ZigbeeConfig \/ Mqtt \/ TimeSync \/ LogLine \/ OtaStatus

\* Whatever is sent arrives as the header promises: every field the receiver has is the sender's, a text
\* no longer than the receiver's array, and a message without its subject is refused.
Carried == got = meant
=============================================================================
