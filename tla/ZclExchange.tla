---------------------------- MODULE ZclExchange -----------------------------
(***************************************************************************)
(* What the hub says to devices and hears from them: the commands of       *)
(* components/zigbee_mgr/zcl_commands.cpp, and the way of an incoming      *)
(* frame through zigbee_mgr.cpp, from on_af_incoming_msg on the radio's    *)
(* task to zcl_attr_task.                                                  *)
(*                                                                         *)
(* A frame is a ZCL header - cluster specific or global, of a manufacturer *)
(* or not, asking for a default response or not - with the bytes after the *)
(* frame control in order, and a kind that stands for cluster, command and *)
(* body.  A request to the radio either puts the frame on the air or not,  *)
(* and its answer may be lost; ZnpDriver has the details.  Devices answer  *)
(* what they are asked, late or never, and send frames of their own.       *)
(***************************************************************************)
EXTENDS Naturals, Sequences

CONSTANTS
    Device,         \* network addresses
    Unknown,        \* those that no device of the pool has
    Caller,         \* tasks of the hub that call
    Sendable,       \* the commands they send, of Command below
    Depth,          \* ZCL_QUEUE_DEPTH
    SeqMod          \* TSNs are 1..SeqMod - 1

CONSTANTS           \* bounds of the state space
    MaxActs         \* calls of the hub and frames the devices send by themselves

VARIABLES
    seq,        \* s_zcl_seq
    air,        \* frames the hub has sent and that may still be answered
    rx,         \* the radio's task, between the interceptor's claim and the queue
    queue,      \* s_zcl_queue
    slot,       \* the group waiter: expected address (0: none) and TSN, semaphore, buffer
    call,       \* the tasks in zigbee_zcl_get_group_membership
    acts,       \* the bound's counter
    worked,     \* history: the frame zcl_attr_task has finished with in this step, and what it answered,
    crossed     \*          tasks whose call overlapped another one, or began with an answer being taken

vars == <<seq, air, rx, queue, slot, call, acts, worked, crossed>>

Nobody == 0
Idle   == [pc |-> "idle"]

Init ==
    /\ seq = 0 /\ air = {} /\ rx = Idle /\ queue = <<>>
    /\ slot = [nwk |-> Nobody, tsn |-> 0, given |-> FALSE, buf |-> <<>>]
    /\ call = [c \in Caller |-> Idle]
    /\ acts = 0 /\ worked = {} /\ crossed = {}

Act == acts < MaxActs /\ acts' = acts + 1

\* zcl_seq_next skips 0.
NextSeq(s) == IF s + 1 = SeqMod THEN 1 ELSE s + 1

-----------------------------------------------------------------------------
\* The frames the hub builds: whether a repetition is harmless, how often the radio is asked then,
\* whether a default response is wanted, and the kind of the device's answer.
Built(again, tries, quiet, answer) == [again |-> again, tries |-> tries, quiet |-> quiet, answer |-> answer]

OnOff           == Built(FALSE, 1, FALSE, "dr")
GroupAdd        == Built(FALSE, 1, FALSE, "status")
GroupRemove     == Built(FALSE, 1, FALSE, "status")
Identify        == Built(FALSE, 1, FALSE, "dr")
GetMembership   == Built(TRUE, 2, FALSE, "groups")
Level           == Built(FALSE, 1, FALSE, "dr")
ColorTemp       == Built(FALSE, 1, FALSE, "dr")
GenTimeResponse == Built(TRUE, 2, TRUE, "none")
DefaultResponse == Built(TRUE, 1, TRUE, "none")
ReadAttr        == Built(TRUE, 2, FALSE, "read")
WriteAttr       == Built(TRUE, 2, FALSE, "written")
ConfigureReport == Built(TRUE, 2, FALSE, "configured")
ClusterCommand(quiet) == Built(FALSE, 1, quiet, "dr")
MagicPacket     == Built(TRUE, 2, FALSE, "read")
SetZones        == Built(FALSE, 1, FALSE, "dr")
TuyaSetup       == Built(FALSE, 1, TRUE, "none")

Command == [on_off |-> OnOff, group_add |-> GroupAdd, group_remove |-> GroupRemove, identify |-> Identify,
            level |-> Level, color_temp |-> ColorTemp, read |-> ReadAttr, write |-> WriteAttr,
            report |-> ConfigureReport, cluster |-> ClusterCommand(FALSE), cluster_quiet |-> ClusterCommand(TRUE),
            magic |-> MagicPacket, zones |-> SetZones, setup |-> TuyaSetup]

\* af_data_request: what may be on the air afterwards.
Sent(d, b, tsn) == {{}} \cup {{[to |-> d, tsn |-> tsn, answer |-> b.answer, copy |-> n] : n \in 1..k} : k \in 1..b.tries}

Send(c, d, name) ==
    /\ call[c] = Idle /\ Act
    /\ seq' = NextSeq(seq)
    /\ \E more \in Sent(d, Command[name], seq') : air' = air \cup more
    /\ UNCHANGED <<rx, queue, slot, call, crossed>>

-----------------------------------------------------------------------------
\* The devices.

\* Frame control and the bytes after it; the manufacturer's code comes before the TSN.
Frame(d, kind, cs, mfg, quiet, group, tsn, id) ==
    [from |-> d, kind |-> kind, cs |-> cs, mfg |-> mfg, quiet |-> quiet, group |-> group, id |-> id,
     bytes |-> IF mfg THEN <<0, 0, tsn, kind>> ELSE <<tsn, kind>>]

Heard(f) == rx = Idle /\ rx' = [pc |-> "in", frame |-> f]

\* Reports, commands of a button, reads of the time, enrol requests; alone or to a group.
Own == [kind : {"report", "press", "time", "enroll"}, mfg : BOOLEAN, quiet : BOOLEAN, group : BOOLEAN]

Speaks(d, o) ==
    /\ Act
    /\ Heard(Frame(d, o.kind, o.kind \in {"press", "enroll"}, o.mfg, o.quiet, o.group, acts', <<"own", acts'>>))
    /\ UNCHANGED <<seq, air, queue, slot, call, crossed>>

Answers(h) ==
    /\ air' = air \ {h} /\ h.answer # "none"
    /\ \E quiet \in BOOLEAN :
          Heard(Frame(h.to, h.answer, h.answer \in {"groups", "status"}, FALSE, quiet, FALSE, h.tsn, <<"to", h.tsn, h.copy>>))
    /\ UNCHANGED <<seq, queue, slot, call, acts, crossed>>

-----------------------------------------------------------------------------
\* on_af_incoming_msg, on the radio's task.

SecondByte(f) == f.bytes[1]   \* mutant
Tsn(f) == f.bytes[IF f.mfg THEN 3 ELSE 1]
CommandId(f) == f.bytes[IF f.mfg THEN 4 ELSE 2]

\* zigbee_zcl_groups_on_af_incoming, with no lock: the address expected is read, then the number expected,
\* then the waiter is claimed if the address is still there.
Onward(yes, next) ==
    /\ rx' = [rx EXCEPT !.pc = IF yes THEN next ELSE "queue"]
    /\ UNCHANGED <<seq, air, queue, call, acts, crossed>>

Membership(f) == CommandId(f) = "groups"
Expected(f)   == f.from = slot.nwk
SameTsn(f)    == Tsn(f) = slot.tsn

LookNwk == rx.pc = "in" /\ Membership(rx.frame) /\ Onward(Expected(rx.frame), "tsn") /\ UNCHANGED slot
LookTsn == rx.pc = "tsn" /\ Onward(SameTsn(rx.frame), "claim") /\ UNCHANGED slot

Claim ==
    /\ rx.pc = "claim" /\ Onward(Expected(rx.frame), "give")
    /\ slot' = IF Expected(rx.frame) THEN [slot EXCEPT !.nwk = Nobody] ELSE slot

Give ==
    /\ rx.pc = "give"
    /\ slot' = [slot EXCEPT !.buf = <<rx.frame>>, !.given = TRUE]
    /\ rx' = [rx EXCEPT !.pc = "queue"]
    /\ UNCHANGED <<seq, air, queue, call, acts, crossed>>

\* Full: the oldest frame makes room.
Enqueue ==
    /\ rx.pc = "queue" \/ (rx.pc = "in" /\ ~Membership(rx.frame))
    /\ queue' = Append(IF Len(queue) < Depth THEN queue ELSE Tail(queue), rx.frame)
    /\ rx' = Idle
    /\ UNCHANGED <<seq, air, slot, call, acts, crossed>>

-----------------------------------------------------------------------------
\* zcl_attr_task.

\* zcl_maybe_respond_gen_time, zcl_maybe_respond_ias_enroll.
GenTime(f)   == CommandId(f) = "time" /\ ~f.cs /\ ~f.mfg
IasEnroll(f) == CommandId(f) = "enroll" /\ f.cs

\* zcl_global_cmd_wants_default_response.
WantsDefaultResponse(cmd) == cmd \notin {"dr", "read", "written", "configured"}

\* zcl_send_default_response_if_needed.
NeedsDefaultResponse(f) == ~f.group /\ ~f.quiet /\ (f.cs \/ WantsDefaultResponse(CommandId(f)))

Reply(f, built, tsn) == [built |-> built, tsn |-> tsn, mfg |-> f.mfg]

\* What the task answers, in order; the write of the hub's address comes before the enrol response,
\* and both draw a TSN.
Replies(f) ==
    IF GenTime(f) THEN <<Reply(f, GenTimeResponse, Tsn(f))>>
    ELSE IF IasEnroll(f) THEN <<Reply(f, WriteAttr, NextSeq(seq)), Reply(f, ClusterCommand(FALSE), NextSeq(NextSeq(seq)))>>
    ELSE IF NeedsDefaultResponse(f) THEN <<Reply(f, DefaultResponse, Tsn(f))>>
    ELSE <<>>

\* Frames from addresses the pool does not know are dropped.
Work ==
    /\ queue # <<>> /\ queue' = Tail(queue)
    /\ LET f == Head(queue)
       IN  IF f.from \in Unknown THEN UNCHANGED <<seq, air>> /\ worked' = {}
           ELSE /\ worked' = {[frame |-> f, replies |-> Replies(f)]}
                /\ seq' = IF IasEnroll(f) THEN NextSeq(NextSeq(seq)) ELSE seq
                /\ LET r == Replies(f)
                   IN  CASE Len(r) = 0 -> UNCHANGED air
                         [] Len(r) = 1 -> \E a \in Sent(f.from, r[1].built, r[1].tsn) : air' = air \cup a
                         [] Len(r) = 2 -> \E a \in Sent(f.from, r[1].built, r[1].tsn), b \in Sent(f.from, r[2].built, r[2].tsn) :
                                             air' = air \cup a \cup b
    /\ UNCHANGED <<rx, slot, call, acts, crossed>>

-----------------------------------------------------------------------------
\* zigbee_zcl_get_group_membership.

Step(c, pc, next) == call[c].pc = pc /\ call' = [call EXCEPT ![c].pc = next]

\* The radio's task is between its look at the address and its give.
Taking == {"tsn", "claim", "give"}

\* A stale give is flushed.
Flush(c, d) ==
    /\ call[c].pc \in {"idle", "done"}
    /\ Act
    /\ seq' = NextSeq(seq)
    /\ slot' = [slot EXCEPT !.given = FALSE, !.buf = <<>>]
    /\ call' = [call EXCEPT ![c] = [pc |-> "tsn", nwk |-> d, tsn |-> seq']]
    /\ crossed' = LET others == {o \in Caller \ {c} : call[o].pc \notin {"idle", "done"}}
                  IN  IF others = {} /\ rx.pc \notin Taking THEN crossed \ {c} ELSE crossed \cup others \cup {c}
    /\ UNCHANGED <<air, rx, queue>>

ArmTsn(c) ==
    /\ Step(c, "tsn", "nwk") /\ slot' = [slot EXCEPT !.tsn = call[c].tsn]
    /\ UNCHANGED <<seq, air, rx, queue, acts, crossed>>

ArmNwk(c) ==
    /\ Step(c, "nwk", "send") /\ slot' = [slot EXCEPT !.nwk = call[c].nwk]
    /\ UNCHANGED <<seq, air, rx, queue, acts, crossed>>

SlotCleared == [slot EXCEPT !.nwk = Nobody]

Fails(c) == call' = [call EXCEPT ![c] = Idle]

\* The radio refuses it, or its answer is lost; the frame may be on the air.
Ask(c) ==
    /\ call[c].pc = "send"
    /\ \E more \in Sent(call[c].nwk, GetMembership, call[c].tsn) : air' = air \cup more
    /\ \/ Step(c, "send", "wait") /\ UNCHANGED slot
       \/ Fails(c) /\ slot' = [slot EXCEPT !.nwk = Nobody]
    /\ UNCHANGED <<seq, rx, queue, acts, crossed>>

Answered(c) ==
    /\ call[c].pc = "wait" /\ slot.given
    /\ slot' = [slot EXCEPT !.given = FALSE, !.nwk = IF slot.buf = <<>> THEN Nobody ELSE @]
    /\ call' = [call EXCEPT ![c] = IF slot.buf = <<>> THEN Idle
                                   ELSE [pc |-> "done", nwk |-> call[c].nwk, tsn |-> call[c].tsn, got |-> slot.buf[1]]]
    /\ UNCHANGED <<seq, air, rx, queue, acts, crossed>>

TimesOut(c) ==
    /\ call[c].pc = "wait" /\ ~slot.given
    /\ slot' = SlotCleared /\ Fails(c)
    /\ UNCHANGED <<seq, air, rx, queue, acts, crossed>>

-----------------------------------------------------------------------------
Next ==
    \/ Work
    \/ /\ worked' = {}
       /\ \/ \E c \in Caller : \/ \E d \in Device : (\E name \in Sendable : Send(c, d, name)) \/ Flush(c, d)
                               \/ ArmTsn(c) \/ ArmNwk(c) \/ Ask(c) \/ Answered(c) \/ TimesOut(c)
          \/ (\E d \in Device, o \in Own : Speaks(d, o)) \/ (\E h \in air : Answers(h))
          \/ LookNwk \/ LookTsn \/ Claim \/ Give \/ Enqueue

Spec == Init /\ [][Next]_vars

-----------------------------------------------------------------------------
\* Devices that get no default response repeat their frame: a frame is answered if, and only if, it was
\* sent to the hub alone, asked for it and is not itself an answer - once, under its own number and
\* its own manufacturer.  A read of the time and an enrolment have an answer of their own instead.
AnsweredOnce ==
    \A w \in worked :
        LET acks == {i \in DOMAIN w.replies : w.replies[i].built = DefaultResponse}
            own  == GenTime(w.frame) \/ IasEnroll(w.frame)
            asks == ~w.frame.group /\ ~w.frame.quiet /\ w.frame.kind \notin {"dr", "read", "written", "configured"}
        IN  IF own THEN acks = {} /\ Len(w.replies) > 0
            ELSE /\ (asks <=> Len(w.replies) = 1) /\ (~asks => w.replies = <<>>)
                 /\ \A i \in acks : w.replies[i].mfg = w.frame.mfg /\ w.replies[i].tsn = w.frame.id[2]

\* The membership a caller gets is what the device it asked has answered to this very question: not
\* a late answer to an earlier call, not another device's.  Two cases are excused, where that does happen:
\* calls that overlap share the one waiter; and a call that begins while the radio's task takes the answer to
\* an earlier one may arm the waiter for the same device between that task's look at the number and its claim,
\* which compares the address only (zcl_commands.cpp:247-248), or be given what is being stored.
MembershipIsOfAsked ==
    \A c \in Caller \ crossed : call[c].pc = "done" => call[c].got.from = call[c].nwk /\ Tsn(call[c].got) = call[c].tsn
=============================================================================
