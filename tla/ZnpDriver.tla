----------------------------- MODULE ZnpDriver -----------------------------
(***************************************************************************)
(* Requests to the Zigbee coprocessor (components/znp_driver, and the send *)
(* path of zigbee_mgr/zcl_commands.cpp above it): callers take a slot of   *)
(* the reply pool and queue a request; one worker task transmits it and    *)
(* waits for the answer; the RX task sorts what the coprocessor sends into *)
(* answers, resets and confirmations.                                      *)
(*                                                                         *)
(* A critical section, a hold of the confirm ring's mutex, a semaphore or  *)
(* queue operation is one step; two are merged where the first concerns    *)
(* only the task itself.  Time is not modelled: a bounded wait may end as  *)
(* soon as there is nothing to wait for.                                   *)
(*                                                                         *)
(* A call is numbered and the number stands for its payload and its        *)
(* trans_id; an answer carries the number of the request the coprocessor   *)
(* answers, which is not on the wire: there it has only the command.       *)
(***************************************************************************)
EXTENDS Naturals, Sequences, FiniteSets, FiniteSetsExt

CONSTANTS
    Caller,      \* tasks that send requests
    Cmd, Af,     \* commands (subsystem and cmd1); Af is AF_DATA_REQUEST
    PoolN,       \* REPLY_POOL_N
    ReqCap,      \* depth of s_request_q
    WakeCap,     \* depth of s_wake_q
    ConfN,       \* kSlotCount
    BurstN,      \* RESET_BURST_N
    Attempts     \* max_attempts of a call that may be repeated

CONSTANTS        \* bounds of the state space
    MaxCalls,    \* calls
    MaxResets,   \* resets of the coprocessor
    MaxChan      \* frames on the wire, each way

\* What the code says of its sizes; MCLinks assumes it of the instance.
ConstantsFit ==
    /\ Af \in Cmd
    /\ PoolN \in Nat \ {0} /\ ReqCap \in Nat /\ PoolN <= ReqCap /\ WakeCap \in Nat \ {0}
    /\ ConfN \in Nat /\ BurstN \in Nat \ {0} /\ Attempts \in Nat \ {0}
    /\ MaxCalls \in Nat /\ MaxResets \in Nat /\ MaxChan \in Nat

VARIABLES
    pool,        \* s_slots and s_slot_in_use
    free,        \* s_slot_free_count
    request_q, wake_q,
    active,      \* s_active and its command
    state, bursts,             \* s_state, the entries of s_reset_ts
    confirm,     \* s_slots of znp_confirm.cpp
    call,        \* what each caller is in the middle of
    worker,      \* handle_request in progress
    rx,          \* the frame the RX task is about to queue for the worker
    to_ncp, to_host,           \* the UART
    accepted, delivered,       \* in the coprocessor: requests it took, those it delivered
    calls, resets,             \* history: calls made, resets of the coprocessor,
    gated,                     \* calls that wait for their confirmation,
    done                       \* gated calls that returned true on a confirmation

calling == <<pool, free, call, calls, gated, done>>
link    == <<to_ncp, to_host, accepted, delivered, resets>>
mode    == <<state, bursts>>
vars    == <<calling, link, mode, request_q, wake_q, active, confirm, worker, rx>>

-----------------------------------------------------------------------------
Slot    == 1..PoolN
Ring    == 1..ConfN
NoCmd   == "none"
NoFrame == [kind |-> "none"]
NoReply == [id |-> 0, status |-> "none", ok |-> FALSE]
Unused  == [used |-> FALSE, sem |-> FALSE, reply |-> NoReply]
NoWait  == [used |-> FALSE, trans |-> 0, signaled |-> FALSE, status |-> FALSE, sem |-> FALSE]
Idle    == [step |-> "idle", id |-> 0, cmd |-> NoCmd, conf |-> 0, gate |-> FALSE, slot |-> 0,
            tries |-> 0, status |-> "none", ok |-> FALSE]
Resting == [step |-> "idle", id |-> 0, cmd |-> NoCmd, slot |-> 0, reply |-> NoReply]

Init ==
    /\ pool = [s \in Slot |-> Unused] /\ free = PoolN
    /\ request_q = <<>> /\ wake_q = <<>> /\ active = NoCmd
    /\ state \in {"Init", "Up"} /\ bursts = 0   \* before or after the first SYS_RESET_IND
    /\ confirm = [i \in Ring |-> NoWait]
    /\ call = [c \in Caller |-> Idle]
    /\ worker = Resting /\ rx = NoFrame
    /\ to_ncp = <<>> /\ to_host = <<>> /\ accepted = {} /\ delivered = {}
    /\ calls = 0 /\ resets = 0 /\ gated = {} /\ done = {}

Step(c, s) == call[c].step = s
Goto(c, s) == call' = [call EXCEPT ![c].step = s]

-----------------------------------------------------------------------------
\* Callers: af_data_request or another user of znp_sreq_retry.  A gated call is not repeated.

Begin(c) ==
    /\ Step(c, "idle") /\ calls < MaxCalls
    /\ calls' = calls + 1
    /\ \E m \in Cmd, g \in BOOLEAN :
          /\ g => m = Af
          /\ call' = [call EXCEPT ![c] = [Idle EXCEPT !.step = IF g THEN "reserve" ELSE "take",
                                                      !.id = calls', !.cmd = m, !.gate = g, !.tries = 1]]
          /\ gated' = IF g THEN gated \cup {calls'} ELSE gated
    /\ UNCHANGED <<pool, free, done, link, mode, request_q, wake_q, active, confirm, worker, rx>>

Reserved(w, id) == [NoWait EXCEPT !.used = TRUE, !.trans = id]             \* drains the semaphore

\* znp_confirm_reserve; without a free slot the call goes on without waiting for a confirmation.
Reserve(c) ==
    /\ Step(c, "reserve")
    /\ LET room == {i \in Ring : ~confirm[i].used}
       IN IF room = {} THEN Goto(c, "take") /\ UNCHANGED confirm
          ELSE /\ confirm' = [confirm EXCEPT ![Min(room)] = Reserved(@, call[c].id)]
               /\ call' = [call EXCEPT ![c].step = "take", ![c].conf = Min(room)]
    /\ UNCHANGED <<pool, free, calls, gated, done, link, mode, request_q, wake_q, active, worker, rx>>

Failed(c) == call' = [call EXCEPT ![c] = IF @.conf = 0 THEN Idle ELSE [@ EXCEPT !.step = "release"]]

\* acquire_slot: the counting semaphore, then the slot.
Take(c) ==
    /\ Step(c, "take") /\ free > 0
    /\ free' = free - 1 /\ Goto(c, "pick")
    /\ UNCHANGED <<pool, calls, gated, done, link, mode, request_q, wake_q, active, confirm, worker, rx>>

TakeFails(c) ==
    /\ Step(c, "take") /\ free = 0
    /\ Failed(c)
    /\ UNCHANGED <<pool, free, calls, gated, done, link, mode, request_q, wake_q, active, confirm, worker, rx>>

FreeSlots == {s \in Slot : ~pool[s].used}

Pick(c) ==
    /\ Step(c, "pick")
    /\ IF FreeSlots = {} THEN free' = free + 1 /\ Failed(c) /\ UNCHANGED pool
       ELSE /\ pool' = [pool EXCEPT ![Min(FreeSlots)].used = TRUE, ![Min(FreeSlots)].sem = FALSE]
            /\ call' = [call EXCEPT ![c].step = "post", ![c].slot = Min(FreeSlots)]
            /\ UNCHANGED free
    /\ UNCHANGED <<calls, gated, done, link, mode, request_q, wake_q, active, confirm, worker, rx>>

\* The time-out of a full request queue is left out: RoomForEveryCall shows that it cannot happen.
Post(c) ==
    /\ Step(c, "post") /\ Len(request_q) < ReqCap
    /\ request_q' = Append(request_q, [id |-> call[c].id, cmd |-> call[c].cmd, slot |-> call[c].slot])
    /\ Goto(c, "wait")
    /\ UNCHANGED <<pool, free, calls, gated, done, link, mode, wake_q, active, confirm, worker, rx>>

RepliedOrTired(c) == TRUE                                                  \* mutant
Replied(c) == pool[call[c].slot].sem
Released(s) == Unused                                                      \* nobody reads the old reply

\* The reply is copied and release_slot frees the slot; the semaphore follows in GiveBack.
Woken(c) ==
    LET s == call[c].slot
    IN /\ Step(c, "wait") /\ Replied(c)
       /\ pool' = [pool EXCEPT ![s] = Released(s)]
       /\ call' = [call EXCEPT ![c].step = "give", ![c].status = pool[s].reply.status,
                               ![c].ok = pool[s].reply.ok]
       /\ UNCHANGED <<free, calls, gated, done, link, mode, request_q, wake_q, active, confirm, worker, rx>>

MaySend(c) == call[c].status \in {"timeout", "tx_error", "reset"}
                 /\ call[c].tries < IF call[c].gate THEN 1 ELSE Attempts

GiveBack(c) ==
    /\ Step(c, "give")
    /\ free' = free + 1
    /\ \/ call[c].status = "ok" /\ call[c].ok /\ call[c].conf # 0 /\ Goto(c, "confirm")
       \/ call[c].status = "ok" /\ call[c].ok /\ call[c].conf = 0 /\ call' = [call EXCEPT ![c] = Idle]
       \/ /\ MaySend(c)
          /\ call' = [call EXCEPT ![c].step = "take", ![c].slot = 0, ![c].status = "none", ![c].ok = FALSE, ![c].tries = @ + 1]
       \/ ~MaySend(c) /\ ~(call[c].status = "ok" /\ call[c].ok) /\ Failed(c)
    /\ UNCHANGED <<pool, calls, gated, done, link, mode, request_q, wake_q, active, confirm, worker, rx>>

\* znp_confirm_release.  A give that came too late stays in the semaphore.
Left(w) == [NoWait EXCEPT !.sem = w.sem]

Release(c) ==
    /\ Step(c, "release")
    /\ confirm' = [confirm EXCEPT ![call[c].conf] = Left(@)]
    /\ call' = [call EXCEPT ![c] = Idle]
    /\ UNCHANGED <<pool, free, calls, gated, done, link, mode, request_q, wake_q, active, worker, rx>>

\* znp_confirm_wait: the slot's semaphore, or the time-out, and then the mutex.
Confirmation(c) ==
    /\ Step(c, "confirm")
    /\ confirm' = [confirm EXCEPT ![call[c].conf].sem = FALSE]
    /\ call' = [call EXCEPT ![c].step = "confirmed", ![c].ok = confirm[call[c].conf].sem]
    /\ UNCHANGED <<pool, free, calls, gated, done, link, mode, request_q, wake_q, active, worker, rx>>

Confirmed(c) ==
    LET w == confirm[call[c].conf]
    IN /\ Step(c, "confirmed")
       /\ done' = IF call[c].ok /\ w.signaled /\ w.status THEN done \cup {call[c].id} ELSE done
       /\ confirm' = [confirm EXCEPT ![call[c].conf] = Left(@)]
       /\ call' = [call EXCEPT ![c] = Idle]
       /\ UNCHANGED <<pool, free, calls, gated, link, mode, request_q, wake_q, active, worker, rx>>

Calling(c) ==
    \/ Reserve(c) \/ Take(c) \/ TakeFails(c) \/ Pick(c) \/ Post(c) \/ Woken(c)
    \/ GiveBack(c) \/ Release(c) \/ Confirmation(c) \/ Confirmed(c)

-----------------------------------------------------------------------------
\* The worker: handle_request.

Answer(st, f) == [id |-> worker.id, status |-> st, ok |-> f.ok]
Without(st)   == Answer(st, [id |-> 0, ok |-> FALSE])

RefusedSilently(w) == Resting                                              \* mutant
Refused(w) == [w EXCEPT !.step = "reply", !.reply = [NoReply EXCEPT !.id = w.id, !.status = "down"]]

WorkerBegin ==
    /\ worker.step = "idle" /\ request_q # <<>>
    /\ request_q' = Tail(request_q)
    /\ LET r == Head(request_q)
           w == [step |-> "arm", id |-> r.id, cmd |-> r.cmd, slot |-> r.slot, reply |-> NoReply]
       IN worker' = IF state \in {"Down", "Error"} THEN Refused(w) ELSE w
    /\ UNCHANGED <<calling, link, mode, wake_q, active, confirm, rx>>

\* drain_wake_q and set_active
Arm ==
    /\ worker.step = "arm"
    /\ wake_q' = <<>> /\ active' = worker.cmd
    /\ worker' = [worker EXCEPT !.step = "send"]
    /\ UNCHANGED <<calling, link, mode, request_q, confirm, rx>>

\* A frame on the UART arrives, or it is damaged or overrun and dropped by the parser.
Wire(chan, f) == {chan} \cup IF Len(chan) < MaxChan THEN {Append(chan, f)} ELSE {}

Transmit ==
    /\ worker.step = "send"
    /\ to_ncp' \in Wire(to_ncp, [cmd |-> worker.cmd, id |-> worker.id])
    /\ worker' = [worker EXCEPT !.step = "listen"]
    /\ UNCHANGED <<calling, to_host, accepted, delivered, resets, mode, request_q, wake_q, active, confirm, rx>>

Replying(r) == active' = NoCmd /\ worker' = [worker EXCEPT !.step = "reply", !.reply = r]

TransmitFails ==
    /\ worker.step = "send"
    /\ Replying(Without("tx_error"))
    /\ UNCHANGED <<calling, link, mode, request_q, wake_q, confirm, rx>>

Receive ==
    /\ worker.step = "listen" /\ wake_q # <<>>
    /\ wake_q' = Tail(wake_q)
    /\ Replying(IF Head(wake_q).kind = "reset" THEN Without("reset") ELSE Answer("ok", Head(wake_q)))
    /\ UNCHANGED <<calling, link, mode, request_q, confirm, rx>>

TimeOut ==
    /\ worker.step = "listen" /\ wake_q = <<>>
    /\ Replying(Without("timeout"))
    /\ UNCHANGED <<calling, link, mode, request_q, wake_q, confirm, rx>>

\* znp_state_note_ok for an answer, then write_reply.
Reply ==
    /\ worker.step = "reply"
    /\ pool' = [pool EXCEPT ![worker.slot].reply = worker.reply, ![worker.slot].sem = TRUE]
    /\ IF worker.reply.status = "ok" /\ state \in {"Recovering", "Error"}
       THEN state' = "Up" /\ bursts' = 0
       ELSE UNCHANGED <<state, bursts>>
    /\ worker' = Resting
    /\ UNCHANGED <<free, call, calls, gated, done, link, request_q, wake_q, active, confirm, rx>>

Working == WorkerBegin \/ Arm \/ Transmit \/ TransmitFails \/ Receive \/ TimeOut \/ Reply

-----------------------------------------------------------------------------
\* The RX task: on_frame for the next frame, and the second half of a delivery to the worker.

Frame(k) == rx = NoFrame /\ to_host # <<>> /\ Head(to_host).kind = k /\ to_host' = Tail(to_host)

\* Late and unexpected answers are dropped here, by what is active at this moment.
RxSrsp ==
    /\ Frame("srsp")
    /\ rx' = IF Head(to_host).cmd = active THEN Head(to_host) ELSE NoFrame
    /\ UNCHANGED <<calling, to_ncp, accepted, delivered, resets, mode, request_q, wake_q, active, confirm, worker>>

\* znp_state_note_reset
RxReset ==
    /\ Frame("reset")
    /\ rx' = Head(to_host)
    /\ IF state \in {"Down", "Booting", "Init"} THEN state' = "Up" /\ UNCHANGED bursts
       ELSE /\ bursts' = IF bursts = BurstN THEN bursts ELSE bursts + 1
            /\ state' \in IF bursts' = BurstN THEN {"Recovering", "Error"} ELSE {"Recovering"}
    /\ UNCHANGED <<calling, to_ncp, accepted, delivered, resets, request_q, wake_q, active, confirm, worker>>

Awaiting(id) == {i \in Ring : confirm[i].used /\ ~confirm[i].signaled /\ confirm[i].trans = id}

\* on_af_data_confirm
RxConfirm ==
    /\ Frame("confirm")
    /\ LET f == Head(to_host)
       IN confirm' = IF Awaiting(f.id) = {} THEN confirm
                     ELSE [confirm EXCEPT ![Min(Awaiting(f.id))] = [@ EXCEPT !.status = f.ok, !.signaled = TRUE, !.sem = TRUE]]
    /\ UNCHANGED <<calling, to_ncp, accepted, delivered, resets, mode, request_q, wake_q, active, worker, rx>>

Queued(q, f) == IF Len(q) < WakeCap THEN Append(q, f) ELSE q               \* without waiting

RxDeliver ==
    /\ rx # NoFrame
    /\ wake_q' = Queued(wake_q, rx)
    /\ rx' = NoFrame
    /\ UNCHANGED <<calling, link, mode, request_q, active, confirm, worker>>

-----------------------------------------------------------------------------
\* The coprocessor: takes requests in order, may refuse one, confirms what it took later
\* (a confirmation nobody waits for is left out).

NcpAnswer ==
    /\ to_ncp # <<>>
    /\ to_ncp' = Tail(to_ncp)
    /\ \E ok \in BOOLEAN :
          /\ ~ok => Head(to_ncp).cmd = Af
          /\ accepted' = IF ok /\ Head(to_ncp).id \in gated THEN accepted \cup {Head(to_ncp).id} ELSE accepted
          /\ to_host' \in Wire(to_host, [kind |-> "srsp", cmd |-> Head(to_ncp).cmd, id |-> Head(to_ncp).id, ok |-> ok])
    /\ UNCHANGED <<calling, delivered, resets, mode, request_q, wake_q, active, confirm, worker, rx>>

NcpConfirm ==
    /\ \E i \in accepted, ok \in BOOLEAN :
          /\ accepted' = accepted \ {i}
          /\ delivered' = IF ok THEN delivered \cup {i} ELSE delivered
          /\ to_host' \in Wire(to_host, [kind |-> "confirm", id |-> i, ok |-> ok])
    /\ UNCHANGED <<calling, to_ncp, resets, mode, request_q, wake_q, active, confirm, worker, rx>>

NcpReset ==
    /\ resets < MaxResets
    /\ resets' = resets + 1
    /\ to_ncp' = <<>> /\ accepted' = {}
    /\ to_host' \in Wire(to_host, [kind |-> "reset"])
    /\ UNCHANGED <<calling, delivered, mode, request_q, wake_q, active, confirm, worker, rx>>

Next ==
    \/ \E c \in Caller : Begin(c) \/ Calling(c)
    \/ Working
    \/ RxSrsp \/ RxReset \/ RxConfirm \/ RxDeliver
    \/ NcpAnswer \/ NcpConfirm \/ NcpReset

Spec == Init /\ [][Next]_vars

-----------------------------------------------------------------------------
\* Queues, semaphores and calls keep their types.
TypeOK ==
    /\ free \in 0..PoolN /\ Len(request_q) <= ReqCap /\ Len(wake_q) <= WakeCap
    /\ \A s \in Slot : pool[s].used \in BOOLEAN /\ pool[s].sem \in BOOLEAN
    /\ active \in Cmd \cup {NoCmd} /\ state \in {"Down", "Booting", "Init", "Up", "Recovering", "Error"}
    /\ \A c \in Caller :
          /\ call[c].step \in {"idle", "reserve", "take", "pick", "post", "wait", "give", "release",
                               "confirm", "confirmed"}
          /\ call[c].id \in 0..calls /\ call[c].conf \in 0..ConfN /\ call[c].slot \in 0..PoolN
    /\ \A i \in Ring : confirm[i].trans \in 0..calls

\* Who was let through by the counting semaphore finds a slot (the code calls the other branch
\* unreachable), and who has a slot finds room in the request queue.
RoomForEveryCall ==
    \A c \in Caller :
       /\ Step(c, "pick") => FreeSlots # {}
       /\ Step(c, "post") => Len(request_q) < ReqCap

\* An accepted request is in exactly one place: queued, with the worker, or answered.
Pending(c) ==
    Cardinality({i \in DOMAIN request_q : request_q[i].slot = call[c].slot /\ request_q[i].id = call[c].id})
    + (IF worker.slot = call[c].slot /\ worker.id = call[c].id THEN 1 ELSE 0)
    + (IF pool[call[c].slot].sem /\ pool[call[c].slot].reply.id = call[c].id THEN 1 ELSE 0)

\* A caller that waits for ever is owed exactly one reply, its own, and a slot is given to nobody else:
\* no reply is written into a slot whose call is over.
ReplyToItsCaller ==
    /\ \A c \in Caller : Step(c, "wait") => pool[call[c].slot].used /\ Pending(c) = 1
    /\ \A s \in Slot : pool[s].sem \/ worker.slot = s \/ (\E i \in DOMAIN request_q : request_q[i].slot = s)
          => \E c \in Caller : Step(c, "wait") /\ call[c].slot = s

\* A gated send that reports success was delivered, whatever answers and confirmations were late.
GatedMeansDelivered == done \subseteq delivered

\* A waiter that got its semaphore finds its confirmation: no give is left from an earlier use.
NoSpuriousTimeout ==
    \A c \in Caller : Step(c, "confirmed") /\ call[c].ok => confirm[call[c].conf].signaled

\* What a call ends with is its own: there is room for it, one reply answers it, one confirmation ends a send,
\* and success means delivered.
SendsAreHonest == TypeOK /\ RoomForEveryCall /\ ReplyToItsCaller /\ NoSpuriousTimeout /\ GatedMeansDelivered

\* A caller never depends on the coprocessor: until its call is over it can go on, or the worker can.
NobodyStuck == \A c \in Caller : ~Step(c, "idle") => ENABLED Calling(c) \/ ENABLED Working

=============================================================================
