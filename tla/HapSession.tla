----------------------------- MODULE HapSession -----------------------------
(***************************************************************************)
(* The HAP session between the two chips (components/hap_session): an      *)
(* ACK / retransmit window on the sending chip and a duplicate filter on   *)
(* the receiving one.  Both chips run the same code; the two directions    *)
(* share nothing but the sequence counter, so one direction is modelled    *)
(* and the other's draws from the counter are the action OtherTraffic.     *)
(*                                                                         *)
(* Sending chip: any number of tasks in hap_session_send, one task in      *)
(* hap_session_tick, one in hap_session_on_receive (ACKs).  The lock       *)
(* s_mutex is an action boundary: what happens under one hold is one step. *)
(* Receiving chip: one receive task, re-entered while it sends an ACK.     *)
(*                                                                         *)
(* Time is not modelled: an active slot may be due at any visit of tick.   *)
(* A payload is the number of the frame it belongs to, so a frame is torn  *)
(* when the payload shipped is not that of its header.                     *)
(***************************************************************************)
EXTENDS Naturals, Sequences

CONSTANTS
    WinSize,      \* WIN_SIZE, retransmit slots
    RingSize,     \* SEEN_RING_SIZE, entries of the duplicate filter
    MaxRetries,   \* MAX_RETRIES
    SeqMax,       \* the largest sequence number, 0xFFFF in the code
    Task,         \* the tasks that call hap_session_send
    Type          \* the types of NEEDS_ACK frames

CONSTANTS         \* bounds of the state space
    MaxFrames,    \* frames accepted by hap_session_send
    MaxDraws,     \* sequence numbers drawn
    MaxChan,      \* frames on the wire, each way
    MaxNest,      \* depth of receive-path re-entry
    MaxResets,    \* hap_session_reset_link by the application, with or without SYNC
    MaxRestarts,  \* restarts of the sending chip
    MaxPeerRestarts \* restarts of the receiving chip

ASSUME HapConstants ==
    /\ WinSize \in Nat \ {0} /\ RingSize \in Nat \ {0} /\ SeqMax \in Nat \ {0}
    /\ MaxRetries \in Nat /\ MaxFrames \in Nat /\ MaxDraws \in Nat /\ MaxChan \in Nat
    /\ MaxNest \in Nat /\ MaxResets \in Nat /\ MaxRestarts \in Nat
    /\ MaxPeerRestarts \in Nat

VARIABLES
    next_seq,     \* s_next_seq
    win,          \* s_win without the payload buffers
    payload,      \* payload_copy of each slot, and s_retx_scratch
    drawn,        \* drawn[t]: the number task t drew for its next send, 0 if none
    held,         \* held[t]: the frame task t is about to put on the wire
    tick,         \* hap_session_tick: slot to visit, link_dead_fired, frame to send
    to_rx,        \* frames on the wire to the receiving chip, in order
    to_tx,        \* ack_seq of the ACKs on the wire back, in order
    seen_ring,    \* s_seen_ring
    seen_head,    \* s_seen_head
    owed,         \* the ACKs on_receive has still to send, innermost call last
    \* history, read by properties and bounds only
    frames, draws, resets, restarts, peer_restarts,
    log,          \* keys dispatched since the filter was last cleared
    count,        \* dispatches of each frame
    acked,        \* frames whose slot an ACK freed
    abandoned     \* frames whose slot was freed without an ACK

sender   == <<next_seq, win, payload, drawn, held, tick>>
receiver == <<seen_ring, seen_head, owed, log, count>>
bounds   == <<frames, draws, resets, restarts, peer_restarts>>
vars     == <<sender, to_rx, to_tx, receiver, bounds, acked, abandoned>>

-----------------------------------------------------------------------------
Slot    == 1..WinSize
Scratch == 0                          \* names s_retx_scratch among the buffers
Buffer  == {Scratch} \cup Slot
Id      == 1..MaxFrames
Key     == [seq : 0..SeqMax, typ : Type \cup {"none"}]
Data    == [kind : {"data"}, id : Id, seq : 1..SeqMax, typ : Type, body : 0..MaxFrames]
Sync    == [kind |-> "sync"]
Held    == [id : Id, seq : 1..SeqMax, typ : Type, buf : Buffer]
NoFrame == [id |-> 0]
FreeSlot == [active |-> FALSE, id |-> 0, seq |-> 0, typ |-> "none", retries |-> 0]
BusySlot == [active : {TRUE}, id : Id, seq : 1..SeqMax, typ : Type, retries : 0..MaxRetries]
NoKey   == [seq |-> 0, typ |-> "none"]
Idle    == [at |-> 0, dead |-> FALSE, frame |-> NoFrame]

KeyOf(f) == [seq |-> f.seq, typ |-> f.typ]
ActiveIds == {win[s].id : s \in {q \in Slot : win[q].active}}

\* s_cfg.send: the frame reaches the end of the wire or is lost.
Wire(chan, f) == {chan} \cup IF Len(chan) < MaxChan THEN {Append(chan, f)} ELSE {}

\* The transport reads the payload when it sends, through the frame's pointer.
OnWire(h) == [kind |-> "data", id |-> h.id, seq |-> h.seq, typ |-> h.typ, body |-> payload[h.buf]]

Init ==
    /\ next_seq = 1
    /\ win = [s \in Slot |-> FreeSlot]
    /\ payload = [b \in Buffer |-> 0]
    /\ drawn = [t \in Task |-> 0]
    /\ held = [t \in Task |-> NoFrame]
    /\ tick = Idle
    /\ to_rx = <<>> /\ to_tx = <<>>
    /\ seen_ring = [i \in 0..(RingSize - 1) |-> NoKey]
    /\ seen_head = 0
    /\ owed = <<>>
    /\ frames = 0 /\ draws = 0 /\ resets = 0 /\ restarts = 0 /\ peer_restarts = 0
    /\ log = <<>>
    /\ count = [i \in Id |-> 0]
    /\ acked = {} /\ abandoned = {}

-----------------------------------------------------------------------------
\* Sending chip: hap_session_next_seq and hap_session_send.

Successor(n) == IF n = SeqMax THEN 1 ELSE n + 1            \* skips 0

Draw ==
    /\ draws < MaxDraws
    /\ draws' = draws + 1
    /\ next_seq' = Successor(next_seq)

\* A task draws the number of the NEEDS_ACK frame it will send.
NextSeq(t) ==
    /\ drawn[t] = 0 /\ held[t] = NoFrame
    /\ Draw
    /\ drawn' = [drawn EXCEPT ![t] = next_seq]
    /\ UNCHANGED <<win, payload, held, tick, to_rx, to_tx, receiver,
                   frames, resets, restarts, peer_restarts, acked, abandoned>>

\* Frames that bypass the window (NO_ACK bulk, the ACKs of the other direction)
\* draw from the same counter and touch nothing else of the session.
OtherTraffic ==
    /\ Draw
    /\ UNCHANGED <<win, payload, drawn, held, tick, to_rx, to_tx, receiver,
                   frames, resets, restarts, peer_restarts, acked, abandoned>>

\* find_free_slot
IsFirstFree(s) == ~win[s].active /\ \A q \in 1..(s - 1) : win[q].active

\* hap_session_send under s_mutex: the frame takes a slot and the slot's buffer
\* takes the payload; the frame to send points at that buffer.
Send(t) ==
    /\ drawn[t] # 0
    /\ frames < MaxFrames
    /\ \E s \in Slot, typ \in Type :
          /\ IsFirstFree(s)
          /\ win' = [win EXCEPT ![s] = [active |-> TRUE, id |-> frames + 1, seq |-> drawn[t],
                                        typ |-> typ, retries |-> 0]]
          /\ payload' = [payload EXCEPT ![s] = frames + 1]
          /\ held' = [held EXCEPT ![t] = [id |-> frames + 1, seq |-> drawn[t], typ |-> typ, buf |-> s]]
    /\ frames' = frames + 1
    /\ drawn' = [drawn EXCEPT ![t] = 0]
    /\ UNCHANGED <<next_seq, tick, to_rx, to_tx, receiver,
                   draws, resets, restarts, peer_restarts, acked, abandoned>>

\* Window full, or a payload larger than a slot's buffer: send returns false.
SendRefused(t) ==
    /\ drawn[t] # 0
    /\ drawn' = [drawn EXCEPT ![t] = 0]
    /\ UNCHANGED <<next_seq, win, payload, held, tick, to_rx, to_tx, receiver, bounds, acked, abandoned>>

\* s_cfg.send after the lock is released.
Transmit(t) ==
    /\ held[t] # NoFrame
    /\ to_rx' \in Wire(to_rx, OnWire(held[t]))
    /\ held' = [held EXCEPT ![t] = NoFrame]
    /\ UNCHANGED <<next_seq, win, payload, drawn, tick, to_tx, receiver, bounds, acked, abandoned>>

-----------------------------------------------------------------------------
\* Sending chip: hap_session_tick, one visit per slot and per hold of s_mutex.

TickBegin ==
    /\ tick.at = 0
    /\ tick' = [Idle EXCEPT !.at = 1]
    /\ UNCHANGED <<next_seq, win, payload, drawn, held, to_rx, to_tx, receiver, bounds, acked, abandoned>>

Visiting(s) == tick.at = s /\ tick.frame = NoFrame

\* The slot is free, or its frame is younger than ACK_TIMEOUT_MS.
TickSkip(s) ==
    /\ Visiting(s)
    /\ tick' = [tick EXCEPT !.at = s + 1]
    /\ UNCHANGED <<next_seq, win, payload, drawn, held, to_rx, to_tx, receiver, bounds, acked, abandoned>>

RetriesLeft(s) == win[s].retries < MaxRetries

CountRetryForgotten(slot) == slot                          \* mutant
CountRetry(slot) == [slot EXCEPT !.retries = @ + 1]

RetransmitFrameAliased(s) ==                               \* mutant
    [id |-> win[s].id, seq |-> win[s].seq, typ |-> win[s].typ, buf |-> s]

\* The frame tick sends: the slot's header over the scratch copy of its payload.
RetransmitFrame(s) == [id |-> win[s].id, seq |-> win[s].seq, typ |-> win[s].typ, buf |-> Scratch]

\* No ACK in time and retries left: the payload is copied under the lock.
TickRetry(s) ==
    /\ Visiting(s) /\ win[s].active
    /\ RetriesLeft(s)
    /\ win' = [win EXCEPT ![s] = CountRetry(@)]
    /\ payload' = [payload EXCEPT ![Scratch] = payload[s]]
    /\ tick' = [tick EXCEPT !.frame = RetransmitFrame(s)]
    /\ UNCHANGED <<next_seq, drawn, held, to_rx, to_tx, receiver, bounds, acked, abandoned>>

\* No ACK after the last retry: the slot is freed and the link reported dead.
TickGiveUp(s) ==
    /\ Visiting(s) /\ win[s].active
    /\ ~RetriesLeft(s)
    /\ win' = [win EXCEPT ![s] = FreeSlot]
    /\ tick' = [tick EXCEPT !.at = s + 1, !.dead = TRUE]
    /\ abandoned' = abandoned \cup {win[s].id}
    /\ UNCHANGED <<next_seq, payload, drawn, held, to_rx, to_tx, receiver, bounds, acked>>

TickDue(s) == TickRetry(s) \/ TickGiveUp(s)

\* s_cfg.send after the lock is released.
TickSend ==
    /\ tick.frame # NoFrame
    /\ to_rx' \in Wire(to_rx, OnWire(tick.frame))
    /\ tick' = [tick EXCEPT !.at = @ + 1, !.frame = NoFrame]
    /\ UNCHANGED <<next_seq, win, payload, drawn, held, to_tx, receiver, bounds, acked, abandoned>>

\* hap_session_reset_link: every slot is freed, next_seq and the filter stay.
FreeAllSlots ==
    /\ win' = [s \in Slot |-> FreeSlot]
    /\ abandoned' = abandoned \cup ActiveIds

\* on_link_dead runs after the loop and may reset the link.
TickEnd ==
    /\ tick.at = WinSize + 1
    /\ tick' = Idle
    /\ \/ UNCHANGED <<win, abandoned>>
       \/ tick.dead /\ FreeAllSlots
    /\ UNCHANGED <<next_seq, payload, drawn, held, to_rx, to_tx, receiver, bounds, acked>>

\* Sending chip: on_receive of an ACK frees the slot with the echoed number
\* (find_slot_by_seq); an ACK without a slot is ignored.
AckedSlotsAny(n) == {s \in Slot : win[s].active}            \* mutant
AckedSlots(n) == {s \in Slot : win[s].active /\ win[s].seq = n}

ReceiveAck ==
    /\ to_tx # <<>>
    /\ to_tx' = Tail(to_tx)
    /\ \/ AckedSlots(Head(to_tx)) = {} /\ UNCHANGED <<win, acked>>
       \/ \E s \in AckedSlots(Head(to_tx)) :
             /\ \A q \in AckedSlots(Head(to_tx)) : s <= q
             /\ win' = [win EXCEPT ![s] = FreeSlot]
             /\ acked' = acked \cup {win[s].id}
    /\ UNCHANGED <<next_seq, payload, drawn, held, tick, to_rx, receiver, bounds, abandoned>>

-----------------------------------------------------------------------------
\* Receiving chip: hap_session_on_receive.

SeenNever(k) == FALSE                                      \* mutant
SeenRecently(k) == \E i \in DOMAIN seen_ring : seen_ring[i] = k

MarkSeen(k) ==
    /\ seen_ring' = [seen_ring EXCEPT ![seen_head] = k]
    /\ seen_head' = IF seen_head + 1 = RingSize THEN 0 ELSE seen_head + 1

ResetRxDedup ==
    /\ seen_ring' = [i \in 0..(RingSize - 1) |-> NoKey]
    /\ seen_head' = 0
    /\ log' = <<>>

\* The receive path takes a data frame off the wire, from its task or from
\* inside the send of an ACK that is still owed.
Arrives(f) ==
    /\ to_rx # <<>> /\ Head(to_rx) = f /\ f # Sync
    /\ Len(owed) < MaxNest
    /\ to_rx' = Tail(to_rx)
    /\ owed' = Append(owed, f.seq)

\* First sight: marked, dispatched to on_frame, then acknowledged.
Dispatch(f) ==
    /\ Arrives(f)
    /\ ~SeenRecently(KeyOf(f))
    /\ MarkSeen(KeyOf(f))
    /\ log' = Append(log, KeyOf(f))
    /\ count' = [count EXCEPT ![f.id] = @ + 1]
    /\ UNCHANGED <<sender, to_tx, bounds, acked, abandoned>>

\* A duplicate is acknowledged again and not dispatched.
Duplicate(f) ==
    /\ Arrives(f)
    /\ SeenRecently(KeyOf(f))
    /\ UNCHANGED <<sender, to_tx, seen_ring, seen_head, log, count, bounds, acked, abandoned>>

ReceiveData == to_rx # <<>> /\ (Dispatch(Head(to_rx)) \/ Duplicate(Head(to_rx)))

\* The innermost call sends its ACK and returns.
SendAck ==
    /\ owed # <<>>
    /\ to_tx' \in Wire(to_tx, owed[Len(owed)])
    /\ owed' = SubSeq(owed, 1, Len(owed) - 1)
    /\ UNCHANGED <<sender, to_rx, seen_ring, seen_head, log, count, bounds, acked, abandoned>>

\* A SYNC clears the filter.
ReceiveSync ==
    /\ to_rx # <<>> /\ Head(to_rx) = Sync
    /\ to_rx' = Tail(to_rx)
    /\ ResetRxDedup
    /\ UNCHANGED <<sender, to_tx, owed, count, bounds, acked, abandoned>>

-----------------------------------------------------------------------------
\* Recovery, started by the application.

\* The application resets the link and announces itself with a SYNC, which
\* bypasses the window.  It does so from on_link_dead or on_sync, so never while
\* tick holds a frame back.
Resync ==
    /\ resets < MaxResets
    /\ tick.frame = NoFrame
    /\ resets' = resets + 1
    /\ FreeAllSlots
    /\ to_rx' \in Wire(to_rx, Sync)
    /\ UNCHANGED <<next_seq, payload, drawn, held, tick, to_tx, receiver,
                   frames, draws, restarts, peer_restarts, acked>>

\* The sending chip restarts: hap_session_init, then a SYNC.
SenderRestart ==
    /\ restarts < MaxRestarts
    /\ restarts' = restarts + 1
    /\ next_seq' = 1
    /\ FreeAllSlots
    /\ payload' = [b \in Buffer |-> 0]
    /\ drawn' = [t \in Task |-> 0]
    /\ held' = [t \in Task |-> NoFrame]
    /\ tick' = Idle
    /\ to_rx' \in Wire(to_rx, Sync)
    /\ UNCHANGED <<to_tx, receiver, frames, draws, resets, peer_restarts, acked>>

\* The receiving chip restarts: hap_session_init; what it had not yet sent is lost.
ReceiverRestart ==
    /\ peer_restarts < MaxPeerRestarts
    /\ peer_restarts' = peer_restarts + 1
    /\ ResetRxDedup
    /\ owed' = <<>>
    /\ UNCHANGED <<sender, to_rx, to_tx, count, frames, draws, resets, restarts, acked, abandoned>>

TickTask == TickBegin \/ TickSend \/ TickEnd \/ \E s \in Slot : TickSkip(s) \/ TickDue(s)

Next ==
    \/ \E t \in Task : NextSeq(t) \/ Send(t) \/ SendRefused(t) \/ Transmit(t)
    \/ OtherTraffic
    \/ TickTask
    \/ ReceiveAck
    \/ ReceiveData \/ ReceiveSync \/ SendAck
    \/ Resync \/ SenderRestart \/ ReceiverRestart

Spec == Init /\ [][Next]_vars

\* A stretch in which neither chip restarts and nobody resets the link, so that no SYNC is on the wire.
Undisturbed ==
    \/ \E t \in Task : NextSeq(t) \/ Send(t) \/ SendRefused(t) \/ Transmit(t)
    \/ OtherTraffic
    \/ TickTask
    \/ ReceiveAck
    \/ ReceiveData \/ SendAck

\* hap_session_tick is called every 10 ms for ever and each visit finds every
\* active slot older than before, so a slot visited again and again is due again
\* and again.  Nothing is assumed of the wire, the receiver or the senders.
FairSpec ==
    /\ Init /\ [][Undisturbed]_vars
    /\ WF_vars(TickTask)
    /\ \A s \in Slot : SF_vars(TickDue(s))

-----------------------------------------------------------------------------
SenderTypeOK ==
    /\ next_seq \in 1..SeqMax
    /\ win \in [Slot -> BusySlot \cup {FreeSlot}]
    /\ payload \in [Buffer -> 0..MaxFrames]
    /\ drawn \in [Task -> 0..SeqMax]
    /\ held \in [Task -> Held \cup {NoFrame}]
    /\ tick \in [at : 0..(WinSize + 1), dead : BOOLEAN, frame : Held \cup {NoFrame}]
    /\ tick.frame # NoFrame => tick.at \in Slot

ReceiverTypeOK ==
    /\ seen_ring \in [0..(RingSize - 1) -> Key]
    /\ seen_head \in 0..(RingSize - 1)
    /\ owed \in Seq(1..SeqMax)
    /\ log \in Seq(Key)
    /\ count \in [Id -> Nat]

WireTypeOK ==
    /\ to_rx \in Seq(Data \cup {Sync})
    /\ to_tx \in Seq(1..SeqMax)

HistoryTypeOK ==
    /\ frames \in 0..MaxFrames /\ draws \in 0..MaxDraws
    /\ resets \in 0..MaxResets /\ restarts \in 0..MaxRestarts
    /\ peer_restarts \in 0..MaxPeerRestarts
    /\ acked \subseteq Id /\ abandoned \subseteq Id

TypeOK == SenderTypeOK /\ ReceiverTypeOK /\ WireTypeOK /\ HistoryTypeOK

-----------------------------------------------------------------------------
\* The duplicate filter (seen_recently, mark_seen): two dispatches of frames with
\* the same number and type, with no SYNC or restart between, are more than
\* RingSize dispatches apart, whatever the wire, the window and the number of
\* laps of the sequence counter.
DuplicatesFarApart ==
    \A i, j \in DOMAIN log : i < j /\ log[i] = log[j] => j - i > RingSize

\* No command is lost silently: a frame whose slot an ACK freed was dispatched by
\* the peer.  Needs sequence numbers that do not come round, and a sender that did
\* not restart: its numbers start over and meet the ACKs of the old session.
AckedWasDispatched == restarts = 0 => \A i \in acked : count[i] > 0

\* The handler never runs twice for one frame, a restart of the sender in between
\* included, as long as the filter was not cleared behind a frame in flight: by a
\* restart of the receiver, or by the SYNC of a reset link.
DispatchedOnce == resets = 0 /\ peer_restarts = 0 => \A i \in Id : count[i] <= 1

\* Every frame on the wire carries the payload of its own header: slots, their
\* buffers and the scratch buffer are reused only when nothing points at them.
NoTornFrame ==
    \A i \in DOMAIN to_rx : to_rx[i] # Sync => to_rx[i].body = to_rx[i].id

\* Every frame leaves the window, acknowledged or given up: whatever the wire does,
\* the window cannot stay full of frames nobody answers.
WindowDrains ==
    \A s \in Slot, i \in Id : (win[s].active /\ win[s].id = i) ~> ~(win[s].active /\ win[s].id = i)

\* What the two chips promise their callers, stated without window, filter or wire.
Link == INSTANCE HapLink WITH
    Frame <- Id, accepted <- 1..frames, delivered <- count,
    confirmed <- acked, dropped <- abandoned
LinkSpec == Link!Spec
=============================================================================
