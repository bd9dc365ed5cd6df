-------------------------- MODULE HapSessionProofs --------------------------
(***************************************************************************)
(* Theorems about HapSession, for every window, ring, retry limit, number  *)
(* range, set of tasks and bound.                                          *)
(***************************************************************************)
EXTENDS HapSession, SequenceTheorems, FiniteSetTheorems, TLAPS

USE HapConstants

\* What the lossy wire does to a channel keeps it a sequence of frames.
LEMMA WireType ==
    ASSUME NEW S, NEW c \in Seq(S), NEW f \in S, NEW d \in Wire(c, f)
    PROVE  d \in Seq(S)
<1>1. Append(c, f) \in Seq(S)
  OBVIOUS
<1> QED
  BY <1>1 DEF Wire

\* The frame a task or tick puts on the wire is a data frame.
LEMMA OnWireType ==
    ASSUME SenderTypeOK, NEW h \in Held
    PROVE  OnWire(h) \in Data
<1>1. payload[h.buf] \in 0..MaxFrames
  BY DEF SenderTypeOK, Held
<1> QED
  BY <1>1 DEF OnWire, Data, Held

\* A step that leaves a chip's variables alone leaves their types alone.
LEMMA SenderSame == SenderTypeOK /\ UNCHANGED sender => SenderTypeOK'
  BY DEF SenderTypeOK, sender

LEMMA ReceiverSame == ReceiverTypeOK /\ UNCHANGED receiver => ReceiverTypeOK'
  BY DEF ReceiverTypeOK, receiver

\* An active slot holds an accepted frame.
LEMMA BusyType ==
    ASSUME SenderTypeOK, NEW s \in Slot, win[s].active
    PROVE  win[s] \in BusySlot
<1>1. win[s] \in BusySlot \cup {FreeSlot}
  BY DEF SenderTypeOK
<1>2. ~FreeSlot.active
  BY DEF FreeSlot
<1> QED
  BY <1>1, <1>2

\* tick moves from slot to slot, with or without a frame to send.
LEMMA TickType ==
    ASSUME NEW at \in 0..(WinSize + 1), NEW dead \in BOOLEAN, NEW f \in Held \cup {NoFrame},
           f # NoFrame => at \in Slot,
           tick' = [at |-> at, dead |-> dead, frame |-> f],
           SenderTypeOK, UNCHANGED <<next_seq, drawn, held>>,
           win' \in [Slot -> BusySlot \cup {FreeSlot}],
           payload' \in [Buffer -> 0..MaxFrames]
    PROVE  SenderTypeOK'
  BY DEF SenderTypeOK

\* A link reset leaves a well-typed window, and gives up frames only.
LEMMA FreeAllType ==
    ASSUME SenderTypeOK, HistoryTypeOK, FreeAllSlots
    PROVE  /\ win' \in [Slot -> BusySlot \cup {FreeSlot}]
           /\ abandoned' \subseteq Id
<1>1. \A s \in Slot : win[s].active => win[s].id \in Id
  BY BusyType DEF BusySlot
<1> QED
  BY <1>1 DEF FreeAllSlots, ActiveIds, HistoryTypeOK

LEMMA InitType == Init => TypeOK
<1> SUFFICES ASSUME Init PROVE TypeOK
  OBVIOUS
<1>1. SenderTypeOK
  <2>1. next_seq \in 1..SeqMax
    BY DEF Init
  <2>2. win \in [Slot -> BusySlot \cup {FreeSlot}] /\ payload \in [Buffer -> 0..MaxFrames]
    BY DEF Init
  <2>3. drawn \in [Task -> 0..SeqMax] /\ held \in [Task -> Held \cup {NoFrame}]
    BY DEF Init
  <2>4. tick \in [at : 0..(WinSize + 1), dead : BOOLEAN, frame : Held \cup {NoFrame}]
    BY DEF Init, Idle
  <2>5. tick.frame = NoFrame
    BY DEF Init, Idle
  <2> QED
    BY <2>1, <2>2, <2>3, <2>4, <2>5 DEF SenderTypeOK
<1>2. ReceiverTypeOK
  BY DEF Init, ReceiverTypeOK, NoKey, Key
<1>3. WireTypeOK
  BY DEF Init, WireTypeOK
<1>4. HistoryTypeOK
  BY DEF Init, HistoryTypeOK
<1> QED
  BY <1>1, <1>2, <1>3, <1>4 DEF TypeOK

LEMMA TypeStep == TypeOK /\ [Next]_vars => TypeOK'
<1> SUFFICES ASSUME SenderTypeOK, ReceiverTypeOK, WireTypeOK, HistoryTypeOK, [Next]_vars
             PROVE  TypeOK'
  BY DEF TypeOK
<1> USE DEF TypeOK
<1>1. ASSUME NEW t \in Task, NextSeq(t) PROVE TypeOK'
  <2>1. SenderTypeOK'
    BY <1>1 DEF SenderTypeOK, NextSeq, Draw, Successor
  <2>2. ReceiverTypeOK'
    BY <1>1, ReceiverSame DEF NextSeq
  <2>3. WireTypeOK'
    BY <1>1 DEF WireTypeOK, NextSeq
  <2>4. HistoryTypeOK'
    BY <1>1 DEF HistoryTypeOK, NextSeq, Draw, bounds
  <2> QED
    BY <2>1, <2>2, <2>3, <2>4
<1>2. ASSUME OtherTraffic PROVE TypeOK'
  <2>1. SenderTypeOK'
    BY <1>2 DEF SenderTypeOK, OtherTraffic, Draw, Successor
  <2>2. ReceiverTypeOK'
    BY <1>2, ReceiverSame DEF OtherTraffic
  <2>3. WireTypeOK'
    BY <1>2 DEF WireTypeOK, OtherTraffic
  <2>4. HistoryTypeOK'
    BY <1>2 DEF HistoryTypeOK, OtherTraffic, Draw, bounds
  <2> QED
    BY <2>1, <2>2, <2>3, <2>4
<1>3. ASSUME NEW t \in Task, Send(t) PROVE TypeOK'
  <2>1. SenderTypeOK'
    <3>1. PICK s \in Slot, typ \in Type :
             /\ win' = [win EXCEPT ![s] = [active |-> TRUE, id |-> frames + 1, seq |-> drawn[t],
                                           typ |-> typ, retries |-> 0]]
             /\ payload' = [payload EXCEPT ![s] = frames + 1]
             /\ held' = [held EXCEPT ![t] = [id |-> frames + 1, seq |-> drawn[t], typ |-> typ, buf |-> s]]
      BY <1>3 DEF Send
    <3>2. frames + 1 \in Id /\ drawn[t] \in 1..SeqMax /\ s \in Buffer
      BY <1>3 DEF Send, SenderTypeOK, HistoryTypeOK, Id, Buffer
    <3>3. win' \in [Slot -> BusySlot \cup {FreeSlot}]
      <4>1. [active |-> TRUE, id |-> frames + 1, seq |-> drawn[t], typ |-> typ, retries |-> 0] \in BusySlot
        BY <3>2 DEF BusySlot
      <4> QED
        BY <3>1, <4>1 DEF SenderTypeOK
    <3>4. payload' \in [Buffer -> 0..MaxFrames]
      BY <3>1, <3>2 DEF SenderTypeOK, Id
    <3>5. held' \in [Task -> Held \cup {NoFrame}]
      BY <3>1, <3>2 DEF SenderTypeOK, Held
    <3>6. drawn' \in [Task -> 0..SeqMax]
      BY <1>3 DEF SenderTypeOK, Send
    <3> QED
      BY <1>3, <3>3, <3>4, <3>5, <3>6 DEF SenderTypeOK, Send
  <2>2. ReceiverTypeOK'
    BY <1>3, ReceiverSame DEF Send
  <2>3. WireTypeOK'
    BY <1>3 DEF WireTypeOK, Send
  <2>4. HistoryTypeOK'
    BY <1>3 DEF HistoryTypeOK, Send, bounds
  <2> QED
    BY <2>1, <2>2, <2>3, <2>4
<1>4. ASSUME NEW t \in Task, SendRefused(t) PROVE TypeOK'
  <2>1. SenderTypeOK'
    BY <1>4 DEF SenderTypeOK, SendRefused
  <2>2. ReceiverTypeOK'
    BY <1>4, ReceiverSame DEF SendRefused
  <2>3. WireTypeOK'
    BY <1>4 DEF WireTypeOK, SendRefused
  <2>4. HistoryTypeOK'
    BY <1>4 DEF HistoryTypeOK, SendRefused, bounds
  <2> QED
    BY <2>1, <2>2, <2>3, <2>4
<1>5. ASSUME NEW t \in Task, Transmit(t) PROVE TypeOK'
  <2>1. SenderTypeOK'
    BY <1>5 DEF SenderTypeOK, Transmit
  <2>2. ReceiverTypeOK'
    BY <1>5, ReceiverSame DEF Transmit
  <2>3. WireTypeOK'
    <3>1. held[t] \in Held
      BY <1>5 DEF SenderTypeOK, Transmit
    <3>2. OnWire(held[t]) \in Data \cup {Sync}
      BY <3>1, OnWireType
    <3>3. to_rx' \in Seq(Data \cup {Sync})
      BY <1>5, <3>2, WireType DEF WireTypeOK, Transmit
    <3> QED
      BY <1>5, <3>3 DEF WireTypeOK, Transmit
  <2>4. HistoryTypeOK'
    BY <1>5 DEF HistoryTypeOK, Transmit, bounds
  <2> QED
    BY <2>1, <2>2, <2>3, <2>4
<1>6. ASSUME TickBegin PROVE TypeOK'
  <2>1. SenderTypeOK'
    <3>1. tick' = [at |-> 1, dead |-> FALSE, frame |-> NoFrame]
      BY <1>6 DEF TickBegin, Idle
    <3>2. 1 \in 0..(WinSize + 1) /\ FALSE \in BOOLEAN /\ NoFrame \in Held \cup {NoFrame}
      OBVIOUS
    <3> QED
      BY <1>6, <3>1, <3>2, TickType DEF SenderTypeOK, TickBegin
  <2>2. ReceiverTypeOK'
    BY <1>6, ReceiverSame DEF TickBegin
  <2>3. WireTypeOK'
    BY <1>6 DEF WireTypeOK, TickBegin
  <2>4. HistoryTypeOK'
    BY <1>6 DEF HistoryTypeOK, TickBegin, bounds
  <2> QED
    BY <2>1, <2>2, <2>3, <2>4
<1>7. ASSUME TickSend PROVE TypeOK'
  <2>1. SenderTypeOK'
    <3>1. tick.at + 1 \in 0..(WinSize + 1)
      BY <1>7 DEF SenderTypeOK, TickSend, Slot
    <3>2. tick' = [at |-> tick.at + 1, dead |-> tick.dead, frame |-> NoFrame]
      BY <1>7 DEF SenderTypeOK, TickSend
    <3> QED
      BY <1>7, <3>1, <3>2, TickType DEF SenderTypeOK, TickSend
  <2>2. ReceiverTypeOK'
    BY <1>7, ReceiverSame DEF TickSend
  <2>3. WireTypeOK'
    <3>1. tick.frame \in Held
      BY <1>7 DEF SenderTypeOK, TickSend
    <3>2. OnWire(tick.frame) \in Data \cup {Sync}
      BY <3>1, OnWireType
    <3>3. to_rx' \in Seq(Data \cup {Sync})
      BY <1>7, <3>2, WireType DEF WireTypeOK, TickSend
    <3> QED
      BY <1>7, <3>3 DEF WireTypeOK, TickSend
  <2>4. HistoryTypeOK'
    BY <1>7 DEF HistoryTypeOK, TickSend, bounds
  <2> QED
    BY <2>1, <2>2, <2>3, <2>4
<1>8. ASSUME TickEnd PROVE TypeOK'
  <2>1. SenderTypeOK'
    BY <1>8, FreeAllType DEF SenderTypeOK, TickEnd, Idle, FreeAllSlots
  <2>2. ReceiverTypeOK'
    BY <1>8, ReceiverSame DEF TickEnd
  <2>3. WireTypeOK'
    BY <1>8 DEF WireTypeOK, TickEnd
  <2>4. HistoryTypeOK'
    BY <1>8, FreeAllType DEF HistoryTypeOK, TickEnd, bounds
  <2> QED
    BY <2>1, <2>2, <2>3, <2>4
<1>9. ASSUME NEW s \in Slot, TickSkip(s) PROVE TypeOK'
  <2>1. SenderTypeOK'
    <3>1. tick' = [at |-> s + 1, dead |-> tick.dead, frame |-> NoFrame]
      BY <1>9 DEF SenderTypeOK, TickSkip, Visiting
    <3>2. s + 1 \in 0..(WinSize + 1)
      BY DEF Slot
    <3> QED
      BY <1>9, <3>1, <3>2, TickType DEF SenderTypeOK, TickSkip
  <2>2. ReceiverTypeOK'
    BY <1>9, ReceiverSame DEF TickSkip
  <2>3. WireTypeOK'
    BY <1>9 DEF WireTypeOK, TickSkip
  <2>4. HistoryTypeOK'
    BY <1>9 DEF HistoryTypeOK, TickSkip, bounds
  <2> QED
    BY <2>1, <2>2, <2>3, <2>4
<1>10. ASSUME NEW s \in Slot, TickRetry(s) PROVE TypeOK'
  <2>1. SenderTypeOK'
    <3>1. win[s] \in BusySlot
      BY <1>10, BusyType DEF TickRetry
    <3>2. RetransmitFrame(s) \in Held
      BY <3>1 DEF RetransmitFrame, BusySlot, Held, Buffer
    <3>3. win' \in [Slot -> BusySlot \cup {FreeSlot}]
      <4>1. CountRetry(win[s]) \in BusySlot
        <5>1. win[s].retries + 1 \in 0..MaxRetries
          <6>1. win[s].retries \in 0..MaxRetries
            BY <3>1 DEF BusySlot
          <6>2. win[s].retries < MaxRetries
            BY <1>10 DEF TickRetry, RetriesLeft
          <6> QED
            BY <6>1, <6>2
        <5> QED
          BY <3>1, <5>1 DEF BusySlot, CountRetry
      <4> QED
        BY <1>10, <4>1 DEF TickRetry, SenderTypeOK
    <3>4. payload' \in [Buffer -> 0..MaxFrames]
      BY <1>10 DEF TickRetry, SenderTypeOK, Buffer
    <3>5. tick' = [at |-> s, dead |-> tick.dead, frame |-> RetransmitFrame(s)] /\ s \in 0..(WinSize + 1)
      BY <1>10 DEF SenderTypeOK, TickRetry, Visiting, Slot
    <3> QED
      BY <1>10, <3>2, <3>3, <3>4, <3>5, TickType DEF SenderTypeOK, TickRetry
  <2>2. ReceiverTypeOK'
    BY <1>10, ReceiverSame DEF TickRetry
  <2>3. WireTypeOK'
    BY <1>10 DEF WireTypeOK, TickRetry
  <2>4. HistoryTypeOK'
    BY <1>10 DEF HistoryTypeOK, TickRetry, bounds
  <2> QED
    BY <2>1, <2>2, <2>3, <2>4
<1>11. ASSUME NEW s \in Slot, TickGiveUp(s) PROVE TypeOK'
  <2>1. SenderTypeOK'
    <3>1. tick' = [at |-> s + 1, dead |-> TRUE, frame |-> NoFrame]
      BY <1>11 DEF SenderTypeOK, TickGiveUp, Visiting
    <3>2. s + 1 \in 0..(WinSize + 1)
      BY DEF Slot
    <3>3. win' \in [Slot -> BusySlot \cup {FreeSlot}]
      BY <1>11 DEF SenderTypeOK, TickGiveUp
    <3> QED
      BY <1>11, <3>1, <3>2, <3>3, TickType DEF SenderTypeOK, TickGiveUp
  <2>2. ReceiverTypeOK'
    BY <1>11, ReceiverSame DEF TickGiveUp
  <2>3. WireTypeOK'
    BY <1>11 DEF WireTypeOK, TickGiveUp
  <2>4. HistoryTypeOK'
    <3>1. win[s].id \in Id
      BY <1>11, BusyType DEF TickGiveUp, BusySlot
    <3> QED
      BY <1>11, <3>1 DEF HistoryTypeOK, TickGiveUp, bounds
  <2> QED
    BY <2>1, <2>2, <2>3, <2>4
<1>12. ASSUME ReceiveAck PROVE TypeOK'
  <2>1. SenderTypeOK'
    BY <1>12 DEF SenderTypeOK, ReceiveAck
  <2>2. ReceiverTypeOK'
    BY <1>12, ReceiverSame DEF ReceiveAck
  <2>3. WireTypeOK'
    BY <1>12 DEF WireTypeOK, ReceiveAck
  <2>4. HistoryTypeOK'
    <3>1. \A s \in AckedSlots(Head(to_tx)) : win[s].id \in Id
      BY BusyType DEF AckedSlots, BusySlot
    <3> QED
      BY <1>12, <3>1 DEF HistoryTypeOK, ReceiveAck, bounds
  <2> QED
    BY <2>1, <2>2, <2>3, <2>4
<1>13. ASSUME Dispatch(Head(to_rx)) PROVE TypeOK'
  <2>1. SenderTypeOK'
    BY <1>13, SenderSame DEF Dispatch
  <2>2. ReceiverTypeOK'
    <3> DEFINE f == Head(to_rx)
    <3>1. f \in Data
      BY <1>13 DEF Dispatch, Arrives, WireTypeOK
    <3>2. KeyOf(f) \in Key /\ f.seq \in 1..SeqMax /\ f.id \in Id
      BY <3>1 DEF Data, KeyOf, Key
    <3>3. seen_ring' \in [0..(RingSize - 1) -> Key] /\ seen_head' \in 0..(RingSize - 1)
      BY <1>13, <3>2 DEF Dispatch, MarkSeen, ReceiverTypeOK
    <3>4. owed' \in Seq(1..SeqMax) /\ log' \in Seq(Key)
      BY <1>13, <3>2 DEF Dispatch, Arrives, ReceiverTypeOK
    <3>5. count' \in [Id -> Nat]
      BY <1>13, <3>2 DEF Dispatch, ReceiverTypeOK
    <3> QED
      BY <3>3, <3>4, <3>5 DEF ReceiverTypeOK
  <2>3. WireTypeOK'
    BY <1>13 DEF WireTypeOK, Dispatch, Arrives
  <2>4. HistoryTypeOK'
    BY <1>13 DEF HistoryTypeOK, Dispatch, bounds
  <2> QED
    BY <2>1, <2>2, <2>3, <2>4
<1>14. ASSUME Duplicate(Head(to_rx)) PROVE TypeOK'
  <2>1. SenderTypeOK'
    BY <1>14, SenderSame DEF Duplicate
  <2>2. ReceiverTypeOK'
    <3>1. Head(to_rx) \in Data
      BY <1>14 DEF Duplicate, Arrives, WireTypeOK
    <3>2. Head(to_rx).seq \in 1..SeqMax
      BY <3>1 DEF Data
    <3> QED
      BY <1>14, <3>2 DEF ReceiverTypeOK, Duplicate, Arrives
  <2>3. WireTypeOK'
    BY <1>14 DEF WireTypeOK, Duplicate, Arrives
  <2>4. HistoryTypeOK'
    BY <1>14 DEF HistoryTypeOK, Duplicate, bounds
  <2> QED
    BY <2>1, <2>2, <2>3, <2>4
<1>15. ASSUME ReceiveSync PROVE TypeOK'
  <2>1. SenderTypeOK'
    BY <1>15, SenderSame DEF ReceiveSync
  <2>2. ReceiverTypeOK'
    BY <1>15 DEF ReceiverTypeOK, ReceiveSync, ResetRxDedup, NoKey, Key
  <2>3. WireTypeOK'
    BY <1>15 DEF WireTypeOK, ReceiveSync
  <2>4. HistoryTypeOK'
    BY <1>15 DEF HistoryTypeOK, ReceiveSync, bounds
  <2> QED
    BY <2>1, <2>2, <2>3, <2>4
<1>16. ASSUME SendAck PROVE TypeOK'
  <2>1. SenderTypeOK'
    BY <1>16, SenderSame DEF SendAck
  <2>2. ReceiverTypeOK'
    BY <1>16 DEF ReceiverTypeOK, SendAck
  <2>3. WireTypeOK'
    <3>1. owed[Len(owed)] \in 1..SeqMax
      BY <1>16 DEF SendAck, ReceiverTypeOK
    <3> QED
      BY <1>16, <3>1, WireType DEF WireTypeOK, SendAck
  <2>4. HistoryTypeOK'
    BY <1>16 DEF HistoryTypeOK, SendAck, bounds
  <2> QED
    BY <2>1, <2>2, <2>3, <2>4
<1>17. ASSUME Resync PROVE TypeOK'
  <2>1. SenderTypeOK'
    BY <1>17, FreeAllType DEF SenderTypeOK, Resync, FreeAllSlots
  <2>2. ReceiverTypeOK'
    BY <1>17, ReceiverSame DEF Resync
  <2>3. WireTypeOK'
    BY <1>17, WireType DEF WireTypeOK, Resync
  <2>4. HistoryTypeOK'
    BY <1>17, FreeAllType DEF HistoryTypeOK, Resync, bounds
  <2> QED
    BY <2>1, <2>2, <2>3, <2>4
<1>18. ASSUME SenderRestart PROVE TypeOK'
  <2>1. SenderTypeOK'
    BY <1>18, FreeAllType DEF SenderTypeOK, SenderRestart, Idle, FreeAllSlots
  <2>2. ReceiverTypeOK'
    BY <1>18, ReceiverSame DEF SenderRestart
  <2>3. WireTypeOK'
    BY <1>18, WireType DEF WireTypeOK, SenderRestart
  <2>4. HistoryTypeOK'
    BY <1>18, FreeAllType DEF HistoryTypeOK, SenderRestart, bounds
  <2> QED
    BY <2>1, <2>2, <2>3, <2>4
<1>19. ASSUME ReceiverRestart PROVE TypeOK'
  <2>1. SenderTypeOK'
    BY <1>19, SenderSame DEF ReceiverRestart
  <2>2. ReceiverTypeOK'
    BY <1>19 DEF ReceiverTypeOK, ReceiverRestart, ResetRxDedup, NoKey, Key
  <2>3. WireTypeOK'
    BY <1>19 DEF WireTypeOK, ReceiverRestart
  <2>4. HistoryTypeOK'
    BY <1>19 DEF HistoryTypeOK, ReceiverRestart, bounds
  <2> QED
    BY <2>1, <2>2, <2>3, <2>4
<1>20. CASE UNCHANGED vars
  BY <1>20, SenderSame, ReceiverSame DEF vars, WireTypeOK, HistoryTypeOK, bounds
<1> QED
  BY <1>1, <1>2, <1>3, <1>4, <1>5, <1>6, <1>7, <1>8, <1>9, <1>10, <1>11, <1>12, <1>13, <1>14, <1>15, <1>16, <1>17, <1>18, <1>19, <1>20 DEF Next, TickTask, TickDue, ReceiveData

\* Every variable keeps its type, for every value of the constants.
THEOREM TypeCorrect == Spec => []TypeOK
  BY InitType, TypeStep, PTL DEF Spec

-----------------------------------------------------------------------------
(***************************************************************************)
(* The duplicate filter.  DuplicatesFarApart is not inductive: it says     *)
(* nothing of the ring.  The strengthening is that the ring is a window on *)
(* the log: the k-th entry behind the head is the k-th last dispatch.      *)
(***************************************************************************)
Back(h, k) == IF k <= h THEN h - k ELSE h + RingSize - k

RingIsWindow ==
    \A k \in 1..RingSize : k <= Len(log) => seen_ring[Back(seen_head, k)] = log[Len(log) + 1 - k]

FilterInv == RingIsWindow /\ DuplicatesFarApart

\* Marking a frame moves the window by one.
LEMMA MarkStep ==
    ASSUME TypeOK, FilterInv, NEW f, KeyOf(f) \in Key, ~SeenRecently(KeyOf(f)), MarkSeen(KeyOf(f)),
           log' = Append(log, KeyOf(f))
    PROVE  FilterInv'
<1>1. log \in Seq(Key) /\ seen_head \in 0..(RingSize - 1) /\ seen_ring \in [0..(RingSize - 1) -> Key]
  BY DEF TypeOK, ReceiverTypeOK
<1>2. /\ Len(log') = Len(log) + 1
      /\ \A i \in 1..Len(log) : log'[i] = log[i]
      /\ log'[Len(log) + 1] = KeyOf(f)
  BY <1>1
<1>3. seen_head' = IF seen_head + 1 = RingSize THEN 0 ELSE seen_head + 1
  BY DEF MarkSeen
<1>4. RingIsWindow'
  <2> SUFFICES ASSUME NEW k \in 1..RingSize, k <= Len(log')
               PROVE  seen_ring'[Back(seen_head', k)] = log'[Len(log') + 1 - k]
    BY DEF RingIsWindow, Back
  <2>1. CASE k = 1
    <3>1. Back(seen_head', k) = seen_head
      BY <1>1, <1>3, <2>1 DEF Back
    <3> QED
      BY <1>1, <1>2, <2>1, <3>1 DEF MarkSeen
  <2>2. CASE k # 1
    <3>1. k - 1 \in 1..RingSize /\ k - 1 <= Len(log)
      BY <1>1, <1>2, <2>2
    <3>2. /\ Back(seen_head', k) = Back(seen_head, k - 1)
          /\ Back(seen_head, k - 1) # seen_head
          /\ Back(seen_head, k - 1) \in 0..(RingSize - 1)
      BY <1>1, <1>3, <2>2 DEF Back
    <3>3. seen_ring'[Back(seen_head', k)] = seen_ring[Back(seen_head, k - 1)]
      BY <1>1, <3>2 DEF MarkSeen
    <3>4. seen_ring[Back(seen_head, k - 1)] = log[Len(log) + 1 - (k - 1)]
      BY <3>1 DEF FilterInv, RingIsWindow
    <3>5. Len(log) + 1 - (k - 1) = Len(log') + 1 - k /\ Len(log') + 1 - k \in 1..Len(log)
      BY <1>1, <1>2, <2>2
    <3> QED
      BY <1>2, <3>3, <3>4, <3>5
  <2> QED
    BY <2>1, <2>2
<1>5. DuplicatesFarApart'
  <2> SUFFICES ASSUME NEW i \in 1..Len(log'), NEW j \in 1..Len(log'), i < j, log'[i] = log'[j]
               PROVE  j - i > RingSize
    BY <1>1, <1>2 DEF DuplicatesFarApart
  <2>1. CASE j <= Len(log)
    BY <1>1, <1>2, <2>1 DEF FilterInv, DuplicatesFarApart
  <2>2. CASE j = Len(log) + 1
    <3> SUFFICES ASSUME j - i <= RingSize PROVE FALSE
      BY <1>1, <1>2
    <3> DEFINE k == j - i
    <3>1. k \in 1..RingSize /\ k <= Len(log) /\ Len(log) + 1 - k = i
      BY <1>1, <1>2, <2>2
    <3>2. seen_ring[Back(seen_head, k)] = log[i]
      BY <3>1 DEF FilterInv, RingIsWindow
    <3>3. log[i] = KeyOf(f)
      BY <1>1, <1>2, <2>2
    <3>4. Back(seen_head, k) \in DOMAIN seen_ring
      BY <1>1, <3>1 DEF Back
    <3> QED
      BY <3>2, <3>3, <3>4 DEF SeenRecently
  <2> QED
    BY <1>1, <1>2, <2>1, <2>2
<1> QED
  BY <1>4, <1>5 DEF FilterInv

LEMMA FilterStep == TypeOK /\ FilterInv /\ [Next]_vars => FilterInv'
<1> SUFFICES ASSUME TypeOK, FilterInv, [Next]_vars PROVE FilterInv'
  OBVIOUS
<1>1. ASSUME UNCHANGED <<seen_ring, seen_head, log>> PROVE FilterInv'
  BY <1>1 DEF FilterInv, RingIsWindow, DuplicatesFarApart, Back
<1>2. ASSUME log' = <<>> PROVE FilterInv'
  BY <1>2 DEF FilterInv, RingIsWindow, DuplicatesFarApart
<1>3. ASSUME Dispatch(Head(to_rx)) PROVE FilterInv'
  <2>1. Head(to_rx) \in Data
    BY <1>3 DEF Dispatch, Arrives, TypeOK, WireTypeOK
  <2>2. KeyOf(Head(to_rx)) \in Key
    BY <2>1 DEF KeyOf, Key, Data
  <2> QED
    BY <1>3, <2>2, MarkStep DEF Dispatch
<1>4. CASE ReceiveSync \/ ReceiverRestart
  BY <1>2, <1>4 DEF ReceiveSync, ReceiverRestart, ResetRxDedup
<1>5. CASE Duplicate(Head(to_rx)) \/ SendAck
  BY <1>1, <1>5 DEF Duplicate, SendAck
<1>6. ASSUME NEW t \in Task, NextSeq(t) \/ Send(t) \/ SendRefused(t) \/ Transmit(t) PROVE FilterInv'
  BY <1>1, <1>6 DEF NextSeq, Send, SendRefused, Transmit, receiver
<1>7. CASE OtherTraffic \/ ReceiveAck \/ Resync \/ SenderRestart
  BY <1>1, <1>7 DEF OtherTraffic, ReceiveAck, Resync, SenderRestart, receiver
<1>8. CASE TickTask
  BY <1>1, <1>8 DEF TickTask, TickBegin, TickSend, TickEnd, TickSkip, TickDue, TickRetry, TickGiveUp, receiver
<1>9. CASE UNCHANGED vars
  BY <1>1, <1>9 DEF vars, receiver
<1> QED
  BY <1>3, <1>4, <1>5, <1>6, <1>7, <1>8, <1>9 DEF Next, ReceiveData

\* A frame is dispatched a second time only after more than RingSize other
\* dispatches, or after the filter was cleared.
THEOREM FilterCorrect == Spec => []DuplicatesFarApart
<1>1. Init => FilterInv
  BY DEF Init, FilterInv, RingIsWindow, DuplicatesFarApart
<1>2. FilterInv => DuplicatesFarApart
  BY DEF FilterInv
<1> QED
  BY <1>1, <1>2, FilterStep, TypeCorrect, PTL DEF Spec

-----------------------------------------------------------------------------
(***************************************************************************)
(* Payload buffers, for any number of sending tasks.  A busy slot's buffer *)
(* holds that frame's payload, and so does the buffer of every frame that  *)
(* somebody is about to send.  Only one thing can tear a frame: a slot     *)
(* freed by an early ACK, a give-up or a reset, and taken by the send of   *)
(* one task while another has still to ship the frame that was in it.      *)
(* Retransmissions, which copy the payload, never do.                      *)
(***************************************************************************)
OwnBuffers ==
    \A t, u \in Task : t # u /\ held[t] # NoFrame /\ held[u] # NoFrame => held[t].buf # held[u].buf

BusyBuffers == \A s \in Slot : win[s].active => payload[s] = win[s].id

TickBuffer == tick.frame # NoFrame => tick.frame.buf = Scratch /\ payload[Scratch] = tick.frame.id

HeldBuffers ==
    \A t \in Task : held[t] # NoFrame =>
        drawn[t] = 0 /\ held[t].buf # Scratch /\ payload[held[t].buf] = held[t].id

BufferInv == BusyBuffers /\ TickBuffer /\ HeldBuffers /\ NoTornFrame

LEMMA WireIntact ==
    ASSUME TypeOK, NoTornFrame, NEW f \in Data \cup {Sync}, f # Sync => f.body = f.id,
           to_rx' \in Wire(to_rx, f)
    PROVE  NoTornFrame'
<1>1. to_rx \in Seq(Data \cup {Sync})
  BY DEF TypeOK, WireTypeOK
<1>2. CASE to_rx' = to_rx
  BY <1>2 DEF NoTornFrame
<1>3. CASE to_rx' = Append(to_rx, f)
  BY <1>1, <1>3 DEF NoTornFrame
<1> QED
  BY <1>2, <1>3 DEF Wire

LEMMA BufferStep ==
    ASSUME OwnBuffers', TypeOK, BufferInv, [Next]_vars
    PROVE  BufferInv'
<1> USE DEF BufferInv
<1>0. SenderTypeOK /\ to_rx \in Seq(Data \cup {Sync}) /\ ~FreeSlot.active /\ Scratch \notin Slot
  BY DEF TypeOK, WireTypeOK, FreeSlot, Scratch, Slot
<1>1. ASSUME NEW t \in Task, NextSeq(t) \/ SendRefused(t) PROVE BufferInv'
  BY <1>0, <1>1 DEF NextSeq, SendRefused, BusyBuffers, TickBuffer, HeldBuffers, NoTornFrame, SenderTypeOK
<1>2. ASSUME NEW t \in Task, Send(t) PROVE BufferInv'
  <2>1. PICK s \in Slot, typ \in Type :
           /\ win' = [win EXCEPT ![s] = [active |-> TRUE, id |-> frames + 1, seq |-> drawn[t],
                                         typ |-> typ, retries |-> 0]]
           /\ payload' = [payload EXCEPT ![s] = frames + 1]
           /\ held' = [held EXCEPT ![t] = [id |-> frames + 1, seq |-> drawn[t], typ |-> typ, buf |-> s]]
    BY <1>2 DEF Send
  <2>2. BusyBuffers'
    BY <1>0, <2>1 DEF BusyBuffers, SenderTypeOK, Buffer
  <2>3. TickBuffer'
    BY <1>0, <1>2, <2>1 DEF TickBuffer, Send, SenderTypeOK, Buffer
  <2>4. HeldBuffers'
    <3>1. held'[t].buf = s /\ held'[t].id = frames + 1 /\ held'[t] # NoFrame /\ drawn'[t] = 0 /\ s # Scratch
      BY <1>0, <1>2, <2>1 DEF Send, SenderTypeOK, NoFrame, HistoryTypeOK, TypeOK
    <3>2. \A u \in Task : u # t => held'[u] = held[u] /\ drawn'[u] = drawn[u]
      BY <1>0, <1>2 DEF Send, SenderTypeOK
    <3>3. \A u \in Task : u # t /\ held[u] # NoFrame => held[u].buf # s
      BY <3>1, <3>2 DEF OwnBuffers
    <3>4. payload'[s] = frames + 1 /\ \A b \in Buffer : b # s => payload'[b] = payload[b]
      BY <1>0, <2>1 DEF SenderTypeOK, Buffer
    <3>5. \A u \in Task : held[u] # NoFrame => held[u].buf \in Buffer
      BY <1>0 DEF SenderTypeOK, Held
    <3>q. QED BY <3>1, <3>2, <3>3, <3>4, <3>5 DEF HeldBuffers
  <2>5. NoTornFrame'
    BY <1>2 DEF NoTornFrame, Send
  <2> QED
    BY <2>2, <2>3, <2>4, <2>5
<1>3. ASSUME NEW t \in Task, Transmit(t) PROVE BufferInv'
  <2>1. held[t] \in Held /\ OnWire(held[t]).body = OnWire(held[t]).id
    BY <1>0, <1>3 DEF Transmit, HeldBuffers, SenderTypeOK, OnWire
  <2>2. OnWire(held[t]) \in Data \cup {Sync}
    BY <1>0, <2>1, OnWireType
  <2>3. NoTornFrame'
    BY <1>3, <2>1, <2>2, WireIntact DEF Transmit
  <2>4. BusyBuffers' /\ TickBuffer' /\ HeldBuffers'
    BY <1>0, <1>3 DEF Transmit, BusyBuffers, TickBuffer, HeldBuffers, SenderTypeOK
  <2> QED
    BY <2>3, <2>4
<1>4. CASE TickSend
  <2>1. tick.frame \in Held /\ OnWire(tick.frame).body = OnWire(tick.frame).id
    BY <1>0, <1>4 DEF TickSend, TickBuffer, SenderTypeOK, OnWire
  <2>2. OnWire(tick.frame) \in Data \cup {Sync}
    BY <1>0, <2>1, OnWireType
  <2>3. NoTornFrame'
    BY <1>4, <2>1, <2>2, WireIntact DEF TickSend
  <2>4. BusyBuffers' /\ TickBuffer' /\ HeldBuffers'
    BY <1>0, <1>4 DEF TickSend, BusyBuffers, TickBuffer, HeldBuffers, SenderTypeOK
  <2> QED
    BY <2>3, <2>4
<1>5. ASSUME NEW s \in Slot, TickRetry(s) PROVE BufferInv'
  <2>1. BusyBuffers'
    BY <1>0, <1>5 DEF TickRetry, CountRetry, BusyBuffers, SenderTypeOK, Buffer
  <2>2. tick'.frame = RetransmitFrame(s) /\ payload'[Scratch] = payload[s]
    BY <1>0, <1>5 DEF TickRetry, SenderTypeOK, Buffer
  <2>3. TickBuffer'
    BY <1>5, <2>2 DEF TickRetry, TickBuffer, BusyBuffers, RetransmitFrame
  <2>4. HeldBuffers' /\ NoTornFrame'
    BY <1>0, <1>5 DEF TickRetry, HeldBuffers, NoTornFrame, SenderTypeOK, Buffer, Held
  <2> QED
    BY <2>1, <2>3, <2>4
<1>6. ASSUME NEW s \in Slot, TickSkip(s) \/ TickGiveUp(s) PROVE BufferInv'
  BY <1>0, <1>6 DEF TickSkip, TickGiveUp, Visiting, BusyBuffers, TickBuffer, HeldBuffers, NoTornFrame, SenderTypeOK
<1>7. CASE TickBegin \/ TickEnd
  BY <1>0, <1>7 DEF TickBegin, TickEnd, FreeAllSlots, Idle, BusyBuffers, TickBuffer, HeldBuffers, NoTornFrame
<1>8. CASE ReceiveAck
  BY <1>0, <1>8 DEF ReceiveAck, AckedSlots, BusyBuffers, TickBuffer, HeldBuffers, NoTornFrame, SenderTypeOK
<1>9. ASSUME UNCHANGED sender, NoTornFrame' PROVE BufferInv'
  BY <1>9 DEF sender, BusyBuffers, TickBuffer, HeldBuffers
<1>10. ASSUME to_rx # <<>>, to_rx' = Tail(to_rx) PROVE NoTornFrame'
  BY <1>0, <1>10 DEF NoTornFrame
<1>11. CASE Dispatch(Head(to_rx)) \/ Duplicate(Head(to_rx)) \/ ReceiveSync
  BY <1>9, <1>10, <1>11 DEF Dispatch, Duplicate, Arrives, ReceiveSync
<1>12. CASE SendAck \/ ReceiverRestart
  BY <1>9, <1>12 DEF SendAck, ReceiverRestart, NoTornFrame
<1>13. CASE OtherTraffic
  BY <1>13 DEF OtherTraffic, BusyBuffers, TickBuffer, HeldBuffers, NoTornFrame
<1>14. CASE Resync
  <2>1. NoTornFrame'
    BY <1>14, WireIntact DEF Resync
  <2> QED
    BY <1>0, <1>14, <2>1 DEF Resync, FreeAllSlots, BusyBuffers, TickBuffer, HeldBuffers
<1>15. CASE SenderRestart
  <2>1. NoTornFrame'
    BY <1>15, WireIntact DEF SenderRestart
  <2> QED
    BY <1>0, <1>15, <2>1 DEF SenderRestart, FreeAllSlots, Idle, BusyBuffers, TickBuffer, HeldBuffers
<1>16. CASE UNCHANGED vars
  BY <1>9, <1>16 DEF vars, NoTornFrame
<1> QED
  BY <1>1, <1>2, <1>3, <1>4, <1>5, <1>6, <1>7, <1>8, <1>11, <1>12, <1>13, <1>14, <1>15, <1>16
  DEF Next, TickTask, TickDue, ReceiveData

\* No frame is ever shipped over another frame's payload, by any number of sending tasks, by the
\* tick and beside ACKs and resets, unless two tasks come to ship from the same slot.
THEOREM NoTearing == Spec /\ []OwnBuffers => []NoTornFrame
<1>1. Init => BufferInv
  BY DEF Init, BufferInv, BusyBuffers, TickBuffer, HeldBuffers, NoTornFrame, FreeSlot, Idle
<1>2. TypeOK /\ BufferInv /\ OwnBuffers' /\ [Next]_vars => BufferInv'
  BY BufferStep
<1>3. BufferInv => NoTornFrame
  BY DEF BufferInv
<1> QED
  BY <1>1, <1>2, <1>3, TypeCorrect, PTL DEF Spec

-----------------------------------------------------------------------------
(***************************************************************************)
(* An ACK proves a dispatch.  AckedWasDispatched looks at the frames whose *)
(* ACK has come; the invariant follows the numbers instead: a number is    *)
(* drawn once, belongs to at most one frame wherever copies of it are, and *)
(* once the receiver answers a number, its frame has been dispatched.  All *)
(* of it holds on the first lap of the counter of an unrestarted sender,   *)
(* which is what the hypothesis of the theorem says.                       *)
(***************************************************************************)
\* A copy of frame i under number n: in a slot, in a task's or tick's hand, on the wire.
Carries(n, i) ==
    \/ \E s \in Slot : win[s].active /\ win[s].seq = n /\ win[s].id = i
    \/ \E t \in Task : held[t] # NoFrame /\ held[t].seq = n /\ held[t].id = i
    \/ tick.frame # NoFrame /\ tick.frame.seq = n /\ tick.frame.id = i
    \/ \E k \in DOMAIN to_rx : to_rx[k] # Sync /\ to_rx[k].seq = n /\ to_rx[k].id = i

\* Number n is acknowledged, about to be, or would be if it came again.
Answered(n) ==
    \/ \E k \in DOMAIN to_tx : to_tx[k] = n
    \/ \E k \in DOMAIN owed : owed[k] = n
    \/ \E k \in DOMAIN seen_ring : seen_ring[k].seq = n

FirstLap == restarts = 0 /\ draws <= SeqMax

CounterAhead == draws < SeqMax => next_seq = draws + 1

DrawnOnce ==
    /\ \A t \in Task : drawn[t] <= draws
    /\ \A t, u \in Task : drawn[t] # 0 /\ drawn[t] = drawn[u] => t = u

UsedWasDrawn ==
    \A n \in 1..SeqMax : Answered(n) \/ (\E i \in Id : Carries(n, i)) =>
        n <= draws /\ \A t \in Task : drawn[t] # n

OneFramePerNumber ==
    \A n \in 1..SeqMax, i, j \in Id : Carries(n, i) /\ Carries(n, j) => i = j

AnsweredWasDispatched ==
    \A n \in 1..SeqMax, i \in Id : Answered(n) /\ Carries(n, i) => count[i] > 0

NumbersInv ==
    FirstLap =>
        /\ CounterAhead /\ DrawnOnce /\ UsedWasDrawn
        /\ OneFramePerNumber /\ AnsweredWasDispatched
        /\ \A i \in acked : count[i] > 0

\* A step that draws nothing, makes no new copy and no new answer.
LEMMA NumbersShrink ==
    ASSUME TypeOK, NumbersInv, restarts' = restarts, draws' = draws, next_seq' = next_seq,
           \A t \in Task : drawn'[t] \in {0, drawn[t]},
           \A n \in 1..SeqMax, i \in Id : Carries(n, i)' => Carries(n, i),
           \A n \in 1..SeqMax : Answered(n)' => Answered(n),
           count' = count, acked' = acked
    PROVE  NumbersInv'
<1> SUFFICES ASSUME FirstLap' PROVE /\ CounterAhead' /\ DrawnOnce' /\ UsedWasDrawn'
                                    /\ OneFramePerNumber' /\ AnsweredWasDispatched'
                                    /\ \A i \in acked' : count'[i] > 0
  BY DEF NumbersInv
<1>0. FirstLap /\ draws \in Nat /\ \A t \in Task : drawn[t] \in Nat
  BY DEF FirstLap, TypeOK, HistoryTypeOK, SenderTypeOK
<1>1. CounterAhead' /\ DrawnOnce'
  BY <1>0 DEF NumbersInv, CounterAhead, DrawnOnce
<1>2. UsedWasDrawn'
  <2> SUFFICES ASSUME NEW n \in 1..SeqMax, Answered(n)' \/ (\E i \in Id : Carries(n, i)')
               PROVE  n <= draws' /\ \A t \in Task : drawn'[t] # n
    BY DEF UsedWasDrawn
  <2>1. Answered(n) \/ (\E i \in Id : Carries(n, i))
    OBVIOUS
  <2>2. n <= draws /\ \A t \in Task : drawn[t] # n
    BY <1>0, <2>1 DEF NumbersInv, UsedWasDrawn
  <2> QED
    BY <2>2
<1>3. OneFramePerNumber' /\ AnsweredWasDispatched'
  BY <1>0 DEF NumbersInv, OneFramePerNumber, AnsweredWasDispatched
<1> QED
  BY <1>0, <1>1, <1>2, <1>3 DEF NumbersInv

\* Drawing gives out a number nothing uses yet.
LEMMA NumbersDraw ==
    ASSUME TypeOK, NumbersInv, Draw, restarts' = restarts,
           \/ drawn' = drawn
           \/ \E t \in Task : drawn[t] = 0 /\ drawn' = [drawn EXCEPT ![t] = next_seq],
           \A n \in 1..SeqMax, i \in Id : Carries(n, i)' = Carries(n, i),
           \A n \in 1..SeqMax : Answered(n)' = Answered(n),
           count' = count, acked' = acked
    PROVE  NumbersInv'
<1> SUFFICES ASSUME FirstLap' PROVE /\ CounterAhead' /\ DrawnOnce' /\ UsedWasDrawn'
                                    /\ OneFramePerNumber' /\ AnsweredWasDispatched'
                                    /\ \A i \in acked' : count'[i] > 0
  BY DEF NumbersInv
<1>0. FirstLap /\ draws \in Nat /\ drawn \in [Task -> Nat] /\ draws' = draws + 1 /\ draws < SeqMax
  BY DEF FirstLap, TypeOK, HistoryTypeOK, SenderTypeOK, Draw
<1>1. next_seq = draws + 1
  BY <1>0 DEF NumbersInv, CounterAhead
<1>2. CounterAhead'
  BY <1>0, <1>1 DEF Draw, Successor, CounterAhead
<1>3. DrawnOnce'
  <2>1. CASE drawn' = drawn
    BY <1>0, <2>1 DEF NumbersInv, DrawnOnce
  <2>2. ASSUME NEW t \in Task, drawn' = [drawn EXCEPT ![t] = next_seq] PROVE DrawnOnce'
    BY <1>0, <1>1, <2>2 DEF NumbersInv, DrawnOnce
  <2> QED
    BY <2>1, <2>2
<1>4. UsedWasDrawn'
  <2> SUFFICES ASSUME NEW n \in 1..SeqMax, Answered(n)' \/ (\E i \in Id : Carries(n, i)')
               PROVE  n <= draws' /\ \A t \in Task : drawn'[t] # n
    BY DEF UsedWasDrawn
  <2>1. Answered(n) \/ (\E i \in Id : Carries(n, i))
    OBVIOUS
  <2>2. n <= draws /\ \A t \in Task : drawn[t] # n
    BY <1>0, <2>1 DEF NumbersInv, UsedWasDrawn
  <2> QED
    BY <1>0, <1>1, <2>2
<1>5. OneFramePerNumber' /\ AnsweredWasDispatched'
  BY <1>0 DEF NumbersInv, OneFramePerNumber, AnsweredWasDispatched
<1> QED
  BY <1>0, <1>2, <1>3, <1>4, <1>5 DEF NumbersInv

\* What comes off a channel was on it; what is put on it is there at most once more.
LEMMA WireEntries ==
    ASSUME NEW S, NEW c \in Seq(S), NEW f \in S, NEW d \in Wire(c, f), NEW k \in DOMAIN d
    PROVE  d[k] = f \/ \E m \in DOMAIN c : d[k] = c[m]
<1>1. CASE d = c
  BY <1>1
<1>2. CASE d = Append(c, f)
  BY <1>2
<1> QED
  BY <1>1, <1>2 DEF Wire

LEMMA SentEntries ==
    ASSUME TypeOK, NEW h, OnWire(h) \in Data, to_rx' \in Wire(to_rx, OnWire(h)), NEW k \in DOMAIN to_rx'
    PROVE  to_rx'[k] = OnWire(h) \/ \E m \in DOMAIN to_rx : to_rx'[k] = to_rx[m]
<1> DEFINE f == OnWire(h)
<1>1. f \in Data \cup {Sync} /\ to_rx \in Seq(Data \cup {Sync}) /\ to_rx' \in Wire(to_rx, f)
  BY DEF TypeOK, WireTypeOK
<1> HIDE DEF f
<1>2. to_rx'[k] = f \/ \E m \in DOMAIN to_rx : to_rx'[k] = to_rx[m]
  BY <1>1, WireEntries
<1> QED
  BY <1>2 DEF f

LEMMA TailEntries ==
    ASSUME NEW S, NEW c \in Seq(S), c # <<>>, NEW k \in DOMAIN Tail(c)
    PROVE  \E m \in DOMAIN c : Tail(c)[k] = c[m]
<1>1. k + 1 \in DOMAIN c /\ Tail(c)[k] = c[k + 1]
  OBVIOUS
<1> QED
  BY <1>1

LEMMA NumbersStep == TypeOK /\ NumbersInv /\ [Next]_vars => NumbersInv'
<1> SUFFICES ASSUME TypeOK, NumbersInv, [Next]_vars PROVE NumbersInv'
  OBVIOUS
<1>0. /\ SenderTypeOK /\ ReceiverTypeOK /\ HistoryTypeOK
      /\ to_rx \in Seq(Data \cup {Sync}) /\ to_tx \in Seq(1..SeqMax) /\ owed \in Seq(1..SeqMax)
      /\ ~FreeSlot.active
  BY DEF TypeOK, ReceiverTypeOK, WireTypeOK, FreeSlot
<1>1. ASSUME NEW t \in Task, NextSeq(t) PROVE NumbersInv'
  BY <1>1, NumbersDraw DEF NextSeq, Carries, Answered, receiver
<1>2. CASE OtherTraffic
  BY <1>2, NumbersDraw DEF OtherTraffic, Carries, Answered, receiver
<1>3. ASSUME NEW t \in Task, SendRefused(t) PROVE NumbersInv'
  BY <1>0, <1>3, NumbersShrink DEF SendRefused, SenderTypeOK, Carries, Answered, receiver, bounds
<1>4. ASSUME NEW t \in Task, Send(t) PROVE NumbersInv'
  <2> SUFFICES ASSUME FirstLap' PROVE /\ CounterAhead' /\ DrawnOnce' /\ UsedWasDrawn'
                                      /\ OneFramePerNumber' /\ AnsweredWasDispatched'
                                      /\ \A i \in acked' : count'[i] > 0
    BY DEF NumbersInv
  <2>0. FirstLap /\ drawn \in [Task -> 0..SeqMax] /\ draws \in Nat
    BY <1>0, <1>4 DEF FirstLap, Send, SenderTypeOK, HistoryTypeOK
  <2>1. PICK s \in Slot, typ \in Type :
           /\ win' = [win EXCEPT ![s] = [active |-> TRUE, id |-> frames + 1, seq |-> drawn[t],
                                         typ |-> typ, retries |-> 0]]
           /\ held' = [held EXCEPT ![t] = [id |-> frames + 1, seq |-> drawn[t], typ |-> typ, buf |-> s]]
    BY <1>4 DEF Send
  <2> DEFINE d == drawn[t]
  <2>2. d \in 1..SeqMax /\ d <= draws
    BY <1>4, <2>0 DEF Send, NumbersInv, DrawnOnce
  <2>3. \A n \in 1..SeqMax, i \in Id : Carries(n, i)' => Carries(n, i) \/ (n = d /\ i = frames + 1)
    BY <1>0, <1>4, <2>1 DEF Send, Carries, SenderTypeOK
  <2>4. \A n \in 1..SeqMax : Answered(n)' => Answered(n)
    BY <1>4 DEF Send, Answered, receiver
  <2>5. ~Answered(d) /\ \A i \in Id : ~Carries(d, i)
    BY <2>0, <2>2 DEF NumbersInv, UsedWasDrawn
  <2>6. \A u \in Task : drawn'[u] = IF u = t THEN 0 ELSE drawn[u]
    BY <1>4, <2>0 DEF Send
  <2>7. \A u \in Task : drawn'[u] # d
    BY <2>0, <2>2, <2>6 DEF NumbersInv, DrawnOnce
  <2>8. CounterAhead' /\ DrawnOnce'
    BY <1>4, <2>0, <2>6 DEF Send, NumbersInv, CounterAhead, DrawnOnce
  <2>9. UsedWasDrawn'
    <3> SUFFICES ASSUME NEW n \in 1..SeqMax, Answered(n)' \/ (\E i \in Id : Carries(n, i)')
                 PROVE  n <= draws' /\ \A u \in Task : drawn'[u] # n
      BY DEF UsedWasDrawn
    <3>1. CASE n = d
      BY <1>4, <2>2, <2>7, <3>1 DEF Send
    <3>2. CASE n # d
      <4>1. Answered(n) \/ (\E i \in Id : Carries(n, i))
        BY <2>3, <2>4, <3>2
      <4>2. n <= draws /\ \A u \in Task : drawn[u] # n
        BY <2>0, <4>1 DEF NumbersInv, UsedWasDrawn
      <4> QED
        BY <1>4, <2>6, <4>2 DEF Send
    <3> QED
      BY <3>1, <3>2
  <2>10. OneFramePerNumber'
    BY <2>0, <2>3, <2>5 DEF NumbersInv, OneFramePerNumber
  <2>11. AnsweredWasDispatched'
    BY <1>4, <2>0, <2>3, <2>4, <2>5 DEF Send, receiver, NumbersInv, AnsweredWasDispatched
  <2> QED
    BY <1>4, <2>0, <2>8, <2>9, <2>10, <2>11 DEF Send, receiver, NumbersInv
<1>5. ASSUME NEW t \in Task, Transmit(t) PROVE NumbersInv'
  <2>1. held[t] \in Held /\ OnWire(held[t]) \in Data
    BY <1>0, <1>5, OnWireType DEF Transmit, SenderTypeOK
  <2>2. OnWire(held[t]).seq = held[t].seq /\ OnWire(held[t]).id = held[t].id
    BY DEF OnWire
  <2>3. ASSUME NEW n \in 1..SeqMax, NEW i \in Id, Carries(n, i)' PROVE Carries(n, i)
    <3>1. ASSUME NEW k \in DOMAIN to_rx', to_rx'[k] # Sync, to_rx'[k].seq = n, to_rx'[k].id = i
          PROVE  Carries(n, i)
      <4>1. to_rx'[k] = OnWire(held[t]) \/ \E m \in DOMAIN to_rx : to_rx'[k] = to_rx[m]
        BY <1>5, <2>1, <3>1, SentEntries DEF Transmit
      <4> QED
        BY <1>5, <2>2, <3>1, <4>1 DEF Transmit, Carries
    <3> QED
      BY <1>0, <1>5, <2>3, <3>1 DEF Transmit, Carries, SenderTypeOK
  <2> QED
    BY <1>5, <2>3, NumbersShrink DEF Transmit, Answered, receiver, bounds
<1>6. CASE TickSend
  <2>1. tick.frame \in Held /\ OnWire(tick.frame) \in Data
    BY <1>0, <1>6, OnWireType DEF TickSend, SenderTypeOK
  <2>2. OnWire(tick.frame).seq = tick.frame.seq /\ OnWire(tick.frame).id = tick.frame.id
    BY DEF OnWire
  <2>3. ASSUME NEW n \in 1..SeqMax, NEW i \in Id, Carries(n, i)' PROVE Carries(n, i)
    <3>1. ASSUME NEW k \in DOMAIN to_rx', to_rx'[k] # Sync, to_rx'[k].seq = n, to_rx'[k].id = i
          PROVE  Carries(n, i)
      <4>1. to_rx'[k] = OnWire(tick.frame) \/ \E m \in DOMAIN to_rx : to_rx'[k] = to_rx[m]
        BY <1>6, <2>1, <3>1, SentEntries DEF TickSend
      <4> QED
        BY <1>6, <2>2, <3>1, <4>1 DEF TickSend, Carries
    <3> QED
      BY <1>0, <1>6, <2>3, <3>1 DEF TickSend, Carries, SenderTypeOK
  <2> QED
    BY <1>6, <2>3, NumbersShrink DEF TickSend, Answered, receiver, bounds
<1>7. ASSUME NEW s \in Slot, TickRetry(s) PROVE NumbersInv'
  <2>1. /\ win'[s].active = win[s].active /\ win'[s].seq = win[s].seq /\ win'[s].id = win[s].id
        /\ \A q \in Slot : q # s => win'[q] = win[q]
    <3>1. win[s] \in BusySlot
      BY <1>0, <1>7, BusyType DEF TickRetry
    <3> QED
      BY <1>0, <1>7, <3>1 DEF TickRetry, CountRetry, BusySlot, SenderTypeOK
  <2>2. tick'.frame = RetransmitFrame(s)
    BY <1>0, <1>7 DEF TickRetry, SenderTypeOK
  <2>3. \A n \in 1..SeqMax, i \in Id : Carries(n, i)' => Carries(n, i)
    BY <1>7, <2>1, <2>2 DEF TickRetry, RetransmitFrame, Carries
  <2> QED
    BY <1>7, <2>3, NumbersShrink DEF TickRetry, Answered, receiver, bounds
<1>8. ASSUME NEW s \in Slot, TickSkip(s) \/ TickGiveUp(s) PROVE NumbersInv'
  <2>1. tick'.frame = tick.frame
    BY <1>0, <1>8 DEF TickSkip, TickGiveUp, SenderTypeOK
  <2>2. \A n \in 1..SeqMax, i \in Id : Carries(n, i)' => Carries(n, i)
    BY <1>0, <1>8, <2>1 DEF TickSkip, TickGiveUp, Carries, SenderTypeOK
  <2> QED
    BY <1>8, <2>2, NumbersShrink DEF TickSkip, TickGiveUp, Answered, receiver, bounds
<1>9. CASE TickBegin \/ TickEnd
  <2>1. tick'.frame = NoFrame
    BY <1>9 DEF TickBegin, TickEnd, Idle
  <2>2. \A n \in 1..SeqMax, i \in Id : Carries(n, i)' => Carries(n, i)
    BY <1>0, <1>9, <2>1 DEF TickBegin, TickEnd, FreeAllSlots, Carries
  <2> QED
    BY <1>9, <2>2, NumbersShrink DEF TickBegin, TickEnd, Answered, receiver, bounds
<1>10. CASE ReceiveAck
  <2> DEFINE n == Head(to_tx)
  <2>1. n \in 1..SeqMax /\ Answered(n) /\ to_tx' = Tail(to_tx)
    BY <1>0, <1>10 DEF ReceiveAck, Answered
  <2>2. \A m \in 1..SeqMax, i \in Id : Carries(m, i)' => Carries(m, i)
    BY <1>0, <1>10 DEF ReceiveAck, Carries, SenderTypeOK
  <2>3. \A m \in 1..SeqMax : Answered(m)' => Answered(m)
    BY <1>0, <1>10, TailEntries DEF ReceiveAck, Answered, receiver
  <2>4. CASE acked' = acked
    BY <1>10, <2>2, <2>3, <2>4, NumbersShrink DEF ReceiveAck, receiver, bounds
  <2>5. ASSUME NEW s \in AckedSlots(n), acked' = acked \cup {win[s].id} PROVE NumbersInv'
    <3>1. s \in Slot /\ win[s].active /\ win[s].seq = n /\ win[s].id \in Id
      BY <1>0, BusyType DEF AckedSlots, BusySlot
    <3>2. Carries(n, win[s].id)
      BY <3>1 DEF Carries
    <3>3. FirstLap => count[win[s].id] > 0
      BY <2>1, <3>1, <3>2 DEF NumbersInv, AnsweredWasDispatched
    <3> SUFFICES ASSUME FirstLap' PROVE /\ CounterAhead' /\ DrawnOnce' /\ UsedWasDrawn'
                                        /\ OneFramePerNumber' /\ AnsweredWasDispatched'
                                        /\ \A i \in acked' : count'[i] > 0
      BY DEF NumbersInv
    <3>4. FirstLap /\ UNCHANGED <<draws, next_seq, drawn, count>>
      BY <1>10 DEF ReceiveAck, FirstLap, bounds, receiver
    <3>5. CounterAhead' /\ DrawnOnce'
      BY <3>4 DEF NumbersInv, CounterAhead, DrawnOnce
    <3>6. UsedWasDrawn'
      BY <2>2, <2>3, <3>4 DEF NumbersInv, UsedWasDrawn
    <3>7. OneFramePerNumber' /\ AnsweredWasDispatched'
      BY <2>2, <2>3, <3>4 DEF NumbersInv, OneFramePerNumber, AnsweredWasDispatched
    <3> QED
      BY <2>5, <3>3, <3>4, <3>5, <3>6, <3>7 DEF NumbersInv
  <2> QED
    BY <1>10, <2>4, <2>5 DEF ReceiveAck
<1>11. ASSUME to_rx # <<>>, Head(to_rx) # Sync, to_rx' = Tail(to_rx), owed' = Append(owed, Head(to_rx).seq),
              \A k \in DOMAIN seen_ring' :
                  seen_ring'[k].seq = Head(to_rx).seq \/ \E m \in DOMAIN seen_ring : seen_ring'[k] = seen_ring[m],
              UNCHANGED <<sender, to_tx, bounds, acked>>,
              \A i \in Id : count[i] > 0 => count'[i] > 0,
              FirstLap => count'[Head(to_rx).id] > 0
       PROVE  NumbersInv'
  <2> SUFFICES ASSUME FirstLap' PROVE /\ CounterAhead' /\ DrawnOnce' /\ UsedWasDrawn'
                                      /\ OneFramePerNumber' /\ AnsweredWasDispatched'
                                      /\ \A i \in acked' : count'[i] > 0
    BY DEF NumbersInv
  <2> DEFINE f == Head(to_rx)
  <2>0. FirstLap /\ UNCHANGED <<win, held, tick, draws, next_seq, drawn>> /\ acked \subseteq Id
    BY <1>0, <1>11 DEF FirstLap, sender, bounds, HistoryTypeOK
  <2>1. f \in Data /\ f.seq \in 1..SeqMax /\ f.id \in Id
    BY <1>0, <1>11 DEF Data
  <2>2. Carries(f.seq, f.id)
    BY <1>0, <1>11 DEF Carries
  <2>3. \A n \in 1..SeqMax, i \in Id : Carries(n, i)' => Carries(n, i)
    <3> SUFFICES ASSUME NEW n \in 1..SeqMax, NEW i \in Id, Carries(n, i)' PROVE Carries(n, i)
      OBVIOUS
    <3>0. to_rx # <<>> /\ to_rx' = Tail(to_rx)
      BY <1>11
    <3>1. \A k \in DOMAIN to_rx' : \E m \in DOMAIN to_rx : to_rx'[k] = to_rx[m]
      BY <1>0, <3>0, TailEntries
    <3> QED
      BY <2>0, <3>1 DEF Carries
  <2>4. \A n \in 1..SeqMax : Answered(n)' => Answered(n) \/ n = f.seq
    <3>1. \A k \in DOMAIN owed' : owed'[k] = f.seq \/ \E m \in DOMAIN owed : owed'[k] = owed[m]
      BY <1>0, <1>11, <2>1
    <3> QED
      BY <1>11, <3>1 DEF Answered
  <2>5. CounterAhead' /\ DrawnOnce'
    BY <2>0 DEF NumbersInv, CounterAhead, DrawnOnce
  <2>6. UsedWasDrawn'
    BY <2>0, <2>1, <2>2, <2>3, <2>4 DEF NumbersInv, UsedWasDrawn
  <2>7. OneFramePerNumber'
    BY <2>0, <2>3 DEF NumbersInv, OneFramePerNumber
  <2>8. AnsweredWasDispatched'
    <3> SUFFICES ASSUME NEW n \in 1..SeqMax, NEW i \in Id, Answered(n)', Carries(n, i)'
                 PROVE  count'[i] > 0
      BY DEF AnsweredWasDispatched
    <3>1. Carries(n, i)
      BY <2>3
    <3>2. CASE n = f.seq
      <4>1. i = f.id
        BY <2>0, <2>1, <2>2, <3>1, <3>2 DEF NumbersInv, OneFramePerNumber
      <4> QED
        BY <1>11, <2>0, <4>1
    <3>3. CASE n # f.seq
      <4>1. count[i] > 0
        BY <2>0, <2>4, <3>1, <3>3 DEF NumbersInv, AnsweredWasDispatched
      <4> QED
        BY <1>11, <4>1
    <3> QED
      BY <3>2, <3>3
  <2> QED
    BY <1>11, <2>0, <2>5, <2>6, <2>7, <2>8 DEF NumbersInv
<1>12. ASSUME Dispatch(Head(to_rx)) PROVE NumbersInv'
  <2> DEFINE f == Head(to_rx)
  <2>1. to_rx # <<>> /\ f # Sync /\ f \in Data /\ f.id \in Id
    BY <1>0, <1>12 DEF Dispatch, Arrives, Data
  <2>2. \A i \in Id : count[i] > 0 => count'[i] > 0
    BY <1>0, <1>12 DEF Dispatch, ReceiverTypeOK
  <2>3. count'[f.id] > 0
    BY <1>0, <1>12, <2>1 DEF Dispatch, ReceiverTypeOK
  <2>4. \A k \in DOMAIN seen_ring' :
            seen_ring'[k].seq = f.seq \/ \E m \in DOMAIN seen_ring : seen_ring'[k] = seen_ring[m]
    BY <1>0, <1>12 DEF Dispatch, MarkSeen, KeyOf, ReceiverTypeOK
  <2> QED
    BY <1>11, <1>12, <2>1, <2>2, <2>3, <2>4 DEF Dispatch, Arrives
<1>13. ASSUME Duplicate(Head(to_rx)) PROVE NumbersInv'
  <2> DEFINE f == Head(to_rx)
  <2>1. to_rx # <<>> /\ f # Sync /\ f \in Data /\ f.id \in Id /\ f.seq \in 1..SeqMax
    BY <1>0, <1>13 DEF Duplicate, Arrives, Data
  <2>2. Carries(f.seq, f.id)
    BY <1>0, <2>1 DEF Carries
  <2>3. Answered(f.seq)
    BY <1>13 DEF Duplicate, SeenRecently, KeyOf, Answered
  <2>4. FirstLap => count[f.id] > 0
    BY <2>1, <2>2, <2>3 DEF NumbersInv, AnsweredWasDispatched
  <2>5. \A i \in Id : count[i] > 0 => count'[i] > 0
    BY <1>0, <1>13 DEF Duplicate, ReceiverTypeOK
  <2> QED
    BY <1>11, <1>13, <2>1, <2>4, <2>5 DEF Duplicate, Arrives
<1>14. CASE ReceiveSync
  <2>1. \A k \in DOMAIN to_rx' : \E m \in DOMAIN to_rx : to_rx'[k] = to_rx[m]
    BY <1>0, <1>14, TailEntries DEF ReceiveSync
  <2>2. \A n \in 1..SeqMax, i \in Id : Carries(n, i)' => Carries(n, i)
    BY <1>14, <2>1 DEF ReceiveSync, Carries, sender
  <2>3. \A n \in 1..SeqMax : Answered(n)' => Answered(n)
    BY <1>14 DEF ReceiveSync, ResetRxDedup, NoKey, Answered
  <2> QED
    BY <1>14, <2>2, <2>3, NumbersShrink DEF ReceiveSync, sender, bounds
<1>15. CASE SendAck
  <2>1. owed[Len(owed)] \in 1..SeqMax /\ Len(owed) \in DOMAIN owed
    BY <1>0, <1>15 DEF SendAck
  <2>2. \A k \in DOMAIN to_tx' : to_tx'[k] = owed[Len(owed)] \/ \E m \in DOMAIN to_tx : to_tx'[k] = to_tx[m]
    BY <1>0, <1>15, <2>1, WireEntries DEF SendAck
  <2>3. \A k \in DOMAIN owed' : \E m \in DOMAIN owed : owed'[k] = owed[m]
    BY <1>0, <1>15 DEF SendAck
  <2>4. \A n \in 1..SeqMax : Answered(n)' => Answered(n)
    BY <1>15, <2>1, <2>2, <2>3 DEF SendAck, Answered
  <2>5. \A n \in 1..SeqMax, i \in Id : Carries(n, i)' => Carries(n, i)
    BY <1>15 DEF SendAck, Carries, sender
  <2> QED
    BY <1>15, <2>4, <2>5, NumbersShrink DEF SendAck, sender, bounds
<1>16. CASE Resync
  <2>1. \A k \in DOMAIN to_rx' : to_rx'[k] = Sync \/ \E m \in DOMAIN to_rx : to_rx'[k] = to_rx[m]
    BY <1>0, <1>16, WireEntries DEF Resync
  <2>2. \A n \in 1..SeqMax, i \in Id : Carries(n, i)' => Carries(n, i)
    BY <1>0, <1>16, <2>1 DEF Resync, FreeAllSlots, Carries
  <2> QED
    BY <1>16, <2>2, NumbersShrink DEF Resync, Answered, receiver
<1>17. CASE SenderRestart
  BY <1>0, <1>17 DEF SenderRestart, NumbersInv, FirstLap, HistoryTypeOK
<1>18. CASE ReceiverRestart
  <2>1. \A n \in 1..SeqMax : Answered(n)' => Answered(n)
    BY <1>18 DEF ReceiverRestart, ResetRxDedup, NoKey, Answered
  <2>2. \A n \in 1..SeqMax, i \in Id : Carries(n, i)' => Carries(n, i)
    BY <1>18 DEF ReceiverRestart, Carries, sender
  <2> QED
    BY <1>18, <2>1, <2>2, NumbersShrink DEF ReceiverRestart, sender
<1>19. CASE UNCHANGED vars
  BY <1>19, NumbersShrink DEF vars, sender, receiver, bounds, Carries, Answered
<1> QED
  BY <1>1, <1>2, <1>3, <1>4, <1>5, <1>6, <1>7, <1>8, <1>9, <1>10, <1>12, <1>13, <1>14, <1>15, <1>16, <1>17, <1>18, <1>19
  DEF Next, TickTask, TickDue, ReceiveData

LEMMA NumbersInit == Init => NumbersInv
<1> SUFFICES ASSUME Init PROVE NumbersInv
  OBVIOUS
<1>1. \A n \in 1..SeqMax, i \in Id : ~Carries(n, i)
  BY DEF Init, Carries, FreeSlot, Idle
<1>2. \A n \in 1..SeqMax : ~Answered(n)
  BY DEF Init, Answered, NoKey
<1> QED
  BY <1>1, <1>2 DEF Init, NumbersInv, CounterAhead, DrawnOnce, UsedWasDrawn, OneFramePerNumber, AnsweredWasDispatched

\* As long as the counter has not come round, a frame confirmed to a sender that
\* did not restart was dispatched by the peer: whatever the wire loses or delays,
\* however ACKs nest, and across link resets and restarts of the peer.
THEOREM AckIsDispatch == Spec => [](draws <= SeqMax => AckedWasDispatched)
<1>1. Init => NumbersInv
  BY NumbersInit
<1>2. NumbersInv => (draws <= SeqMax => AckedWasDispatched)
  BY DEF NumbersInv, FirstLap, AckedWasDispatched
<1> QED
  BY <1>1, <1>2, NumbersStep, TypeCorrect, PTL DEF Spec
-----------------------------------------------------------------------------
(***************************************************************************)
(* At most once.  The filter suppresses a copy whose key is among the last *)
(* RingSize dispatches.  That this reaches every later copy of a frame     *)
(* takes three facts: a frame keeps its number and type; no SYNC, which    *)
(* would clear the filter, stands between two copies of one frame, or      *)
(* between a copy and the frame's dispatch (a sender that restarts drops   *)
(* what it holds, and the wire keeps the order); so the key of a frame     *)
(* that was dispatched and is still under way is in the log.               *)
(***************************************************************************)
\* A copy of frame i under key k is still to be put on the wire.
InHand(i, k) ==
    \/ \E s \in Slot : win[s].active /\ win[s].id = i /\ KeyOf(win[s]) = k
    \/ \E t \in Task : held[t] # NoFrame /\ held[t].id = i /\ KeyOf(held[t]) = k
    \/ tick.frame # NoFrame /\ tick.frame.id = i /\ KeyOf(tick.frame) = k

\* A copy of frame i under key k is the p-th on the wire.
IsAt(p, i, k) == to_rx[p] # Sync /\ to_rx[p].id = i /\ KeyOf(to_rx[p]) = k

Copy(i, k) == InHand(i, k) \/ \E p \in DOMAIN to_rx : IsAt(p, i, k)

\* A frame keeps its key, and only accepted frames have copies or were dispatched.
CopyInv ==
    /\ \A i \in Id, k, l \in Key : Copy(i, k) /\ Copy(i, l) => k = l
    /\ \A i \in Id, k \in Key : Copy(i, k) => i <= frames
    /\ \A i \in Id : count[i] > 0 => i <= frames

\* Of frame i, something passed the m-th place of the wire, or something has still to.
Ahead(i, m)  == count[i] > 0 \/ \E p \in DOMAIN to_rx, k \in Key : p < m /\ IsAt(p, i, k)
Behind(i, m) == \E k \in Key : InHand(i, k) \/ \E p \in DOMAIN to_rx : p > m /\ IsAt(p, i, k)

\* The p-th dispatch since the filter was cleared is the last one of key k.
LastAt(p, k) == log[p] = k /\ \A l \in DOMAIN log : l > p => log[l] # k

Logged(k) == \E p \in DOMAIN log : LastAt(p, k)

OnceInv ==
    resets = 0 /\ peer_restarts = 0 =>
        /\ \A i \in Id : count[i] <= 1
        /\ \A m \in DOMAIN to_rx, i \in Id : to_rx[m] = Sync => ~(Ahead(i, m) /\ Behind(i, m))
        /\ \A i \in Id, k \in Key : count[i] > 0 /\ Copy(i, k) => Logged(k)

\* What the code relies on (hap_session.cpp:100-103): a late copy of a frame that was
\* dispatched finds fewer than RingSize dispatches after the last one of its key.
Timely ==
    \A q \in DOMAIN to_rx : to_rx[q] # Sync /\ count[to_rx[q].id] > 0 =>
        \A p \in DOMAIN log : LastAt(p, KeyOf(to_rx[q])) => Len(log) - p < RingSize

\* The window holds accepted frames, each once, and none that was answered or given up.
WindowInv ==
    /\ acked \cup abandoned \subseteq 1..frames
    /\ \A s \in Slot : win[s].active => win[s].id \in (1..frames) \ (acked \cup abandoned)
    /\ \A s, q \in Slot : win[s].active /\ win[q].active /\ win[s].id = win[q].id => s = q

LEMMA KeyTypes ==
    ASSUME TypeOK
    PROVE /\ \A s \in Slot : win[s].active => win[s].id \in Id /\ KeyOf(win[s]) \in Key
          /\ \A t \in Task : held[t] # NoFrame => held[t].id \in Id /\ KeyOf(held[t]) \in Key
          /\ tick.frame # NoFrame => tick.frame.id \in Id /\ KeyOf(tick.frame) \in Key
          /\ \A p \in DOMAIN to_rx : to_rx[p] # Sync => to_rx[p].id \in Id /\ KeyOf(to_rx[p]) \in Key
<1>1. \A s \in Slot : win[s].active => win[s].id \in Id /\ KeyOf(win[s]) \in Key
  <2> SUFFICES ASSUME NEW s \in Slot, win[s].active PROVE win[s].id \in Id /\ KeyOf(win[s]) \in Key
    OBVIOUS
  <2>1. win[s] \in BusySlot
    BY BusyType DEF TypeOK
  <2>2. win[s].id \in Id /\ win[s].seq \in 1..SeqMax /\ win[s].typ \in Type
    BY <2>1 DEF BusySlot
  <2> QED
    BY <2>2 DEF KeyOf, Key
<1>2. \A h \in Held : h.id \in Id /\ KeyOf(h) \in Key
  BY DEF Held, KeyOf, Key
<1>3. \A f \in Data : f.id \in Id /\ KeyOf(f) \in Key
  BY DEF Data, KeyOf, Key
<1> QED
  BY <1>1, <1>2, <1>3 DEF TypeOK, SenderTypeOK, WireTypeOK

\* What goes on the wire has the number and the key of what was in hand.
LEMMA WireKey ==
    ASSUME NEW h
    PROVE OnWire(h) # Sync /\ OnWire(h).id = h.id /\ KeyOf(OnWire(h)) = KeyOf(h)
<1>1. OnWire(h).kind = "data" /\ Sync.kind = "sync"
  BY DEF OnWire, Sync
<1> QED
  BY <1>1 DEF OnWire, KeyOf

AtMostOnce == CopyInv /\ OnceInv

\* No new copy, nothing dispatched, the wire as it was.
LEMMA OnceShrink ==
    ASSUME TypeOK, AtMostOnce, UNCHANGED <<to_rx, count, log, frames, resets, peer_restarts>>,
           \A i \in Id, k \in Key : InHand(i, k)' => InHand(i, k)
    PROVE  AtMostOnce'
<1>1. \A i \in Id, k \in Key : Copy(i, k)' => Copy(i, k)
  BY DEF Copy, IsAt
<1>2. CopyInv'
  BY <1>1 DEF AtMostOnce, CopyInv
<1>3. \A m \in DOMAIN to_rx, i \in Id : (Ahead(i, m)' => Ahead(i, m)) /\ (Behind(i, m)' => Behind(i, m))
  BY DEF Ahead, Behind, IsAt
<1>4. \A k \in Key : Logged(k)' <=> Logged(k)
  BY DEF Logged, LastAt
<1> QED
  BY <1>1, <1>2, <1>3, <1>4 DEF AtMostOnce, OnceInv

\* A frame that is accepted is new: nothing of it was ever sent or dispatched.
LEMMA OnceSend ==
    ASSUME TypeOK, AtMostOnce, NEW t \in Task, Send(t)
    PROVE  AtMostOnce'
<1>0. SenderTypeOK /\ HistoryTypeOK /\ count \in [Id -> Nat]
  BY DEF TypeOK, ReceiverTypeOK
<1>u. UNCHANGED <<to_rx, tick, count, log, resets, peer_restarts>> /\ frames' = frames + 1 /\ frames \in Nat /\ frames + 1 \in Id
  BY <1>0 DEF Send, receiver, HistoryTypeOK, Id
<1>1. PICK s \in Slot, typ \in Type :
         /\ win' = [win EXCEPT ![s] = [active |-> TRUE, id |-> frames + 1, seq |-> drawn[t],
                                       typ |-> typ, retries |-> 0]]
         /\ held' = [held EXCEPT ![t] = [id |-> frames + 1, seq |-> drawn[t], typ |-> typ, buf |-> s]]
  BY DEF Send
<1> DEFINE n == frames + 1
           key == [seq |-> drawn[t], typ |-> typ]
<1>2. \A i, k : InHand(i, k)' => InHand(i, k) \/ (i = n /\ k = key)
  <2>1. \A q \in Slot : q # s => win'[q] = win[q]
    BY <1>0, <1>1 DEF SenderTypeOK
  <2>2. win'[s].id = n /\ KeyOf(win'[s]) = key
    BY <1>0, <1>1 DEF SenderTypeOK, KeyOf
  <2>3. \A q \in Task : q # t => held'[q] = held[q]
    BY <1>0, <1>1 DEF SenderTypeOK
  <2>4. held'[t].id = n /\ KeyOf(held'[t]) = key
    BY <1>0, <1>1 DEF SenderTypeOK, KeyOf
  <2> QED
    BY <1>u, <2>1, <2>2, <2>3, <2>4 DEF InHand
<1>3. \A k \in Key : ~Copy(n, k)
  BY <1>u DEF AtMostOnce, CopyInv
<1>4. ~(count[n] > 0)
  BY <1>u DEF AtMostOnce, CopyInv
<1>5. \A i \in Id, k \in Key : Copy(i, k)' => Copy(i, k) \/ (i = n /\ k = key)
  BY <1>u, <1>2 DEF Copy, IsAt
<1> HIDE DEF key
<1>6. CopyInv'
  <2>1. \A i \in Id, k, l \in Key : Copy(i, k)' /\ Copy(i, l)' => k = l
    BY <1>3, <1>5 DEF AtMostOnce, CopyInv
  <2>2. \A i \in Id, k \in Key : Copy(i, k)' => i <= frames'
    BY <1>u, <1>5 DEF AtMostOnce, CopyInv, Id
  <2>3. \A i \in Id : count'[i] > 0 => i <= frames'
    BY <1>u DEF AtMostOnce, CopyInv, Id
  <2> QED
    BY <2>1, <2>2, <2>3 DEF CopyInv
<1>7. \A m \in DOMAIN to_rx, i \in Id : (Ahead(i, m)' => Ahead(i, m)) /\ (Behind(i, m)' => Behind(i, m) \/ i = n)
  BY <1>u, <1>2 DEF Ahead, Behind, IsAt
<1>8. \A m \in DOMAIN to_rx : ~Ahead(n, m)
  BY <1>3, <1>4 DEF Ahead, Copy
<1>9. \A k \in Key : Logged(k)' <=> Logged(k)
  BY <1>u DEF Logged, LastAt
<1> QED
  BY <1>u, <1>4, <1>5, <1>6, <1>7, <1>8, <1>9 DEF AtMostOnce, OnceInv

\* A copy goes from a hand to the end of the wire, or is lost.
LEMMA OnceWire ==
    ASSUME TypeOK, AtMostOnce, NEW h, OnWire(h) \in Data, KeyOf(h) \in Key, InHand(h.id, KeyOf(h)),
           to_rx' \in Wire(to_rx, OnWire(h)),
           UNCHANGED <<count, log, frames, resets, peer_restarts>>,
           \A i \in Id, k \in Key : InHand(i, k)' => InHand(i, k)
    PROVE  AtMostOnce'
<1> DEFINE f == OnWire(h)
<1>f. f # Sync /\ f.id = h.id /\ KeyOf(f) = KeyOf(h) /\ h.id \in Id
  <2>1. f.id \in Id
    BY DEF Data
  <2> QED
    BY <2>1, WireKey
<1>t. to_rx \in Seq(Data \cup {Sync}) /\ f \in Data \cup {Sync} /\ to_rx' \in Wire(to_rx, f)
  BY DEF TypeOK, WireTypeOK
<1> HIDE DEF f
<1>1. CASE to_rx' = to_rx
  BY <1>1, OnceShrink
<1>2. CASE to_rx' = Append(to_rx, f)
  <2>n. PICK n \in Nat : n = Len(to_rx) + 1
    BY <1>t
  <2>1. /\ DOMAIN to_rx' = DOMAIN to_rx \cup {n} /\ to_rx'[n] = f
        /\ \A p \in DOMAIN to_rx : to_rx'[p] = to_rx[p] /\ p < n
    BY <1>t, <1>2, <2>n
  <2>2. \A i, k : IsAt(n, i, k)' => i = h.id /\ k = KeyOf(h)
    BY <1>f, <2>1 DEF IsAt
  <2>3. \A p \in DOMAIN to_rx : \A i, k : IsAt(p, i, k)' <=> IsAt(p, i, k)
    BY <2>1 DEF IsAt
  <2>4. \A i \in Id, k \in Key : Copy(i, k)' => Copy(i, k)
    BY <2>1, <2>2, <2>3 DEF Copy
  <2>5. CopyInv'
    BY <2>4 DEF AtMostOnce, CopyInv
  <2>6. ASSUME NEW m \in DOMAIN to_rx, NEW i \in Id, Ahead(i, m)' PROVE Ahead(i, m)
    <3>1. CASE count[i] > 0
      BY <3>1 DEF Ahead
    <3>2. ASSUME NEW p \in DOMAIN to_rx', NEW k \in Key, p < m, IsAt(p, i, k)' PROVE Ahead(i, m)
      <4>0. m < n /\ m \in 1..Len(to_rx) /\ p \in 1..n
        BY <1>t, <2>n, <2>1, <3>2
      <4>1. p \in DOMAIN to_rx
        BY <2>1, <3>2, <4>0, <1>t, <2>n
      <4> QED
        BY <2>3, <3>2, <4>1 DEF Ahead
    <3> QED
      BY <2>6, <3>1, <3>2 DEF Ahead
  <2>7. ASSUME NEW m \in DOMAIN to_rx, NEW i \in Id, Behind(i, m)' PROVE Behind(i, m)
    <3>1. PICK k \in Key : InHand(i, k)' \/ \E p \in DOMAIN to_rx' : p > m /\ IsAt(p, i, k)'
      BY <2>7 DEF Behind
    <3>2. CASE InHand(i, k)'
      BY <3>2 DEF Behind
    <3>3. ASSUME NEW p \in DOMAIN to_rx', p > m, IsAt(p, i, k)' PROVE Behind(i, m)
      <4>1. CASE p = n
        BY <2>2, <3>3, <4>1 DEF Behind
      <4>2. CASE p \in DOMAIN to_rx
        BY <2>3, <3>3, <4>2 DEF Behind
      <4> QED
        BY <2>1, <3>3, <4>1, <4>2
    <3> QED
      BY <3>1, <3>2, <3>3
  <2>8. \A m \in DOMAIN to_rx' : to_rx'[m] = Sync => m \in DOMAIN to_rx /\ to_rx[m] = Sync
    BY <1>f, <2>1
  <2>9. \A k \in Key : Logged(k)' <=> Logged(k)
    BY DEF Logged, LastAt
  <2> QED
    BY <2>4, <2>5, <2>6, <2>7, <2>8, <2>9 DEF AtMostOnce, OnceInv
<1> QED
  BY <1>t, <1>1, <1>2 DEF Wire

\* What comes off the wire moves everything behind it up by one.
LEMMA TailMoves ==
    ASSUME TypeOK, to_rx # <<>>, to_rx' = Tail(to_rx), UNCHANGED <<win, held, tick>>
    PROVE /\ 1 \in DOMAIN to_rx
          /\ \A i, k : InHand(i, k)' <=> InHand(i, k)
          /\ \A p \in DOMAIN to_rx' : p + 1 \in DOMAIN to_rx /\ to_rx'[p] = to_rx[p + 1]
          /\ \A i, k : Copy(i, k)' => Copy(i, k)
          /\ \A p \in DOMAIN to_rx', i \in Id : Behind(i, p)' => Behind(i, p + 1)
          /\ \A p \in DOMAIN to_rx', i \in Id :
                Ahead(i, p)' => count'[i] > 0 \/ \E q \in DOMAIN to_rx, k \in Key : q < p + 1 /\ IsAt(q, i, k)
<1>t. to_rx \in Seq(Data \cup {Sync})
  BY DEF TypeOK, WireTypeOK
<1>1. \A i, k : InHand(i, k)' <=> InHand(i, k)
  BY DEF InHand
<1>2. 1 \in DOMAIN to_rx /\ \A p \in DOMAIN to_rx' : p + 1 \in DOMAIN to_rx /\ to_rx'[p] = to_rx[p + 1]
  BY <1>t
<1>3. \A p \in DOMAIN to_rx' : \A i, k : IsAt(p, i, k)' => IsAt(p + 1, i, k)
  BY <1>2 DEF IsAt
<1>4. \A i, k : Copy(i, k)' => Copy(i, k)
  BY <1>1, <1>2, <1>3 DEF Copy
<1>5. \A p, q \in DOMAIN to_rx' : (q > p => q + 1 > p + 1) /\ (q < p => q + 1 < p + 1)
  BY <1>t
<1>6. \A p \in DOMAIN to_rx', i \in Id : Behind(i, p)' => Behind(i, p + 1)
  BY <1>1, <1>2, <1>3, <1>5 DEF Behind
<1>7. \A p \in DOMAIN to_rx', i \in Id :
          Ahead(i, p)' => count'[i] > 0 \/ \E q \in DOMAIN to_rx, k \in Key : q < p + 1 /\ IsAt(q, i, k)
  BY <1>2, <1>3, <1>5 DEF Ahead
<1> QED
  BY <1>1, <1>2, <1>4, <1>6, <1>7

\* The last RingSize dispatches are in the ring.
LEMMA StillInRing ==
    ASSUME TypeOK, FilterInv, NEW p \in DOMAIN log, Len(log) - p < RingSize
    PROVE  SeenRecently(log[p])
<1> DEFINE k == Len(log) + 1 - p
<1>1. log \in Seq(Key) /\ seen_head \in 0..(RingSize - 1) /\ seen_ring \in [0..(RingSize - 1) -> Key]
  BY DEF TypeOK, ReceiverTypeOK
<1>2. k \in 1..RingSize /\ k <= Len(log) /\ Len(log) + 1 - k = p
  BY <1>1
<1>3. seen_ring[Back(seen_head, k)] = log[p]
  BY <1>2 DEF FilterInv, RingIsWindow
<1>4. Back(seen_head, k) \in DOMAIN seen_ring
  BY <1>1, <1>2 DEF Back
<1> QED
  BY <1>3, <1>4 DEF SeenRecently

\* A frame that comes and is not known to the filter was never dispatched.
LEMMA NewIsNew ==
    ASSUME TypeOK, FilterInv, OnceInv, Timely, resets = 0, peer_restarts = 0,
           to_rx # <<>>, Head(to_rx) # Sync, ~SeenRecently(KeyOf(Head(to_rx)))
    PROVE  count[Head(to_rx).id] = 0
<1> DEFINE f == Head(to_rx)
<1>1. to_rx \in Seq(Data \cup {Sync}) /\ count \in [Id -> Nat]
  BY DEF TypeOK, WireTypeOK, ReceiverTypeOK
<1>2. 1 \in DOMAIN to_rx /\ to_rx[1] = f
  BY <1>1
<1>3. f.id \in Id /\ KeyOf(f) \in Key
  BY <1>2, KeyTypes
<1>4. Copy(f.id, KeyOf(f))
  BY <1>2 DEF Copy, IsAt
<1> SUFFICES ASSUME count[f.id] > 0 PROVE FALSE
  BY <1>1, <1>3
<1>5. PICK p \in DOMAIN log : LastAt(p, KeyOf(f))
  BY <1>3, <1>4 DEF OnceInv, Logged
<1>6. Len(log) - p < RingSize
  BY <1>2, <1>5 DEF Timely
<1> QED
  BY <1>5, <1>6, StillInRing DEF LastAt

\* A dispatch puts the key of the frame in the log before any other copy of it comes.
LEMMA OnceDispatch ==
    ASSUME TypeOK, FilterInv, AtMostOnce, Timely, to_rx # <<>>, Dispatch(Head(to_rx))
    PROVE  AtMostOnce'
<1>u. /\ to_rx' = Tail(to_rx) /\ Head(to_rx) # Sync /\ ~SeenRecently(KeyOf(Head(to_rx)))
      /\ UNCHANGED <<win, held, tick, frames, resets, peer_restarts>>
  BY DEF Dispatch, Arrives, sender, bounds
<1>t. to_rx \in Seq(Data \cup {Sync}) /\ count \in [Id -> Nat] /\ log \in Seq(Key)
  BY DEF TypeOK, WireTypeOK, ReceiverTypeOK
<1>m. /\ 1 \in DOMAIN to_rx
      /\ \A p \in DOMAIN to_rx' : p + 1 \in DOMAIN to_rx /\ to_rx'[p] = to_rx[p + 1]
      /\ \A i, k : Copy(i, k)' => Copy(i, k)
      /\ \A p \in DOMAIN to_rx', i \in Id : Behind(i, p)' => Behind(i, p + 1)
      /\ \A p \in DOMAIN to_rx', i \in Id :
            Ahead(i, p)' => count'[i] > 0 \/ \E q \in DOMAIN to_rx, k \in Key : q < p + 1 /\ IsAt(q, i, k)
  BY <1>u, TailMoves
<1>f. PICK f : f = Head(to_rx)
  OBVIOUS
<1>g. to_rx[1] = f /\ f.id \in Id /\ KeyOf(f) \in Key /\ IsAt(1, f.id, KeyOf(f))
  <2>1. to_rx[1] = f
    BY <1>t, <1>f
  <2> QED
    BY <1>f, <1>m, <1>u, <2>1, KeyTypes DEF IsAt
<1>k. Copy(f.id, KeyOf(f))
  BY <1>g, <1>m DEF Copy
<1>c. count' = [count EXCEPT ![f.id] = @ + 1] /\ log' = Append(log, KeyOf(f))
  BY <1>f DEF Dispatch
<1>d. \A i \in Id : count'[i] = IF i = f.id THEN count[i] + 1 ELSE count[i]
  BY <1>c, <1>t
<1>1. CopyInv'
  <2>1. \A i \in Id, k, l \in Key : Copy(i, k)' /\ Copy(i, l)' => k = l
    BY <1>m DEF AtMostOnce, CopyInv
  <2>2. \A i \in Id, k \in Key : Copy(i, k)' => i <= frames'
    BY <1>m, <1>u DEF AtMostOnce, CopyInv
  <2>3. f.id <= frames
    BY <1>g, <1>k DEF AtMostOnce, CopyInv
  <2>4. \A i \in Id : count'[i] > 0 => i <= frames'
    BY <1>u, <1>d, <2>3 DEF AtMostOnce, CopyInv
  <2> QED
    BY <2>1, <2>2, <2>4 DEF CopyInv
<1>2. ASSUME resets = 0, peer_restarts = 0
      PROVE /\ \A i \in Id : count'[i] <= 1
            /\ \A m \in DOMAIN to_rx', i \in Id : to_rx'[m] = Sync => ~(Ahead(i, m)' /\ Behind(i, m)')
            /\ \A i \in Id, k \in Key : count'[i] > 0 /\ Copy(i, k)' => Logged(k)'
  <2>0. /\ \A i \in Id : count[i] <= 1
        /\ \A m \in DOMAIN to_rx, i \in Id : to_rx[m] = Sync => ~(Ahead(i, m) /\ Behind(i, m))
        /\ \A i \in Id, k \in Key : count[i] > 0 /\ Copy(i, k) => Logged(k)
    BY <1>2 DEF AtMostOnce, OnceInv
  <2>1. count[f.id] = 0
    BY <1>2, <1>f, <1>u, NewIsNew DEF AtMostOnce
  <2>2. \A i \in Id : count'[i] <= 1
    BY <1>d, <1>t, <2>0, <2>1
  <2>3. ASSUME NEW m \in DOMAIN to_rx', NEW i \in Id, to_rx'[m] = Sync, Ahead(i, m)', Behind(i, m)' PROVE FALSE
    <3>0. m \in Nat /\ m > 0
      BY <1>t, <1>u, <2>3
    <3>1. m + 1 \in DOMAIN to_rx /\ to_rx[m + 1] = Sync /\ Behind(i, m + 1)
      BY <1>m, <2>3
    <3>2. CASE i = f.id
      <4>1. 1 < m + 1
        BY <3>0
      <4>2. Ahead(i, m + 1)
        BY <1>g, <1>m, <3>2, <4>1 DEF Ahead
      <4> QED
        BY <2>0, <3>1, <4>2
    <3>3. CASE i # f.id
      <4>1. count'[i] > 0 => count[i] > 0
        BY <1>d, <3>3
      <4>2. Ahead(i, m + 1)
        BY <1>m, <2>3, <4>1 DEF Ahead
      <4> QED
        BY <2>0, <3>1, <4>2
    <3> QED
      BY <3>2, <3>3
  <2>4. \A k \in Key : Logged(k) => Logged(k)'
    <3> SUFFICES ASSUME NEW k \in Key, Logged(k) PROVE Logged(k)'
      OBVIOUS
    <3>1. PICK n \in Nat : n = Len(log) + 1
      BY <1>t
    <3>2. /\ DOMAIN log' = DOMAIN log \cup {n} /\ log'[n] = KeyOf(f)
          /\ \A p \in DOMAIN log : p < n /\ log'[p] = log[p]
      BY <1>t, <1>c, <1>g, <3>1
    <3>3. CASE k = KeyOf(f)
      <4>1. \A l \in DOMAIN log' : ~(l > n)
        BY <1>t, <3>2
      <4>2. LastAt(n, k)'
        BY <3>2, <3>3, <4>1 DEF LastAt
      <4> QED
        BY <3>2, <4>2 DEF Logged
    <3>4. CASE k # KeyOf(f)
      <4>1. PICK p \in DOMAIN log : LastAt(p, k)
        BY DEF Logged
      <4>2. LastAt(p, k)'
        BY <3>2, <3>4, <4>1 DEF LastAt
      <4> QED
        BY <3>2, <4>2 DEF Logged
    <3> QED
      BY <3>3, <3>4
  <2>5. Logged(KeyOf(f))'
    <3>1. PICK n \in Nat : n = Len(log) + 1
      BY <1>t
    <3>2. n \in DOMAIN log' /\ log'[n] = KeyOf(f) /\ \A l \in DOMAIN log' : ~(l > n)
      BY <1>t, <1>c, <1>g, <3>1
    <3> QED
      BY <3>2 DEF Logged, LastAt
  <2>6. ASSUME NEW i \in Id, NEW k \in Key, count'[i] > 0, Copy(i, k)' PROVE Logged(k)'
    <3>1. Copy(i, k)
      BY <1>m, <2>6
    <3>2. CASE i = f.id
      <4>1. k = KeyOf(f)
        BY <1>g, <1>k, <3>1, <3>2 DEF AtMostOnce, CopyInv
      <4> QED
        BY <2>5, <4>1
    <3>3. CASE i # f.id
      BY <1>d, <2>0, <2>4, <2>6, <3>1, <3>3
    <3> QED
      BY <3>2, <3>3
  <2> QED
    BY <2>2, <2>3, <2>6
<1> QED
  BY <1>u, <1>1, <1>2 DEF AtMostOnce, OnceInv

\* A duplicate leaves the wire; nothing else changes.
LEMMA OnceDuplicate ==
    ASSUME TypeOK, AtMostOnce, to_rx # <<>>, Duplicate(Head(to_rx))
    PROVE  AtMostOnce'
<1>u. to_rx' = Tail(to_rx) /\ UNCHANGED <<win, held, tick, count, log, frames, resets, peer_restarts>>
  BY DEF Duplicate, Arrives, sender, bounds
<1>m. /\ 1 \in DOMAIN to_rx
      /\ \A p \in DOMAIN to_rx' : p + 1 \in DOMAIN to_rx /\ to_rx'[p] = to_rx[p + 1]
      /\ \A i, k : Copy(i, k)' => Copy(i, k)
      /\ \A p \in DOMAIN to_rx', i \in Id : Behind(i, p)' => Behind(i, p + 1)
      /\ \A p \in DOMAIN to_rx', i \in Id :
            Ahead(i, p)' => count'[i] > 0 \/ \E q \in DOMAIN to_rx, k \in Key : q < p + 1 /\ IsAt(q, i, k)
  BY <1>u, TailMoves
<1>1. CopyInv'
  BY <1>m, <1>u DEF AtMostOnce, CopyInv
<1>2. \A p \in DOMAIN to_rx', i \in Id : Ahead(i, p)' => Ahead(i, p + 1)
  BY <1>m, <1>u DEF Ahead
<1>3. \A k \in Key : Logged(k)' <=> Logged(k)
  BY <1>u DEF Logged, LastAt
<1> QED
  BY <1>u, <1>m, <1>1, <1>2, <1>3 DEF AtMostOnce, OnceInv

\* When a SYNC clears the filter, nothing dispatched is still under way.
LEMMA OnceSync ==
    ASSUME TypeOK, AtMostOnce, ReceiveSync
    PROVE  AtMostOnce'
<1>u. /\ to_rx # <<>> /\ Head(to_rx) = Sync /\ to_rx' = Tail(to_rx)
      /\ UNCHANGED <<win, held, tick, count, frames, resets, peer_restarts>>
  BY DEF ReceiveSync, sender, bounds
<1>t. to_rx \in Seq(Data \cup {Sync})
  BY DEF TypeOK, WireTypeOK
<1>m. /\ 1 \in DOMAIN to_rx
      /\ \A i, k : InHand(i, k)' <=> InHand(i, k)
      /\ \A p \in DOMAIN to_rx' : p + 1 \in DOMAIN to_rx /\ to_rx'[p] = to_rx[p + 1]
      /\ \A i, k : Copy(i, k)' => Copy(i, k)
      /\ \A p \in DOMAIN to_rx', i \in Id : Behind(i, p)' => Behind(i, p + 1)
      /\ \A p \in DOMAIN to_rx', i \in Id :
            Ahead(i, p)' => count'[i] > 0 \/ \E q \in DOMAIN to_rx, k \in Key : q < p + 1 /\ IsAt(q, i, k)
  BY <1>u, TailMoves
<1>1. CopyInv'
  BY <1>m, <1>u DEF AtMostOnce, CopyInv
<1>2. \A p \in DOMAIN to_rx', i \in Id : Ahead(i, p)' => Ahead(i, p + 1)
  BY <1>m, <1>u DEF Ahead
<1>3. to_rx[1] = Sync
  BY <1>t, <1>u
<1>4. ASSUME NEW i \in Id, NEW k \in Key, Copy(i, k)' PROVE Behind(i, 1)
  <2>1. CASE InHand(i, k)'
    BY <1>m, <2>1 DEF Behind
  <2>2. ASSUME NEW p \in DOMAIN to_rx', IsAt(p, i, k)' PROVE Behind(i, 1)
    <3>1. p + 1 \in DOMAIN to_rx /\ p + 1 > 1 /\ IsAt(p + 1, i, k)
      <4>1. p + 1 > 1
        BY <1>t, <1>u, <2>2
      <4> QED
        BY <1>m, <2>2, <4>1 DEF IsAt
    <3> QED
      BY <3>1 DEF Behind
  <2> QED
    BY <1>4, <2>1, <2>2 DEF Copy
<1>5. ASSUME resets = 0, peer_restarts = 0, NEW i \in Id, NEW k \in Key, count[i] > 0, Copy(i, k)' PROVE FALSE
  <2>1. Ahead(i, 1) /\ Behind(i, 1)
    BY <1>4, <1>5 DEF Ahead
  <2> QED
    BY <1>3, <1>5, <1>m, <2>1 DEF AtMostOnce, OnceInv
<1> QED
  BY <1>u, <1>m, <1>1, <1>2, <1>5 DEF AtMostOnce, OnceInv

\* A sender that restarts holds nothing any more; its SYNC goes behind its last frames.
LEMMA OnceRestart ==
    ASSUME TypeOK, AtMostOnce, SenderRestart
    PROVE  AtMostOnce'
<1>u. /\ to_rx' \in Wire(to_rx, Sync) /\ UNCHANGED <<count, log, frames, resets, peer_restarts>>
      /\ \A i, k : ~InHand(i, k)'
  BY DEF SenderRestart, receiver, InHand, FreeAllSlots, FreeSlot, Idle
<1>t. to_rx \in Seq(Data \cup {Sync}) /\ Sync \in Data \cup {Sync}
  BY DEF TypeOK, WireTypeOK
<1>1. CASE to_rx' = to_rx
  BY <1>u, <1>1, OnceShrink
<1>2. CASE to_rx' = Append(to_rx, Sync)
  <2>n. PICK n \in Nat : n = Len(to_rx) + 1
    BY <1>t
  <2>1. /\ DOMAIN to_rx' = DOMAIN to_rx \cup {n} /\ to_rx'[n] = Sync
        /\ \A p \in DOMAIN to_rx : to_rx'[p] = to_rx[p] /\ p < n
    BY <1>t, <1>2, <2>n
  <2>2. \A p \in DOMAIN to_rx' : \A i, k : IsAt(p, i, k)' => p \in DOMAIN to_rx /\ IsAt(p, i, k)
    BY <2>1 DEF IsAt
  <2>3. \A i, k : Copy(i, k)' => Copy(i, k)
    BY <1>u, <2>2 DEF Copy
  <2>4. CopyInv'
    BY <1>u, <2>3 DEF AtMostOnce, CopyInv
  <2>5. \A m \in DOMAIN to_rx, i \in Id : (Ahead(i, m)' => Ahead(i, m)) /\ (Behind(i, m)' => Behind(i, m))
    BY <1>u, <2>2 DEF Ahead, Behind
  <2>6. \A i \in Id : ~Behind(i, n)'
    <3>1. \A p \in DOMAIN to_rx : ~(p > n)
      BY <1>t, <2>n
    <3> QED
      BY <1>u, <2>2, <3>1 DEF Behind
  <2>7. \A k \in Key : Logged(k)' <=> Logged(k)
    BY <1>u DEF Logged, LastAt
  <2> QED
    BY <1>u, <2>1, <2>3, <2>4, <2>5, <2>6, <2>7 DEF AtMostOnce, OnceInv
<1> QED
  BY <1>u, <1>1, <1>2 DEF Wire

LEMMA OnceStep == TypeOK /\ FilterInv /\ AtMostOnce /\ Timely /\ [Next]_vars => AtMostOnce'
<1> SUFFICES ASSUME TypeOK, FilterInv, AtMostOnce, Timely, [Next]_vars PROVE AtMostOnce'
  OBVIOUS
<1>0. SenderTypeOK /\ ~FreeSlot.active
  BY DEF TypeOK, FreeSlot
<1>1. ASSUME NEW t \in Task, NextSeq(t) \/ SendRefused(t) PROVE AtMostOnce'
  BY <1>1, OnceShrink DEF NextSeq, SendRefused, InHand, receiver, bounds
<1>2. CASE OtherTraffic \/ SendAck
  BY <1>2, OnceShrink DEF OtherTraffic, SendAck, InHand, receiver, bounds, sender
<1>3. ASSUME NEW t \in Task, Transmit(t) PROVE AtMostOnce'
  <2>1. PICK h : h = held[t]
    OBVIOUS
  <2>2. h \in Held /\ held[t] # NoFrame /\ OnWire(h) \in Data
    BY <1>0, <1>3, <2>1, OnWireType DEF Transmit, SenderTypeOK
  <2>3. KeyOf(h) \in Key /\ InHand(h.id, KeyOf(h))
    BY <2>1, <2>2, KeyTypes DEF InHand
  <2>4. \A i, k : InHand(i, k)' => InHand(i, k)
    BY <1>0, <1>3 DEF Transmit, InHand, SenderTypeOK
  <2> QED
    BY <1>3, <2>1, <2>2, <2>3, <2>4, OnceWire DEF Transmit, receiver, bounds
<1>4. CASE TickSend
  <2>1. PICK h : h = tick.frame
    OBVIOUS
  <2>2. h \in Held /\ tick.frame # NoFrame /\ OnWire(h) \in Data
    BY <1>0, <1>4, <2>1, OnWireType DEF TickSend, SenderTypeOK
  <2>3. KeyOf(h) \in Key /\ InHand(h.id, KeyOf(h))
    BY <2>1, <2>2, KeyTypes DEF InHand
  <2>4. \A i, k : InHand(i, k)' => InHand(i, k)
    BY <1>0, <1>4 DEF TickSend, InHand, SenderTypeOK
  <2> QED
    BY <1>4, <2>1, <2>2, <2>3, <2>4, OnceWire DEF TickSend, receiver, bounds
<1>5. ASSUME NEW s \in Slot, TickRetry(s) PROVE AtMostOnce'
  <2>1. /\ win'[s].active = win[s].active /\ KeyOf(win'[s]) = KeyOf(win[s]) /\ win'[s].id = win[s].id
        /\ \A q \in Slot : q # s => win'[q] = win[q]
    <3>1. win[s] \in BusySlot
      BY <1>0, <1>5, BusyType DEF TickRetry
    <3> QED
      BY <1>0, <1>5, <3>1 DEF TickRetry, CountRetry, BusySlot, SenderTypeOK, KeyOf
  <2>2. tick'.frame.id = win[s].id /\ KeyOf(tick'.frame) = KeyOf(win[s])
    BY <1>0, <1>5 DEF TickRetry, SenderTypeOK, RetransmitFrame, KeyOf
  <2>3. \A i, k : InHand(i, k)' => InHand(i, k)
    BY <1>5, <2>1, <2>2 DEF TickRetry, InHand
  <2> QED
    BY <1>5, <2>3, OnceShrink DEF TickRetry, receiver, bounds
<1>6. ASSUME NEW s \in Slot, TickSkip(s) \/ TickGiveUp(s) PROVE AtMostOnce'
  <2>1. tick'.frame = tick.frame
    BY <1>0, <1>6 DEF TickSkip, TickGiveUp, SenderTypeOK
  <2>2. \A i, k : InHand(i, k)' => InHand(i, k)
    BY <1>0, <1>6, <2>1 DEF TickSkip, TickGiveUp, InHand, SenderTypeOK
  <2> QED
    BY <1>6, <2>2, OnceShrink DEF TickSkip, TickGiveUp, receiver, bounds
<1>7. CASE TickBegin \/ TickEnd
  <2>1. tick'.frame = NoFrame
    BY <1>7 DEF TickBegin, TickEnd, Idle
  <2>2. \A i, k : InHand(i, k)' => InHand(i, k)
    BY <1>0, <1>7, <2>1 DEF TickBegin, TickEnd, FreeAllSlots, InHand
  <2> QED
    BY <1>7, <2>2, OnceShrink DEF TickBegin, TickEnd, receiver, bounds
<1>8. CASE ReceiveAck
  <2>1. \A i, k : InHand(i, k)' => InHand(i, k)
    BY <1>0, <1>8 DEF ReceiveAck, InHand, SenderTypeOK
  <2> QED
    BY <1>8, <2>1, OnceShrink DEF ReceiveAck, receiver, bounds
<1>9. CASE Resync \/ ReceiverRestart
  <2>1. CopyInv /\ resets \in Nat /\ peer_restarts \in Nat
    BY DEF AtMostOnce, TypeOK, HistoryTypeOK
  <2>2. OnceInv'
    BY <1>9, <2>1 DEF OnceInv, Resync, ReceiverRestart
  <2>3. \A i \in Id, k \in Key : Copy(i, k)' => Copy(i, k)
    <3>1. \A i, k : InHand(i, k)' => InHand(i, k)
      BY <1>0, <1>9 DEF Resync, ReceiverRestart, FreeAllSlots, InHand, sender
    <3>2. \A p \in DOMAIN to_rx' : to_rx'[p] = Sync \/ \E m \in DOMAIN to_rx : to_rx'[p] = to_rx[m]
      <4>1. to_rx \in Seq(Data \cup {Sync}) /\ Sync \in Data \cup {Sync}
        BY DEF TypeOK, WireTypeOK
      <4>2. CASE Resync
        BY <4>1, <4>2, WireEntries DEF Resync
      <4>3. CASE ReceiverRestart
        BY <4>3 DEF ReceiverRestart
      <4> QED
        BY <1>9, <4>2, <4>3
    <3> QED
      BY <3>1, <3>2 DEF Copy, IsAt
  <2>4. CopyInv'
    BY <1>9, <2>1, <2>3 DEF CopyInv, Resync, ReceiverRestart, receiver
  <2> QED
    BY <2>2, <2>4 DEF AtMostOnce
<1>10. CASE UNCHANGED vars
  BY <1>10, OnceShrink DEF vars, sender, receiver, bounds, InHand
<1> QED
  BY <1>1, <1>2, <1>3, <1>4, <1>5, <1>6, <1>7, <1>8, <1>9, <1>10,
     OnceSend, OnceDispatch, OnceDuplicate, OnceSync, OnceRestart
  DEF Next, TickTask, TickDue, ReceiveData

LEMMA OnceInit == Init => AtMostOnce
<1> SUFFICES ASSUME Init PROVE AtMostOnce
  OBVIOUS
<1>1. \A i, k : ~Copy(i, k)
  BY DEF Init, Copy, InHand, FreeSlot, Idle
<1>2. \A i \in Id : count[i] = 0
  BY DEF Init
<1>3. DOMAIN to_rx = {}
  BY DEF Init
<1> QED
  BY <1>1, <1>2, <1>3 DEF AtMostOnce, CopyInv, OnceInv

\* No handler runs twice for a frame as long as late copies are timely: over any lossy
\* wire that keeps its order, with nested receives, any number of laps of the counter
\* and any number of restarts of the sender.
THEOREM TimelyMeansOnce == Spec /\ []Timely => []DispatchedOnce
<1>1. AtMostOnce => DispatchedOnce
  BY DEF AtMostOnce, OnceInv, DispatchedOnce
<1>2. TypeOK /\ FilterInv /\ [Next]_vars => FilterInv'
  BY FilterStep
<1>3. Init => FilterInv
  BY DEF Init, FilterInv, RingIsWindow, DuplicatesFarApart
<1>4. Spec => []TypeOK
  BY TypeCorrect
<1> QED
  BY <1>1, <1>2, <1>3, <1>4, OnceStep, OnceInit, PTL DEF Spec

\* Without any word about time: while no more than RingSize frames were accepted, the
\* ring has forgotten none of them.
Dispatched == {i \in Id : count[i] > 0}

FirstFrames == frames <= RingSize /\ resets = 0 /\ peer_restarts = 0

FewLogged == FirstFrames => AtMostOnce /\ Len(log) <= Cardinality(Dispatched)

LEMMA DispatchedFew ==
    ASSUME TypeOK, CopyInv
    PROVE  IsFiniteSet(Dispatched) /\ Cardinality(Dispatched) \in Nat /\ Cardinality(Dispatched) <= frames
<1>1. frames \in Nat /\ Dispatched \subseteq 1..frames
  <2>1. frames \in Nat /\ Id \subseteq Nat /\ \A i \in Id : i >= 1
    BY DEF TypeOK, HistoryTypeOK, Id
  <2>2. ASSUME NEW i \in Dispatched PROVE i \in 1..frames
    <3>1. i \in Id /\ i <= frames
      BY DEF Dispatched, CopyInv
    <3> QED
      BY <2>1, <3>1
  <2> QED
    BY <2>1, <2>2
<1>2. IsFiniteSet(1..frames) /\ Cardinality(1..frames) = frames
  BY <1>1, FS_Interval
<1> QED
  BY <1>1, <1>2, FS_Subset, FS_CardinalityType

LEMMA FirstFramesTimely == TypeOK /\ FewLogged /\ FirstFrames => Timely
<1> SUFFICES ASSUME TypeOK, FewLogged, FirstFrames, NEW p \in DOMAIN log PROVE Len(log) - p < RingSize
  BY DEF Timely
<1>1. log \in Seq(Key) /\ frames \in Nat /\ p \in 1..Len(log)
  BY DEF TypeOK, ReceiverTypeOK, HistoryTypeOK
<1>2. Len(log) <= frames
  BY <1>1, DispatchedFew DEF FewLogged, AtMostOnce
<1> QED
  BY <1>1, <1>2 DEF FirstFrames

LEMMA FirstFramesStep == TypeOK /\ FilterInv /\ FewLogged /\ [Next]_vars => FewLogged'
<1> SUFFICES ASSUME TypeOK, FilterInv, FewLogged, [Next]_vars, FirstFrames'
             PROVE  AtMostOnce' /\ Len(log') <= Cardinality(Dispatched')
  BY DEF FewLogged
<1>0. /\ frames \in Nat /\ frames' \in Nat /\ resets \in Nat /\ resets' \in Nat
      /\ peer_restarts \in Nat /\ peer_restarts' \in Nat
      /\ log \in Seq(Key) /\ count \in [Id -> Nat] /\ to_rx \in Seq(Data \cup {Sync})
  BY TypeStep DEF TypeOK, HistoryTypeOK, ReceiverTypeOK, WireTypeOK
<1>1. frames <= frames' /\ resets <= resets' /\ peer_restarts <= peer_restarts'
  <2>1. ASSUME UNCHANGED <<frames, resets, peer_restarts>>
        PROVE frames <= frames' /\ resets <= resets' /\ peer_restarts <= peer_restarts'
    BY <1>0, <2>1
  <2>2. ASSUME NEW t \in Task, NextSeq(t) \/ SendRefused(t) \/ Transmit(t)
        PROVE UNCHANGED <<frames, resets, peer_restarts>>
    BY <2>2 DEF NextSeq, SendRefused, Transmit, bounds
  <2>3. ASSUME NEW t \in Task, Send(t) PROVE frames' = frames + 1 /\ UNCHANGED <<resets, peer_restarts>>
    BY <2>3 DEF Send
  <2>4. TickTask \/ OtherTraffic \/ ReceiveAck \/ ReceiveData \/ ReceiveSync \/ SendAck \/ SenderRestart
        \/ UNCHANGED vars => UNCHANGED <<frames, resets, peer_restarts>>
    BY DEF TickTask, TickBegin, TickSend, TickEnd, TickSkip, TickDue, TickRetry, TickGiveUp, OtherTraffic,
           ReceiveAck, ReceiveData, Dispatch, Duplicate, ReceiveSync, SendAck, SenderRestart, vars, bounds
  <2>5. Resync => resets' = resets + 1 /\ UNCHANGED <<frames, peer_restarts>>
    BY DEF Resync
  <2>6. ReceiverRestart => peer_restarts' = peer_restarts + 1 /\ UNCHANGED <<frames, resets>>
    BY DEF ReceiverRestart
  <2> QED
    BY <1>0, <2>1, <2>2, <2>3, <2>4, <2>5, <2>6 DEF Next
<1>2. FirstFrames
  BY <1>0, <1>1 DEF FirstFrames
<1>3. Timely /\ AtMostOnce /\ Len(log) <= Cardinality(Dispatched)
  BY <1>2, FirstFramesTimely DEF FewLogged
<1>4. AtMostOnce'
  BY <1>3, OnceStep
<1>5. IsFiniteSet(Dispatched) /\ Cardinality(Dispatched) \in Nat
  BY <1>3, DispatchedFew DEF AtMostOnce
<1>6. ASSUME log' = log \/ log' = <<>>, count' = count PROVE Len(log') <= Cardinality(Dispatched')
  BY <1>3, <1>5, <1>6 DEF Dispatched
<1>7. ASSUME to_rx # <<>>, Dispatch(Head(to_rx)) PROVE Len(log') <= Cardinality(Dispatched')
  <2>f. PICK f : f = Head(to_rx)
    OBVIOUS
  <2>1. f # Sync /\ ~SeenRecently(KeyOf(f)) /\ log' = Append(log, KeyOf(f))
        /\ count' = [count EXCEPT ![f.id] = @ + 1]
    BY <1>7, <2>f DEF Dispatch, Arrives
  <2>2. f.id \in Id /\ KeyOf(f) \in Key
    <3>1. 1 \in DOMAIN to_rx /\ to_rx[1] = f
      BY <1>0, <1>7, <2>f
    <3> QED
      BY <2>1, <3>1, KeyTypes
  <2>3. count[f.id] = 0
    BY <1>2, <1>3, <1>7, <2>1, <2>f, NewIsNew DEF AtMostOnce, FirstFrames
  <2>4. Dispatched' = Dispatched \cup {f.id} /\ f.id \notin Dispatched
    BY <1>0, <2>1, <2>2, <2>3 DEF Dispatched
  <2>5. Cardinality(Dispatched') = Cardinality(Dispatched) + 1
    BY <1>5, <2>4, FS_AddElement
  <2>6. Len(log') = Len(log) + 1
    BY <1>0, <2>1, <2>2
  <2> QED
    BY <1>0, <1>3, <1>5, <2>5, <2>6
<1>8. \/ to_rx # <<>> /\ Dispatch(Head(to_rx))
      \/ (log' = log \/ log' = <<>>) /\ count' = count
  <2>1. ASSUME NEW t \in Task, NextSeq(t) \/ SendRefused(t) \/ Transmit(t) \/ Send(t)
        PROVE log' = log /\ count' = count
    BY <2>1 DEF NextSeq, SendRefused, Transmit, Send, receiver
  <2>2. TickTask \/ OtherTraffic \/ ReceiveAck \/ Duplicate(Head(to_rx)) \/ SendAck \/ SenderRestart \/ Resync
        \/ UNCHANGED vars => log' = log /\ count' = count
    BY DEF TickTask, TickBegin, TickSend, TickEnd, TickSkip, TickDue, TickRetry, TickGiveUp, OtherTraffic,
           ReceiveAck, Duplicate, SendAck, SenderRestart, Resync, vars, receiver
  <2>3. ReceiveSync \/ ReceiverRestart => log' = <<>> /\ count' = count
    BY DEF ReceiveSync, ReceiverRestart, ResetRxDedup
  <2> QED
    BY <2>1, <2>2, <2>3 DEF Next, ReceiveData
<1> QED
  BY <1>4, <1>6, <1>7, <1>8

LEMMA FewLoggedAlways == Spec => []FewLogged
<1>1. Init => FewLogged
  <2>1. ASSUME Init PROVE Len(log) <= Cardinality(Dispatched)
    <3>1. Dispatched = {}
      BY <2>1 DEF Init, Dispatched
    <3> QED
      BY <2>1, <3>1, FS_EmptySet DEF Init
  <2> QED
    BY <2>1, OnceInit DEF FewLogged
<1>2. Init => FilterInv
  BY DEF Init, FilterInv, RingIsWindow, DuplicatesFarApart
<1> QED
  BY <1>1, <1>2, FilterStep, FirstFramesStep, TypeCorrect, PTL DEF Spec

\* No handler runs twice for one of the first RingSize frames, however late their copies
\* come, whatever the wire loses and however often the sender restarts.
THEOREM FirstFramesOnce == Spec => [](frames <= RingSize => DispatchedOnce)
<1>1. FewLogged => (frames <= RingSize => DispatchedOnce)
  BY DEF FewLogged, FirstFrames, AtMostOnce, OnceInv, DispatchedOnce
<1> QED
  BY <1>1, FewLoggedAlways, PTL

-----------------------------------------------------------------------------
(***************************************************************************)
(* The session implements the link.  Each step of the detailed model is a  *)
(* step of HapLink or changes nothing it shows.                            *)
(***************************************************************************)
\* Slots are freed, or keep their frames; what is freed was answered or given up.
LEMMA WindowShrink ==
    ASSUME WindowInv, frames' = frames,
           acked' \cup abandoned' \subseteq 1..frames,
           \A s \in Slot : win'[s].active => /\ win[s].active /\ win'[s].id = win[s].id
                                             /\ win[s].id \notin acked' \cup abandoned'
    PROVE  WindowInv'
<1>1. \A s \in Slot : win'[s].active => win'[s].id \in (1..frames') \ (acked' \cup abandoned')
  BY DEF WindowInv
<1>2. \A s, q \in Slot : win'[s].active /\ win'[q].active /\ win'[s].id = win'[q].id => s = q
  BY DEF WindowInv
<1> QED
  BY <1>1, <1>2 DEF WindowInv

LEMMA WindowFreeAll ==
    ASSUME WindowInv, FreeAllSlots, UNCHANGED <<frames, acked>>
    PROVE  WindowInv'
<1>1. ActiveIds \subseteq 1..frames
  BY DEF ActiveIds, WindowInv
<1>2. \A s \in Slot : ~win'[s].active
  BY DEF FreeAllSlots, FreeSlot
<1>3. acked' \cup abandoned' \subseteq 1..frames'
  BY <1>1 DEF WindowInv, FreeAllSlots
<1> QED
  BY <1>2, <1>3 DEF WindowInv

\* One slot is freed, its frame answered or given up.
LEMMA WindowFree ==
    ASSUME TypeOK, WindowInv, NEW s \in Slot, win[s].active, win' = [win EXCEPT ![s] = FreeSlot],
           acked' \cup abandoned' = acked \cup abandoned \cup {win[s].id}, frames' = frames
    PROVE  WindowInv'
<1>1. ~FreeSlot.active /\ \A q \in Slot : win'[q] = IF q = s THEN FreeSlot ELSE win[q]
  BY DEF FreeSlot, TypeOK, SenderTypeOK
<1>2. win[s].id \in 1..frames
  BY DEF WindowInv
<1>3. acked' \cup abandoned' \subseteq 1..frames
  BY <1>2 DEF WindowInv
<1>4. \A q \in Slot : win'[q].active => /\ q # s /\ win[q].active /\ win'[q].id = win[q].id
                                        /\ win[q].id \notin acked' \cup abandoned'
  BY <1>1 DEF WindowInv
<1> QED
  BY <1>3, <1>4, WindowShrink

LEMMA WindowStep == TypeOK /\ WindowInv /\ [Next]_vars => WindowInv'
<1> SUFFICES ASSUME TypeOK, WindowInv, [Next]_vars PROVE WindowInv'
  OBVIOUS
<1>0. SenderTypeOK /\ frames \in 0..MaxFrames
  BY DEF TypeOK, HistoryTypeOK
<1>1. ASSUME UNCHANGED <<win, frames, acked, abandoned>> PROVE WindowInv'
  BY <1>1 DEF WindowInv
<1>2. ASSUME NEW t \in Task, NextSeq(t) \/ SendRefused(t) \/ Transmit(t) PROVE WindowInv'
  BY <1>1, <1>2 DEF NextSeq, SendRefused, Transmit, bounds
<1>3. ASSUME NEW t \in Task, Send(t) PROVE WindowInv'
  <2>1. PICK s \in Slot, typ \in Type :
           win' = [win EXCEPT ![s] = [active |-> TRUE, id |-> frames + 1, seq |-> drawn[t],
                                      typ |-> typ, retries |-> 0]]
    BY <1>3 DEF Send
  <2>2. UNCHANGED <<acked, abandoned>> /\ frames' = frames + 1 /\ frames \in Nat
    BY <1>0, <1>3 DEF Send
  <2>3. win'[s].id = frames + 1 /\ \A q \in Slot : q # s => win'[q] = win[q]
    BY <1>0, <2>1 DEF SenderTypeOK
  <2>4. 1..frames \subseteq 1..frames' /\ frames + 1 \in 1..frames' /\ frames + 1 \notin 1..frames
    BY <2>2
  <2>5. frames + 1 \notin acked \cup abandoned /\ acked \cup abandoned \subseteq 1..frames'
    BY <2>4 DEF WindowInv
  <2>6. \A q \in Slot : win'[q].active => win'[q].id \in (1..frames') \ (acked' \cup abandoned')
    BY <2>2, <2>3, <2>4, <2>5 DEF WindowInv
  <2>7. \A q \in Slot : q # s /\ win'[q].active => win'[q].id \in 1..frames
    BY <2>3 DEF WindowInv
  <2>8. \A p, q \in Slot : win'[p].active /\ win'[q].active /\ win'[p].id = win'[q].id => p = q
    BY <2>3, <2>4, <2>7 DEF WindowInv
  <2> QED
    BY <2>2, <2>5, <2>6, <2>8 DEF WindowInv
<1>4. ASSUME NEW s \in Slot, TickRetry(s) PROVE WindowInv'
  <2>1. win[s] \in BusySlot
    BY <1>0, <1>4, BusyType DEF TickRetry
  <2>2. win'[s].active = win[s].active /\ win'[s].id = win[s].id /\ \A q \in Slot : q # s => win'[q] = win[q]
    BY <1>0, <1>4, <2>1 DEF TickRetry, CountRetry, BusySlot, SenderTypeOK
  <2>3. UNCHANGED <<frames, acked, abandoned>>
    BY <1>4 DEF TickRetry, bounds
  <2> QED
    BY <2>2, <2>3 DEF WindowInv
<1>5. ASSUME NEW s \in Slot, TickGiveUp(s) PROVE WindowInv'
  BY <1>5, WindowFree DEF TickGiveUp, bounds
<1>6. ASSUME NEW s \in Slot, TickSkip(s) PROVE WindowInv'
  BY <1>1, <1>6 DEF TickSkip, bounds
<1>7. CASE TickBegin \/ TickSend \/ OtherTraffic \/ ReceiveData \/ ReceiveSync \/ SendAck \/ ReceiverRestart
           \/ UNCHANGED vars
  BY <1>1, <1>7 DEF TickBegin, TickSend, OtherTraffic, ReceiveData, Dispatch, Duplicate, ReceiveSync, SendAck,
       ReceiverRestart, vars, sender, bounds
<1>8. CASE TickEnd \/ Resync \/ SenderRestart
  BY <1>1, <1>8, WindowFreeAll DEF TickEnd, Resync, SenderRestart, bounds
<1>9. CASE ReceiveAck
  <2>1. CASE UNCHANGED <<win, acked>>
    BY <1>1, <1>9, <2>1 DEF ReceiveAck, bounds
  <2>2. ASSUME NEW s \in AckedSlots(Head(to_tx)), win' = [win EXCEPT ![s] = FreeSlot],
               acked' = acked \cup {win[s].id}
        PROVE  WindowInv'
    BY <1>9, <2>2, WindowFree DEF ReceiveAck, AckedSlots, bounds
  <2> QED
    BY <1>9, <2>1, <2>2 DEF ReceiveAck
<1> QED
  BY <1>2, <1>3, <1>4, <1>5, <1>6, <1>7, <1>8, <1>9 DEF Next, TickTask, TickDue

\* The hypothesis of the refinement: one session of either chip, no link announced
\* anew, and the first lap of the counter.
Quiet == restarts = 0 /\ resets = 0 /\ peer_restarts = 0 /\ draws <= SeqMax

LinkInv == TypeOK /\ FilterInv /\ NumbersInv /\ AtMostOnce /\ WindowInv

LEMMA LinkStep ==
    ASSUME LinkInv, Timely, Quiet, Quiet', [Next]_vars
    PROVE  [Link!Next]_(Link!vars)
<1> USE DEF Link!vars
<1>0. /\ TypeOK /\ SenderTypeOK /\ frames \in 0..MaxFrames /\ frames \in Nat
      /\ count \in [Id -> Nat] /\ to_rx \in Seq(Data \cup {Sync}) /\ to_tx \in Seq(1..SeqMax)
      /\ WindowInv /\ AtMostOnce /\ OnceInv /\ CopyInv /\ FilterInv /\ NumbersInv /\ FirstLap
  BY DEF LinkInv, TypeOK, HistoryTypeOK, ReceiverTypeOK, WireTypeOK, AtMostOnce, Quiet, FirstLap
<1>1. ASSUME UNCHANGED <<frames, count, acked, abandoned>> PROVE UNCHANGED Link!vars
  BY <1>1
<1>2. ASSUME NEW t \in Task, NextSeq(t) \/ SendRefused(t) \/ Transmit(t) PROVE UNCHANGED Link!vars
  BY <1>2 DEF NextSeq, SendRefused, Transmit, bounds, receiver
<1>3. ASSUME NEW t \in Task, Send(t) PROVE Link!Next
  <2>1. frames' = frames + 1 /\ frames + 1 \in Id /\ UNCHANGED <<count, acked, abandoned>>
    BY <1>0, <1>3 DEF Send, receiver, Id
  <2>2. frames + 1 \notin 1..frames /\ 1..frames' = (1..frames) \cup {frames + 1}
    BY <1>0, <2>1
  <2>3. Link!Accept(frames + 1)
    BY <2>1, <2>2 DEF Link!Accept
  <2> QED
    BY <2>1, <2>3 DEF Link!Next
<1>4. ASSUME NEW s \in Slot, TickGiveUp(s) PROVE Link!Next
  <2>1. abandoned' = abandoned \cup {win[s].id} /\ UNCHANGED <<frames, count, acked>> /\ win[s].active
    BY <1>4 DEF TickGiveUp, bounds, receiver
  <2>2. {win[s].id} \subseteq Link!InFlight
    BY <1>0, <2>1 DEF WindowInv, Link!InFlight
  <2>3. Link!Drop({win[s].id})
    BY <2>1, <2>2 DEF Link!Drop
  <2> QED
    BY <2>2, <2>3 DEF Link!Next
<1>5. CASE TickEnd
  <2>1. UNCHANGED <<frames, count, acked>>
    BY <1>5 DEF TickEnd, bounds, receiver
  <2>2. CASE abandoned' = abandoned
    BY <2>1, <2>2
  <2>3. CASE abandoned' = abandoned \cup ActiveIds
    <3>1. ActiveIds \subseteq Link!InFlight
      BY <1>0 DEF WindowInv, Link!InFlight, ActiveIds
    <3>2. Link!Drop(ActiveIds)
      BY <2>1, <2>3, <3>1 DEF Link!Drop
    <3> QED
      BY <3>1, <3>2 DEF Link!Next
  <2> QED
    BY <1>5, <2>2, <2>3 DEF TickEnd, FreeAllSlots
<1>6. CASE ReceiveAck
  <2>1. UNCHANGED <<frames, count, abandoned>> /\ to_tx # <<>>
    BY <1>6 DEF ReceiveAck, bounds, receiver
  <2>2. ASSUME NEW s \in AckedSlots(Head(to_tx)), acked' = acked \cup {win[s].id} PROVE Link!Next
    <3>1. s \in Slot /\ win[s].active /\ win[s].seq = Head(to_tx) /\ Head(to_tx) \in 1..SeqMax
      BY <1>0, <2>1 DEF AckedSlots
    <3>2. win[s].id \in Link!InFlight /\ win[s].id \in Id
      BY <1>0, <3>1, KeyTypes DEF WindowInv, Link!InFlight
    <3>3. Answered(Head(to_tx)) /\ Carries(Head(to_tx), win[s].id)
      <4>1. 1 \in DOMAIN to_tx /\ to_tx[1] = Head(to_tx)
        BY <1>0, <2>1
      <4> QED
        BY <3>1, <4>1 DEF Answered, Carries
    <3>4. count[win[s].id] > 0
      BY <1>0, <3>1, <3>2, <3>3 DEF NumbersInv, AnsweredWasDispatched
    <3>5. count[win[s].id] <= 1
      BY <1>0, <3>2 DEF OnceInv, Quiet
    <3>6. count[win[s].id] = 1
      BY <1>0, <3>2, <3>4, <3>5
    <3>7. Link!Confirm(win[s].id)
      BY <2>1, <2>2, <3>2, <3>6 DEF Link!Confirm
    <3> QED
      BY <3>2, <3>7 DEF Link!Next
  <2> QED
    BY <1>6, <2>1, <2>2 DEF ReceiveAck
<1>7. ASSUME to_rx # <<>>, Dispatch(Head(to_rx)) PROVE Link!Next
  <2> DEFINE f == Head(to_rx)
  <2>1. /\ f # Sync /\ ~SeenRecently(KeyOf(f)) /\ count' = [count EXCEPT ![f.id] = @ + 1]
        /\ UNCHANGED <<frames, acked, abandoned>>
    BY <1>7 DEF Dispatch, Arrives, bounds
  <2>2. 1 \in DOMAIN to_rx /\ to_rx[1] = f
    BY <1>0, <1>7
  <2>3. f.id \in Id /\ KeyOf(f) \in Key
    BY <1>0, <2>1, <2>2, KeyTypes
  <2>4. count[f.id] = 0
    BY <1>0, <1>7, <2>1, NewIsNew DEF Quiet
  <2>5. f.id \in 1..frames
    <3>1. Copy(f.id, KeyOf(f))
      BY <2>1, <2>2 DEF Copy, IsAt
    <3>2. f.id <= frames
      BY <1>0, <2>3, <3>1 DEF CopyInv
    <3> QED
      BY <1>0, <2>3, <3>2 DEF Id
  <2>6. count' = [count EXCEPT ![f.id] = 1]
    BY <2>1, <2>4
  <2>7. Link!Deliver(f.id)
    BY <2>1, <2>4, <2>5, <2>6 DEF Link!Deliver
  <2> QED
    BY <2>3, <2>7 DEF Link!Next
<1>8. ASSUME NEW s \in Slot, TickSkip(s) \/ TickRetry(s) PROVE UNCHANGED Link!vars
  BY <1>8 DEF TickSkip, TickRetry, bounds, receiver
<1>9. CASE TickBegin \/ TickSend \/ OtherTraffic \/ Duplicate(Head(to_rx)) \/ ReceiveSync \/ SendAck
           \/ UNCHANGED vars
  BY <1>9 DEF TickBegin, TickSend, OtherTraffic, Duplicate, ReceiveSync, SendAck, vars, bounds, receiver
<1>10. ~Resync /\ ~SenderRestart /\ ~ReceiverRestart
  BY DEF Quiet, Resync, SenderRestart, ReceiverRestart
<1> QED
  BY <1>2, <1>3, <1>4, <1>5, <1>6, <1>7, <1>8, <1>9, <1>10 DEF Next, TickTask, TickDue, ReceiveData

\* Within one session of both chips and on the first lap of the counter, over a wire
\* whose late copies are timely, the window, the filter and the wire implement the link
\* the two chips promise their callers.
THEOREM LinkImplemented == Spec /\ [](Quiet /\ Timely) => LinkSpec
<1>1. Init => LinkInv
  <2> SUFFICES ASSUME Init PROVE LinkInv
    OBVIOUS
  <2>1. FilterInv
    BY DEF Init, FilterInv, RingIsWindow, DuplicatesFarApart
  <2>2. WindowInv
    BY DEF Init, WindowInv, FreeSlot
  <2> QED
    BY <2>1, <2>2, InitType, OnceInit, NumbersInit DEF LinkInv
<1>2. LinkInv /\ Timely /\ [Next]_vars => LinkInv'
  BY TypeStep, FilterStep, NumbersStep, OnceStep, WindowStep DEF LinkInv
<1>3. Init => Link!Init
  <2>1. 1..0 = {}
    OBVIOUS
  <2> QED
    BY <2>1 DEF Init, Link!Init
<1>4. LinkInv /\ Timely /\ Quiet /\ Quiet' /\ [Next]_vars => [Link!Next]_(Link!vars)
  BY LinkStep
<1> QED
  BY <1>1, <1>2, <1>3, <1>4, PTL DEF Spec, LinkSpec, Link!Spec

\* The same without a word about time, for the first RingSize frames.
COROLLARY LinkOfFirstFrames == Spec /\ [](Quiet /\ frames <= RingSize) => LinkSpec
<1>1. TypeOK /\ FewLogged /\ Quiet /\ frames <= RingSize => Timely
  BY FirstFramesTimely DEF FirstFrames, Quiet
<1> QED
  BY <1>1, FewLoggedAlways, TypeCorrect, LinkImplemented, PTL
=============================================================================
