----------------------------- MODULE MeterPoll ------------------------------
(***************************************************************************)
(* Meter reads and pings: the table of components/zhc_adapter/src/         *)
(* meter_poll.cpp and the tick of zhc_adapter.cpp that serves it.          *)
(*                                                                         *)
(* A tick marks the devices of the pool, sweeps the others, reads at most  *)
(* two meters that are due and pings one quiet device.  Frames are heard,  *)
(* and devices come and go, between its steps.  Times are ticks still to   *)
(* wait, zero when due; jitter and the offset of a first read are any      *)
(* number of ticks up to the interval.  The table has a row for every      *)
(* device of the pool, as kSlots has.                                      *)
(***************************************************************************)
EXTENDS Naturals, Sequences, SequencesExt, FiniteSets

CONSTANTS
    Device,
    Metered,            \* devices whose definition asks for meter reads
    MaxPerTick,         \* kMaxPerTick
    Interval,           \* kMeterIntervalMs, in ticks
    PingInterval,       \* kPingIntervalMs, in ticks; zero when pings are configured out
    PingMax,            \* kPingMaxMs, in ticks
    AtBoot              \* devices in the pool at the boot

CONSTANTS MaxChanges    \* bound: devices that come or go

VARIABLES
    paired,     \* the device pool
    changes,    \* the bound's counter
    table,      \* Scheduler::slots_, in the order of the table; a free one has no device
    tick,       \* meter_tick: where it is, and what it took
    unread,     \* history: ticks since each device came, or since its read was tried last,
    unasked     \*          ticks since it came, or since it was heard or pinged last

vars == <<paired, changes, table, tick, unread, unasked>>

None == "none"
Free == [dev |-> None, due |-> 0, ping |-> 0, backoff |-> 2, seen |-> FALSE]

Size == Cardinality(Device)

Init ==
    /\ paired = AtBoot /\ changes = 0
    /\ table = [i \in 1..Size |-> Free]
    /\ tick = [pc |-> "wait"] 
    /\ unread = [d \in Device |-> 0] /\ unasked = [d \in Device |-> 0]

Less(n) == IF n = 0 THEN 0 ELSE n - 1
Row(d)  == {i \in 1..Size : table[i].dev = d}
Lowest(S) == CHOOSE i \in S : \A j \in S : i <= j

-----------------------------------------------------------------------------
\* ping_wait, and the exponential backoff of an unanswered ping.
PingWait(backoff) == LET n == (PingInterval * backoff) \div 2 IN IF n < PingMax THEN n ELSE PingMax

Backed(b) == IF (PingInterval * b) \div 2 >= PingMax THEN b ELSE IF b = 2 THEN 3 ELSE 2 * b

Older(h) == [d \in Device |-> IF d \in paired THEN h[d] + 1 ELSE 0]

\* begin_scan; a tick has passed.
Tick ==
    /\ tick.pc = "wait"
    /\ table' = [i \in 1..Size |-> IF table[i].dev = None THEN Free
                                   ELSE [table[i] EXCEPT !.due = Less(@), !.ping = Less(@), !.seen = FALSE]]
    /\ tick' = [pc |-> "scan", left |-> paired]
    /\ unread' = Older(unread) /\ unasked' = IF PingInterval = 0 THEN unasked ELSE Older(unasked)
    /\ UNCHANGED <<paired, changes>>

\* refresh, which leaves the schedules as they are, or add in the first free row.
Restaggered(r) == [r EXCEPT !.seen = TRUE, !.due = Interval - 1]   \* mutant
Refreshed(r) == [r EXCEPT !.seen = TRUE]

Scan ==
    /\ tick.pc = "scan" /\ tick.left # {}
    /\ \E d \in tick.left :
          /\ tick' = [tick EXCEPT !.left = @ \ {d}]
          /\ IF d \notin paired THEN UNCHANGED table
             ELSE IF Row(d) # {} THEN table' = [table EXCEPT ![Lowest(Row(d))] = Refreshed(@)]
             ELSE IF Row(None) = {} THEN UNCHANGED table
             ELSE \E offset \in 0..(Interval - 1) :
                     table' = [table EXCEPT ![Lowest(Row(None))] =
                                  [dev |-> d, due |-> offset, ping |-> PingWait(2), backoff |-> 2, seen |-> TRUE]]
    /\ UNCHANGED <<paired, changes, unread, unasked>>

\* end_scan and take_due, in one hold of the lock.
Swept == [i \in 1..Size |-> IF table[i].seen THEN table[i] ELSE Free]

Due(t) == SelectSeq([i \in 1..Size |-> i], LAMBDA i : t[i].dev \in Metered /\ t[i].due = 0)

FirstOf(s, n) == SubSeq(s, 1, IF Len(s) < n THEN Len(s) ELSE n)

TakeDue ==
    /\ tick.pc = "scan" /\ tick.left = {}
    /\ table' = Swept
    /\ tick' = [pc |-> "read", due |-> [k \in DOMAIN FirstOf(Due(Swept), MaxPerTick) |-> Swept[FirstOf(Due(Swept), MaxPerTick)[k]].dev]]
    /\ UNCHANGED <<paired, changes, unread, unasked>>

\* A read that could not be sent ends the round, and waits its interval like one that was.
Polled(d, ok) == [table EXCEPT ![Lowest(Row(d))].due = Interval]

Read(ok) ==
    /\ tick.pc = "read" /\ tick.due # <<>>
    /\ LET d == Head(tick.due)
       IN  /\ table' = IF Row(d) = {} THEN table ELSE Polled(d, ok)
           /\ unread' = [unread EXCEPT ![d] = 0]
           /\ tick' = [tick EXCEPT !.due = IF ok THEN Tail(@) ELSE <<>>]
    /\ UNCHANGED <<paired, changes, unasked>>

\* take_ping_due; the ping is sent without the lock, and pinged finds the row again.
TakePing ==
    /\ tick.pc = "read" /\ tick.due = <<>>
    /\ LET quiet == {i \in 1..Size : PingInterval # 0 /\ table[i].dev # None /\ table[i].ping = 0}
       IN  tick' = IF quiet = {} THEN [pc |-> "wait"] ELSE [pc |-> "ping", dev |-> table[Lowest(quiet)].dev]
    /\ UNCHANGED <<paired, changes, table, unread, unasked>>

Pinged(r) == [r EXCEPT !.backoff = Backed(@), !.ping = PingWait(Backed(r.backoff))]

Ping ==
    /\ tick.pc = "ping" /\ tick' = [pc |-> "wait"]
    /\ table' = IF Row(tick.dev) = {} THEN table ELSE [table EXCEPT ![Lowest(Row(tick.dev))] = Pinged(@)]
    /\ unasked' = [unasked EXCEPT ![tick.dev] = 0]
    /\ UNCHANGED <<paired, changes, unread>>

-----------------------------------------------------------------------------
\* ping_heard: anything the device sends.
Heard(d) ==
    /\ Row(d) # {}
    /\ table' = [table EXCEPT ![Lowest(Row(d))].ping = PingWait(2), ![Lowest(Row(d))].backoff = 2]
    /\ unasked' = [unasked EXCEPT ![d] = 0]
    /\ UNCHANGED <<paired, changes, tick, unread>>

Change == changes < MaxChanges /\ changes' = changes + 1

Pair(d) ==
    /\ d \notin paired /\ Change /\ paired' = paired \cup {d}
    /\ UNCHANGED <<table, tick, unread, unasked>>

\* Removed from the pool, which also has the adapter forget it (meter_forget).
Unpair(d) ==
    /\ d \in paired /\ Change /\ paired' = paired \ {d}
    /\ table' = [i \in 1..Size |-> IF table[i].dev = d THEN Free ELSE table[i]]
    /\ unread' = [unread EXCEPT ![d] = 0] /\ unasked' = [unasked EXCEPT ![d] = 0]
    /\ UNCHANGED tick

-----------------------------------------------------------------------------
Step == Tick \/ Scan \/ TakeDue \/ (\E ok \in BOOLEAN : Read(ok)) \/ TakePing \/ Ping

Next == Step \/ \E d \in Device : Heard(d) \/ Pair(d) \/ Unpair(d)

Spec == Init /\ [][Next]_vars

-----------------------------------------------------------------------------
\* A metered device that stays is read, or tried, within an interval and the ticks in which the
\* others have their turn: also when the reads of others fail, and whoever comes and goes before it
\* in the table.  This is so below the table's capacity: a tick tries at least one of those due, and
\* no more when that one fails, so there must be fewer meters than ticks in an interval.
EveryMeterRead == Cardinality(Metered) < Interval => \A d \in Metered : unread[d] <= Interval + Size

\* With more meters than that "the effective interval simply stretches past 60 s" (meter_poll.hpp):
\* nobody waits longer than two rounds in which each of them has a tick to itself.
IntervalStretches == \A d \in Metered : unread[d] <= Interval + 2 * Size

\* A device that is paired and not heard any more is pinged within the longest wait and the turns of
\* the others, when there are no more devices than ticks in the shortest wait.
QuietPinged == Size <= PingInterval => \A d \in Device : unasked[d] <= PingMax + Size
=============================================================================
