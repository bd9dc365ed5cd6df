------------------------------ MODULE EventBus ------------------------------
(***************************************************************************)
(* The event bus (components/event_bus) for one event type: subscription   *)
(* slots with a generation and a count of the tasks that use their queue,  *)
(* publishers that send outside the bus lock, drainers that block outside  *)
(* it, unsubscribe at any moment of either.                                *)
(*                                                                         *)
(* A hold of s_bus_mtx, a queue operation and a handler call are one step  *)
(* each.  Subscriptions are numbered as they are made; the number stands   *)
(* for the queue and the handler made with it, 0 for the null queue.       *)
(* Events are numbered as their publish begins, 0 is the poison event.     *)
(* Types share nothing but s_dying_count, which only gates the reaping.    *)
(* Handlers that publish or unsubscribe are covered by other tasks doing   *)
(* so at that moment.                                                      *)
(***************************************************************************)
EXTENDS Naturals, FiniteSets, FiniteSetsExt, Sequences

CONSTANTS
    MaxSubs,      \* MAX_SUBS_PER_TYPE
    Depth,        \* QUEUE_DEPTH
    GenMod,       \* values of the generation stamp, 256
    Publisher,    \* tasks that publish
    Drainer,      \* tasks that drain
    Pump,         \* the drainer inside event_bus_pump_run
    Filtering     \* the subscriptions that are made with a filter

CONSTANTS         \* bounds of the state space
    MaxCreated,   \* subscriptions made
    MaxEvents     \* events published

ASSUME BusConstants ==
    /\ MaxSubs \in Nat \ {0} /\ Depth \in Nat \ {0} /\ GenMod \in Nat \ {0}
    /\ MaxCreated \in Nat /\ MaxEvents \in Nat
    /\ IsFiniteSet(Publisher) /\ IsFiniteSet(Drainer)
    /\ Publisher \cap Drainer = {} /\ Pump \in Drainer /\ Filtering \subseteq 1..MaxCreated

VARIABLES
    slot,          \* s_subs of the type
    hwm,           \* s_sub_hwm of the type
    dying_count,   \* s_dying_count
    queue,         \* contents of the queue of each subscription
    pub,           \* event_bus_publish in progress in each publisher
    drain,         \* drain_slot in progress in each drainer
    created, events,     \* history: subscriptions made, events published,
    handle, asked, got   \* the handle of each subscription, those whose handle
                         \* was unsubscribed, what each handler was given

bus  == <<slot, hwm, dying_count>>
past == <<created, handle, asked>>
vars == <<bus, queue, pub, drain, events, got, past>>

-----------------------------------------------------------------------------
Pos   == 1..MaxSubs
Sub   == 1..MaxCreated
Event == 1..MaxEvents
Poison == 0

NoPublish == [step |-> "idle", event |-> 0, target |-> [i \in Pos |-> 0], left |-> {}]
NoDrain   == [step |-> "idle", pos |-> 0, gen |-> 0, queue |-> 0, event |-> 0]

IsFree(e)  == e.queue = 0 /\ ~e.alive
IsDying(e) == e.queue # 0 /\ ~e.alive

Init ==
    /\ slot = [i \in Pos |-> [queue |-> 0, gen |-> 0, inflight |-> 0, alive |-> FALSE]]
    /\ hwm = 0 /\ dying_count = 0
    /\ queue = [q \in Sub |-> <<>>]
    /\ pub = [p \in Publisher |-> NoPublish]
    /\ drain = [d \in Drainer |-> NoDrain]
    /\ created = 0 /\ events = 0
    /\ handle = [s \in Sub |-> [pos |-> 0, gen |-> 0]]
    /\ asked = {} /\ got = [s \in Sub |-> <<>>]

-----------------------------------------------------------------------------
\* Under the lock.

BumpNever(g) == g                                             \* mutant
Bump(g) == (g + 1) % GenMod

\* recalc_hwm_locked
Trimmed(h, table) == Max({0} \cup {i \in 1..h : ~IsFree(table[i])})

\* reap_locked: the dying slots of a table nobody uses any more lose their queue.
Ripe(table) ==
    IF dying_count = 0 THEN {} ELSE {i \in Pos : IsDying(table[i]) /\ table[i].inflight = 0}
Reaped(table) == [i \in Pos |-> IF i \in Ripe(table) THEN [table[i] EXCEPT !.queue = 0] ELSE table[i]]
HwmReaped(table) == IF Ripe(table) = {} THEN hwm ELSE Trimmed(hwm, Reaped(table))
DyingLeft(table) == dying_count - Cardinality(Ripe(table))

\* A deleted queue loses its contents.
Remaining(content, table) ==
    [q \in Sub |-> IF \E i \in Ripe(table) : table[i].queue = q THEN <<>> ELSE content[q]]

\* xQueueSend without waiting
Sent(q, e) == IF Len(q) < Depth THEN Append(q, e) ELSE q

\* A handle names the subscription it was returned for.
Valid(s) ==
    LET e == slot[handle[s].pos] IN e.alive /\ e.gen = handle[s].gen

Made(e) == [e EXCEPT !.queue = created + 1, !.gen = Bump(@), !.alive = TRUE]

\* event_bus_subscribe
Subscribe ==
    /\ created < MaxCreated
    /\ \E i \in Pos :
          /\ IsFree(Reaped(slot)[i]) /\ \A j \in Pos : IsFree(Reaped(slot)[j]) => i <= j
          /\ slot' = [Reaped(slot) EXCEPT ![i] = Made(@)]
          /\ hwm' = Max({HwmReaped(slot), i})
          /\ handle' = [handle EXCEPT ![created + 1] = [pos |-> i, gen |-> slot'[i].gen]]
    /\ dying_count' = DyingLeft(slot)
    /\ queue' = Remaining(queue, slot)
    /\ created' = created + 1
    /\ UNCHANGED <<pub, drain, events, got, asked>>

\* Table full, or no memory for a queue.
SubscribeFails ==
    /\ slot' = Reaped(slot) /\ hwm' = HwmReaped(slot) /\ dying_count' = DyingLeft(slot)
    /\ queue' = Remaining(queue, slot)
    /\ UNCHANGED <<pub, drain, events, got, past>>

\* event_bus_unsubscribe; a stale handle changes nothing.
Unsubscribe(s) ==
    /\ s \in 1..created /\ Valid(s)
    /\ LET i == handle[s].pos
           e == [slot[i] EXCEPT !.alive = FALSE, !.gen = Bump(@)]
       IN  \/ /\ e.inflight = 0
              /\ slot' = [slot EXCEPT ![i] = [e EXCEPT !.queue = 0]]
              /\ queue' = [queue EXCEPT ![e.queue] = <<>>]
              /\ hwm' = Trimmed(hwm, slot') /\ UNCHANGED dying_count
           \/ /\ e.inflight > 0
              /\ slot' = [slot EXCEPT ![i] = e]
              /\ queue' = [queue EXCEPT ![e.queue] = Sent(@, Poison)]
              /\ dying_count' = dying_count + 1 /\ UNCHANGED hwm
    /\ asked' = asked \cup {s}
    /\ UNCHANGED <<pub, drain, events, got, created, handle>>

-----------------------------------------------------------------------------
\* event_bus_publish: a snapshot that pins the queues, unlocked sends, then the
\* pins are taken back.

PinningForgotten(e) == e                                      \* mutant
Pinning(e) == [e EXCEPT !.inflight = @ + 1]
Unpinned(e) == [e EXCEPT !.inflight = @ - 1]

Publish(p) ==
    /\ pub[p].step = "idle"
    /\ events < MaxEvents
    /\ events' = events + 1
    /\ LET T == {i \in 1..hwm : slot[i].alive /\ slot[i].queue # 0}
       IN  /\ slot' = [i \in Pos |-> IF i \in T THEN Pinning(slot[i]) ELSE slot[i]]
           /\ pub' = [pub EXCEPT ![p] = IF T = {} THEN NoPublish ELSE
                 [step |-> "send", event |-> events + 1, left |-> T,
                  target |-> [i \in Pos |-> IF i \in T THEN slot[i].queue ELSE 0]]]
    /\ UNCHANGED <<hwm, dying_count, queue, drain, got, past>>

At(p)     == Min(pub[p].left)
Target(p) == pub[p].target[At(p)]
ToNext(p) == [pub[p] EXCEPT !.step = "send", !.left = @ \ {At(p)}]

\* The subscriber's filter refuses the event.
Filtered(p) ==
    /\ pub[p].step = "send" /\ pub[p].left # {} /\ Target(p) \in Filtering
    /\ pub' = [pub EXCEPT ![p] = ToNext(p)]
    /\ UNCHANGED <<bus, queue, drain, events, got, past>>

Send(p) ==
    /\ pub[p].step = "send" /\ pub[p].left # {}
    /\ \/ /\ Len(queue[Target(p)]) < Depth
          /\ queue' = [queue EXCEPT ![Target(p)] = Append(@, pub[p].event)]
          /\ pub' = [pub EXCEPT ![p] = ToNext(p)]
       \/ /\ Len(queue[Target(p)]) = Depth
          /\ pub' = [pub EXCEPT ![p].step = "evict"]
          /\ UNCHANGED queue
    /\ UNCHANGED <<bus, drain, events, got, past>>

\* Full queue: the oldest event is thrown away ...
Evict(p) ==
    /\ pub[p].step = "evict"
    /\ queue' = [queue EXCEPT ![Target(p)] = IF @ = <<>> THEN @ ELSE Tail(@)]
    /\ pub' = [pub EXCEPT ![p].step = "resend"]
    /\ UNCHANGED <<bus, drain, events, got, past>>

\* ... and the send is tried once more.
Resend(p) ==
    /\ pub[p].step = "resend"
    /\ queue' = [queue EXCEPT ![Target(p)] = Sent(@, pub[p].event)]
    /\ pub' = [pub EXCEPT ![p] = ToNext(p)]
    /\ UNCHANGED <<bus, drain, events, got, past>>

Finish(p) ==
    /\ pub[p].step = "send" /\ pub[p].left = {}
    /\ LET table == [i \in Pos |-> IF pub[p].target[i] # 0 THEN Unpinned(slot[i]) ELSE slot[i]]
       IN  /\ slot' = Reaped(table) /\ hwm' = HwmReaped(table) /\ dying_count' = DyingLeft(table)
           /\ queue' = Remaining(queue, table)
    /\ pub' = [pub EXCEPT ![p] = NoPublish]
    /\ UNCHANGED <<drain, events, got, past>>

-----------------------------------------------------------------------------
\* drain_slot, from event_bus_drain_handle or, for every live subscription of the
\* type, from event_bus_drain.  Only its first receive waits, for as long as the
\* caller said; the pump's does not wait either, and it looks below the mark only.

DrainBegin(d, s) ==
    /\ drain[d].step = "idle"
    /\ s \in 1..created /\ Valid(s)
    /\ d = Pump => handle[s].pos <= hwm
    /\ LET i == handle[s].pos
       IN  /\ slot[i].queue # 0
           /\ drain' = [drain EXCEPT ![d] = [step |-> IF d = Pump THEN "receive" ELSE "wait",
                 pos |-> i, gen |-> handle[s].gen, queue |-> slot[i].queue, event |-> 0]]
           /\ slot' = [slot EXCEPT ![i] = Pinning(@)]
    /\ UNCHANGED <<hwm, dying_count, queue, pub, events, got, past>>

Receive(d) ==
    /\ drain[d].step \in {"wait", "receive"}
    /\ queue[drain[d].queue] # <<>>
    /\ drain' = [drain EXCEPT ![d].step = "check", ![d].event = Head(queue[drain[d].queue])]
    /\ queue' = [queue EXCEPT ![drain[d].queue] = Tail(@)]
    /\ UNCHANGED <<bus, pub, events, got, past>>

Empty(d) ==
    /\ queue[drain[d].queue] = <<>>
    /\ drain' = [drain EXCEPT ![d].step = "leave"]
    /\ UNCHANGED <<bus, queue, pub, events, got, past>>

TimeOut(d) == drain[d].step = "wait" /\ Empty(d)
Drained(d) == drain[d].step = "receive" /\ Empty(d)

\* Under the lock again: did the subscription die meanwhile?
StillLiveAlways(k) == TRUE                                    \* mutant
StillLive(k) == slot[k.pos].alive /\ slot[k.pos].gen = k.gen

Check(d) ==
    /\ drain[d].step = "check"
    /\ drain' = [drain EXCEPT ![d].step = IF StillLive(drain[d]) THEN "run" ELSE "leave"]
    /\ UNCHANGED <<bus, queue, pub, events, got, past>>

\* The handler, outside the lock, in the copy taken at the start of the call.
Handle(d) ==
    /\ drain[d].step = "run"
    /\ got' = [got EXCEPT ![drain[d].queue] = Append(@, drain[d].event)]
    /\ drain' = [drain EXCEPT ![d].step = "receive", ![d].event = 0]
    /\ UNCHANGED <<bus, queue, pub, events, past>>

\* The wake is handed on to the next drainer blocked on a dead queue.
HandedOnNever(content, e) == content                          \* mutant
HandedOn(content, e) ==
    IF IsDying(e) /\ e.inflight > 0 THEN [content EXCEPT ![e.queue] = Sent(@, Poison)] ELSE content

Leave(d) ==
    /\ drain[d].step = "leave"
    /\ LET i == drain[d].pos
           table == [slot EXCEPT ![i] = Unpinned(@)]
       IN  /\ slot' = Reaped(table) /\ hwm' = HwmReaped(table) /\ dying_count' = DyingLeft(table)
           /\ queue' = Remaining(HandedOn(queue, table[i]), table)
    /\ drain' = [drain EXCEPT ![d] = NoDrain]
    /\ UNCHANGED <<pub, events, got, past>>

-----------------------------------------------------------------------------
Publishing(p) == Filtered(p) \/ Send(p) \/ Evict(p) \/ Resend(p) \/ Finish(p)
Draining(d)   == Receive(d) \/ Drained(d) \/ Check(d) \/ Handle(d) \/ Leave(d)

Next ==
    \/ Subscribe \/ SubscribeFails \/ \E s \in Sub : Unsubscribe(s)
    \/ \E p \in Publisher : Publish(p) \/ Publishing(p)
    \/ \E d \in Drainer : TimeOut(d) \/ Draining(d) \/ \E s \in Sub : DrainBegin(d, s)

Spec == Init /\ [][Next]_vars

\* A task inside a call goes on; one that waits for an event wakes when there is
\* one, and may wait for ever when there is none.  The pump comes round to every live subscription, at least once a second.
FairSpec ==
    /\ Spec
    /\ \A p \in Publisher : WF_vars(Publishing(p))
    /\ \A d \in Drainer : WF_vars(Draining(d))
    /\ \A s \in Sub : SF_vars(DrainBegin(Pump, s))

-----------------------------------------------------------------------------
SlotTypeOK ==
    /\ slot \in [Pos -> [queue : 0..MaxCreated, gen : 0..(GenMod - 1), inflight : Nat, alive : BOOLEAN]]
    /\ hwm \in 0..MaxSubs /\ dying_count \in 0..MaxSubs
    /\ queue \in [Sub -> Seq(Event \cup {Poison})] /\ \A q \in Sub : Len(queue[q]) <= Depth

PubTypeOK ==
    pub \in [Publisher -> [step : {"idle", "send", "evict", "resend"}, event : 0..MaxEvents,
                           target : [Pos -> 0..MaxCreated], left : SUBSET Pos]]

DrainTypeOK ==
    drain \in [Drainer -> [step : {"idle", "wait", "receive", "check", "run", "leave"}, pos : 0..MaxSubs,
                           gen : 0..(GenMod - 1), queue : 0..MaxCreated, event : 0..MaxEvents]]

HistoryTypeOK ==
    /\ created \in 0..MaxCreated /\ events \in 0..MaxEvents
    /\ handle \in [Sub -> [pos : 0..MaxSubs, gen : 0..(GenMod - 1)]]
    /\ asked \subseteq 1..created
    /\ got \in [Sub -> Seq(Event)]

TypeOK == SlotTypeOK /\ PubTypeOK /\ DrainTypeOK /\ HistoryTypeOK

-----------------------------------------------------------------------------
\* The tasks between a snapshot of position i and giving it back.
Users(i) == {p \in Publisher : pub[p].target[i] # 0} \cup {d \in Drainer : drain[d].pos = i}

\* No queue is used after it was deleted: what a publisher or a drainer took under
\* the lock is still its slot's queue at every later step, although the slot may be
\* unsubscribed and the table reaped in between.
QueuesOutliveUsers ==
    /\ \A p \in Publisher, i \in Pos : pub[p].target[i] # 0 => slot[i].queue = pub[p].target[i]
    /\ \A d \in Drainer : drain[d].step # "idle" => slot[drain[d].pos].queue = drain[d].queue

\* No queue leaks: a dead one has a user left, who will find it in reap_locked, and
\* s_dying_count never tells that there is nothing to reap.
DyingInUse ==
    /\ dying_count = Cardinality({i \in Pos : IsDying(slot[i])})
    /\ \A i \in Pos : IsDying(slot[i]) => Users(i) # {}

\* Publish looks no further than the high-water mark, and misses no subscriber.
SubscribersInReach == \A i \in Pos : slot[i].alive => i <= hwm

\* A handle names its own subscription until it is unsubscribed and none ever
\* after, whoever gets the slot: a stale or double unsubscribe and a stale drain
\* touch no other subscriber.  Needs fewer subscriptions than generations.
HandlesName ==
    \A s \in 1..created :
       IF s \in asked THEN ~Valid(s)
       ELSE Valid(s) /\ slot[handle[s].pos].queue = s

\* A dead subscription gives its queue back: whoever is blocked on it wakes and
\* leaves, however many they are.
DeadQueueReclaimed == \A s \in Sub : (s \in asked) ~> (\A i \in Pos : slot[i].queue # s)

\* No event stays behind in a live queue: the pump drains it until it is empty.
Backlog(s) == s \notin asked /\ queue[s] # <<>>
EventsDrained == \A s \in Sub : Backlog(s) ~> ~Backlog(s)

\* No queue waits for ever, and every subscriber is in reach: a dead one for its users to leave, a live one for somebody to drain it.
QueuesTurnOver == []SubscribersInReach /\ DeadQueueReclaimed /\ EventsDrained

\* What a subscriber is promised, EventChannel: nothing taken after the unsubscribe
\* reaches the handler, the poison event never does, order and singleness hold.
InHand(s) ==
    {drain[d].event : d \in {k \in Drainer :
        /\ drain[k].queue = s
        /\ drain[k].step = "run" \/ (drain[k].step = "check" /\ s \notin asked)}}

Channel == INSTANCE EventChannel WITH
    open <- 1..created, closed <- asked,
    chan <- [s \in Sub |-> IF s \in asked THEN <<>> ELSE queue[s]],
    hand <- [s \in Sub |-> InHand(s)]
ChannelSpec == Channel!Spec
=============================================================================
