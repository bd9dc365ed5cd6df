--------------------------- MODULE EventBusProofs ---------------------------
(***************************************************************************)
(* Proofs about EventBus.  The count of users of a slot is exact, so no    *)
(* queue is deleted while a task uses it, and a dead queue with no user    *)
(* left is always found.  With fewer subscriptions than generations a      *)
(* handle names its own subscription only, and then the bus, seen through  *)
(* the mapping of EventBus, does only what EventChannel allows.            *)
(***************************************************************************)
EXTENDS EventBus, FiniteSetTheorems, WellFoundedInduction, TLAPS

SlotRec  == [queue : 0..MaxCreated, gen : 0..(GenMod - 1), inflight : Nat, alive : BOOLEAN]
PubRec   == [step : {"idle", "send", "evict", "resend"}, event : Nat,
             target : [Pos -> 0..MaxCreated], left : SUBSET Int]
DrainRec == [step : {"idle", "wait", "receive", "check", "run", "leave"}, pos : 0..MaxSubs,
             gen : 0..(GenMod - 1), queue : 0..MaxCreated, event : Nat]

\* The part of TypeOK the proofs need.
RecsOK ==
    /\ slot \in [Pos -> SlotRec]
    /\ pub \in [Publisher -> PubRec]
    /\ drain \in [Drainer -> DrainRec]
    /\ queue \in [Sub -> Seq(Nat)]
    /\ created \in 0..MaxCreated /\ events \in Nat
    /\ handle \in [Sub -> [pos : 0..MaxSubs, gen : 0..(GenMod - 1)]]
    /\ \A s \in 1..created : handle[s].pos \in Pos

\* An idle publisher pins nothing, nor does an idle drainer; a drainer pins one slot.
IdlePinsNothing ==
    /\ \A p \in Publisher : pub[p].step = "idle" => \A i \in Pos : pub[p].target[i] = 0
    /\ \A d \in Drainer : IF drain[d].step = "idle" THEN drain[d].pos = 0
                          ELSE drain[d].pos \in Pos /\ drain[d].queue # 0

AliveHasQueue == \A i \in Pos : slot[i].alive => slot[i].queue # 0

UsersCounted == \A i \in Pos : slot[i].inflight = Cardinality(Users(i))

PinInv == RecsOK /\ IdlePinsNothing /\ AliveHasQueue /\ UsersCounted /\ QueuesOutliveUsers

-----------------------------------------------------------------------------
\* Facts about the definitions.

LEMMA BumpType == \A g \in 0..(GenMod - 1) : Bump(g) \in 0..(GenMod - 1)
BY BusConstants DEF Bump

LEMMA FiniteUsers == \A i : IsFiniteSet(Users(i))
<1> SUFFICES ASSUME NEW i PROVE IsFiniteSet(Users(i))
  OBVIOUS
<1>1. /\ {p \in Publisher : pub[p].target[i] # 0} \in SUBSET Publisher
      /\ {d \in Drainer : drain[d].pos = i} \in SUBSET Drainer
  OBVIOUS
<1>2. /\ IsFiniteSet({p \in Publisher : pub[p].target[i] # 0})
      /\ IsFiniteSet({d \in Drainer : drain[d].pos = i})
  BY <1>1, FS_Subset, BusConstants
<1>q. QED BY <1>2, FS_Union DEF Users

\* A slot whose count is zero has no user.
LEMMA CountZero ==
    ASSUME NEW i \in Pos, slot[i].inflight = Cardinality(Users(i)), slot[i].inflight = 0
    PROVE Users(i) = {}
BY FiniteUsers, FS_EmptySet

\* What reaping does to a table, slot by slot.
LEMMA ReapedSlot ==
    ASSUME NEW table \in [Pos -> SlotRec]
    PROVE /\ Reaped(table) \in [Pos -> SlotRec]
          /\ \A i \in Pos :
                /\ Reaped(table)[i].inflight = table[i].inflight
                /\ Reaped(table)[i].alive = table[i].alive
                /\ Reaped(table)[i].gen = table[i].gen
                /\ Reaped(table)[i].queue = IF i \in Ripe(table) THEN 0 ELSE table[i].queue
                /\ i \in Ripe(table) => ~table[i].alive /\ table[i].inflight = 0
<1> DEFINE R == Ripe(table)
<1>1. \A i \in R : i \in Pos /\ ~table[i].alive /\ table[i].inflight = 0
  BY DEF Ripe, IsDying
<1>2. Reaped(table) = [i \in Pos |-> IF i \in R THEN [table[i] EXCEPT !.queue = 0] ELSE table[i]]
  BY DEF Reaped
<1>3. ASSUME NEW i \in Pos
      PROVE /\ [table[i] EXCEPT !.queue = 0] \in SlotRec
            /\ [table[i] EXCEPT !.queue = 0].inflight = table[i].inflight
            /\ [table[i] EXCEPT !.queue = 0].alive = table[i].alive
            /\ [table[i] EXCEPT !.queue = 0].gen = table[i].gen
            /\ [table[i] EXCEPT !.queue = 0].queue = 0
  BY BusConstants DEF SlotRec
<1> HIDE DEF R
<1>4. \A i \in Pos : Reaped(table)[i] = IF i \in R THEN [table[i] EXCEPT !.queue = 0] ELSE table[i]
  BY <1>2
<1>q. QED BY <1>1, <1>2, <1>3, <1>4 DEF R

LEMMA RemainingType ==
    ASSUME NEW content \in [Sub -> Seq(Nat)], NEW table
    PROVE Remaining(content, table) \in [Sub -> Seq(Nat)]
BY DEF Remaining

LEMMA SentType ==
    ASSUME NEW q \in Seq(Nat), NEW e \in Nat PROVE Sent(q, e) \in Seq(Nat)
BY DEF Sent

\* One queue changes.
LEMMA QueueChange ==
    ASSUME NEW f \in [Sub -> Seq(Nat)], NEW x, NEW e \in Nat
    PROVE /\ [f EXCEPT ![x] = Append(@, e)] \in [Sub -> Seq(Nat)]
          /\ [f EXCEPT ![x] = IF @ = <<>> THEN @ ELSE Tail(@)] \in [Sub -> Seq(Nat)]
          /\ f[x] # <<>> => [f EXCEPT ![x] = Tail(@)] \in [Sub -> Seq(Nat)]
          /\ [f EXCEPT ![x] = Sent(@, e)] \in [Sub -> Seq(Nat)]
          /\ [f EXCEPT ![x] = <<>>] \in [Sub -> Seq(Nat)]
<1>1. ASSUME NEW g \in Seq(Nat)
      PROVE /\ Append(g, e) \in Seq(Nat) /\ Sent(g, e) \in Seq(Nat)
            /\ g # <<>> => Tail(g) \in Seq(Nat) /\ Head(g) \in Nat
            /\ <<>> \in Seq(Nat)
  <2>1. Append(g, e) \in Seq(Nat) /\ Sent(g, e) \in Seq(Nat) /\ <<>> \in Seq(Nat)
    BY SentType
  <2>2. g # <<>> => Tail(g) \in Seq(Nat)
    OBVIOUS
  <2>3. g # <<>> => Head(g) \in Nat
    OBVIOUS
  <2>q. QED BY <2>1, <2>2, <2>3
<1>2. CASE x \in Sub
  BY <1>1, <1>2
<1>3. CASE x \notin Sub
  BY <1>3
<1>q. QED BY <1>2, <1>3

\* The records as a publisher or a drainer changes them.
LEMMA PubChange ==
    ASSUME NEW k \in PubRec
    PROVE /\ NoPublish \in PubRec
          /\ \A st \in {"send", "evict", "resend"} : [k EXCEPT !.step = st] \in PubRec
          /\ \A S : [k EXCEPT !.step = "send", !.left = @ \ S] \in PubRec
<1>1. NoPublish \in PubRec
  <2>1. /\ [i \in Pos |-> 0] \in [Pos -> 0..MaxCreated] /\ {} \in SUBSET Int
        /\ "idle" \in {"idle", "send", "evict", "resend"} /\ 0 \in Nat
    BY BusConstants
  <2>q. QED BY <2>1 DEF PubRec, NoPublish
<1>2. \A st \in {"send", "evict", "resend"} : [k EXCEPT !.step = st] \in PubRec
  BY DEF PubRec
<1>3. ASSUME NEW S PROVE [k EXCEPT !.step = "send", !.left = @ \ S] \in PubRec
  <2>1. k.left \ S \in SUBSET Int
    BY DEF PubRec
  <2>q. QED BY <2>1 DEF PubRec
<1>q. QED BY <1>1, <1>2, <1>3

LEMMA DrainChange ==
    ASSUME NEW k \in DrainRec
    PROVE /\ NoDrain \in DrainRec
          /\ \A st \in {"run", "leave"} : [k EXCEPT !.step = st] \in DrainRec
          /\ \A e \in Nat : /\ [k EXCEPT !.step = "check", !.event = e] \in DrainRec
                            /\ [k EXCEPT !.step = "receive", !.event = e] \in DrainRec
<1>1. NoDrain \in DrainRec
  <2>1. 0 \in 0..MaxSubs /\ 0 \in 0..(GenMod - 1) /\ 0 \in 0..MaxCreated
    BY BusConstants
  <2>q. QED BY <2>1 DEF DrainRec, NoDrain
<1>2. \A st \in {"run", "leave"} : [k EXCEPT !.step = st] \in DrainRec
  BY DEF DrainRec
<1>3. ASSUME NEW e \in Nat
      PROVE /\ [k EXCEPT !.step = "check", !.event = e] \in DrainRec
            /\ [k EXCEPT !.step = "receive", !.event = e] \in DrainRec
  BY DEF DrainRec
<1>q. QED BY <1>1, <1>2, <1>3

LEMMA SlotChange ==
    ASSUME NEW e \in SlotRec
    PROVE /\ Pinning(e) \in SlotRec
          /\ Pinning(e).inflight = e.inflight + 1 /\ Pinning(e).queue = e.queue /\ Pinning(e).alive = e.alive
          /\ Pinning(e).gen = e.gen
          /\ e.inflight # 0 => Unpinned(e) \in SlotRec
          /\ Unpinned(e).inflight = e.inflight - 1 /\ Unpinned(e).queue = e.queue
          /\ Unpinned(e).alive = e.alive /\ Unpinned(e).gen = e.gen
BY DEF Pinning, Unpinned, SlotRec

\* A step inside a publish or a drain that leaves table and pins alone.
Quiet ==
    /\ slot' = slot
    /\ DOMAIN pub' = Publisher /\ DOMAIN drain' = Drainer
    /\ \A p \in Publisher : /\ pub'[p].target = pub[p].target
                            /\ pub'[p].step = "idle" <=> pub[p].step = "idle"
    /\ \A d \in Drainer : /\ drain'[d].pos = drain[d].pos /\ drain'[d].queue = drain[d].queue
                          /\ drain'[d].gen = drain[d].gen
                          /\ drain'[d].step = "idle" <=> drain[d].step = "idle"

Inside ==
    \/ \E p \in Publisher : Filtered(p) \/ Send(p) \/ Evict(p) \/ Resend(p)
    \/ \E d \in Drainer : Receive(d) \/ TimeOut(d) \/ Drained(d) \/ Check(d) \/ Handle(d)

LEMMA PubSteps ==
    ASSUME RecsOK, IdlePinsNothing, NEW p \in Publisher,
           Filtered(p) \/ Send(p) \/ Evict(p) \/ Resend(p)
    PROVE RecsOK' /\ Quiet
<1>1. /\ pub[p].step # "idle" /\ UNCHANGED <<bus, drain, past>> /\ events' = events
      /\ \/ pub' = [pub EXCEPT ![p] = ToNext(p)]
         \/ pub' = [pub EXCEPT ![p].step = "evict"]
         \/ pub' = [pub EXCEPT ![p].step = "resend"]
  BY DEF Filtered, Send, Evict, Resend
<1> DEFINE k == pub[p]
<1>2. PICK j : /\ pub' = [pub EXCEPT ![p] = j] /\ j \in PubRec
               /\ j.target = k.target /\ j.step # "idle"
  <2>1. k \in PubRec
    BY DEF RecsOK
  <2>2. CASE pub' = [pub EXCEPT ![p] = ToNext(p)]
    <3>1. ToNext(p) \in PubRec
      BY <2>1, PubChange DEF ToNext
    <3>2. ToNext(p).target = k.target /\ ToNext(p).step = "send"
      BY <2>1 DEF ToNext, PubRec
    <3>q. QED BY <2>2, <3>1, <3>2
  <2>3. CASE pub' = [pub EXCEPT ![p].step = "evict"]
    <3>1. [k EXCEPT !.step = "evict"] \in PubRec
      BY <2>1, PubChange
    <3>2. [k EXCEPT !.step = "evict"].target = k.target /\ [k EXCEPT !.step = "evict"].step = "evict"
      BY <2>1 DEF PubRec
    <3>q. QED BY <2>3, <3>1, <3>2
  <2>4. CASE pub' = [pub EXCEPT ![p].step = "resend"]
    <3>1. [k EXCEPT !.step = "resend"] \in PubRec
      BY <2>1, PubChange
    <3>2. [k EXCEPT !.step = "resend"].target = k.target /\ [k EXCEPT !.step = "resend"].step = "resend"
      BY <2>1 DEF PubRec
    <3>q. QED BY <2>4, <3>1, <3>2
  <2>q. QED BY <1>1, <2>2, <2>3, <2>4
<1>3. /\ pub' \in [Publisher -> PubRec]
      /\ \A q \in Publisher : pub'[q] = IF q = p THEN j ELSE pub[q]
  BY <1>2 DEF RecsOK
<1>4. Quiet
  BY <1>1, <1>2, <1>3 DEF Quiet, RecsOK, bus
<1>5. queue' \in [Sub -> Seq(Nat)]
  <2>1. queue \in [Sub -> Seq(Nat)] /\ pub[p].event \in Nat
    BY DEF RecsOK, PubRec
  <2>2. CASE Filtered(p)
    BY <2>1, <2>2 DEF Filtered
  <2>3. CASE Send(p)
    <3>1. \/ queue' = queue
          \/ queue' = [queue EXCEPT ![Target(p)] = Append(@, pub[p].event)]
      BY <2>3 DEF Send
    <3>2. [queue EXCEPT ![Target(p)] = Append(@, pub[p].event)] \in [Sub -> Seq(Nat)]
      BY <2>1, QueueChange
    <3>q. QED BY <2>1, <3>1, <3>2
  <2>4. CASE Evict(p)
    BY <2>1, <2>4, QueueChange DEF Evict
  <2>5. CASE Resend(p)
    BY <2>1, <2>5, QueueChange DEF Resend
  <2>q. QED BY <2>2, <2>3, <2>4, <2>5
<1>q. QED BY <1>1, <1>3, <1>4, <1>5 DEF RecsOK, bus, past

LEMMA DrainSteps ==
    ASSUME RecsOK, IdlePinsNothing, NEW d \in Drainer,
           Receive(d) \/ TimeOut(d) \/ Drained(d) \/ Check(d) \/ Handle(d)
    PROVE RecsOK' /\ Quiet
<1> DEFINE k == drain[d]
<1>1. k \in DrainRec /\ k.queue \in 0..MaxCreated /\ queue \in [Sub -> Seq(Nat)]
  BY DEF RecsOK, DrainRec
<1>2. /\ k.step # "idle" /\ UNCHANGED <<bus, pub, past>> /\ events' = events
      /\ \/ \E st \in {"run", "leave"} : drain' = [drain EXCEPT ![d].step = st] /\ queue' = queue
         \/ drain' = [drain EXCEPT ![d].step = "receive", ![d].event = 0] /\ queue' = queue
         \/ /\ drain' = [drain EXCEPT ![d].step = "check", ![d].event = Head(queue[k.queue])]
            /\ queue' = [queue EXCEPT ![k.queue] = Tail(@)] /\ queue[k.queue] # <<>>
  BY DEF Receive, TimeOut, Drained, Empty, Check, Handle
<1>3. k.queue \in Sub
  BY <1>1, <1>2 DEF IdlePinsNothing, Sub
<1>4. PICK j : /\ drain' = [drain EXCEPT ![d] = j] /\ j \in DrainRec
               /\ j.pos = k.pos /\ j.queue = k.queue /\ j.gen = k.gen /\ j.step # "idle"
  <2>1. ASSUME NEW st \in {"run", "leave"}, drain' = [drain EXCEPT ![d].step = st]
        PROVE \E j \in DrainRec : /\ drain' = [drain EXCEPT ![d] = j]
                                  /\ j.pos = k.pos /\ j.queue = k.queue /\ j.gen = k.gen /\ j.step # "idle"
    <3>1. [k EXCEPT !.step = st] \in DrainRec
      BY <1>1, DrainChange
    <3>2. /\ [k EXCEPT !.step = st].pos = k.pos /\ [k EXCEPT !.step = st].queue = k.queue
          /\ [k EXCEPT !.step = st].gen = k.gen /\ [k EXCEPT !.step = st].step = st
      BY <1>1 DEF DrainRec
    <3>q. QED BY <2>1, <3>1, <3>2
  <2>2. ASSUME NEW st \in {"receive", "check"}, NEW e \in Nat,
               drain' = [drain EXCEPT ![d].step = st, ![d].event = e]
        PROVE \E j \in DrainRec : /\ drain' = [drain EXCEPT ![d] = j]
                                  /\ j.pos = k.pos /\ j.queue = k.queue /\ j.gen = k.gen /\ j.step # "idle"
    <3>1. [k EXCEPT !.step = st, !.event = e] \in DrainRec
      BY <1>1, DrainChange
    <3>2. /\ [k EXCEPT !.step = st, !.event = e].pos = k.pos
          /\ [k EXCEPT !.step = st, !.event = e].queue = k.queue
          /\ [k EXCEPT !.step = st, !.event = e].gen = k.gen
          /\ [k EXCEPT !.step = st, !.event = e].step = st
      BY <1>1 DEF DrainRec
    <3>3. drain' = [drain EXCEPT ![d] = [k EXCEPT !.step = st, !.event = e]]
      BY <2>2 DEF RecsOK
    <3>q. QED BY <3>1, <3>2, <3>3
  <2>3. queue[k.queue] # <<>> => Head(queue[k.queue]) \in Nat
    BY <1>1, <1>3
  <2>q. QED BY <1>2, <2>1, <2>2, <2>3
<1>5. /\ drain' \in [Drainer -> DrainRec]
      /\ \A q \in Drainer : drain'[q] = IF q = d THEN j ELSE drain[q]
  BY <1>4 DEF RecsOK
<1>6. Quiet
  BY <1>2, <1>4, <1>5 DEF Quiet, RecsOK, bus
<1>7. queue' \in [Sub -> Seq(Nat)]
  <2>1. queue[k.queue] # <<>> => [queue EXCEPT ![k.queue] = Tail(@)] \in [Sub -> Seq(Nat)]
    BY <1>1, QueueChange
  <2>q. QED BY <1>1, <1>2, <2>1
<1>q. QED BY <1>2, <1>5, <1>6, <1>7 DEF RecsOK, bus, past

LEMMA QuietKeeps ==
    ASSUME PinInv, Quiet
    PROVE (IdlePinsNothing /\ AliveHasQueue /\ UsersCounted /\ QueuesOutliveUsers)'
<1>1. \A i \in Pos : Users(i)' = Users(i)
  BY DEF Quiet, Users
<1>2. IdlePinsNothing' /\ AliveHasQueue'
  BY DEF PinInv, Quiet, IdlePinsNothing, AliveHasQueue
<1>3. UsersCounted'
  BY <1>1 DEF PinInv, Quiet, UsersCounted
<1>4. QueuesOutliveUsers'
  BY DEF PinInv, Quiet, QueuesOutliveUsers
<1>q. QED BY <1>2, <1>3, <1>4

-----------------------------------------------------------------------------
\* Steps on the table that pin nothing: subscribe and unsubscribe.

LEMMA NoUsersWithoutCount ==
    ASSUME PinInv, NEW i \in Pos, slot[i].inflight = 0 PROVE Users(i) = {}
BY CountZero DEF PinInv, UsersCounted

LEMMA TableKeeps ==
    ASSUME PinInv, UNCHANGED <<pub, drain>>,
           \A i \in Pos : /\ slot'[i].inflight = slot[i].inflight
                          /\ slot[i].inflight # 0 => slot'[i].queue = slot[i].queue
                          /\ slot'[i].alive => slot'[i].queue # 0
    PROVE (IdlePinsNothing /\ AliveHasQueue /\ UsersCounted /\ QueuesOutliveUsers)'
<1>1. IdlePinsNothing' /\ AliveHasQueue'
  BY DEF PinInv, IdlePinsNothing, AliveHasQueue
<1>2. UsersCounted'
  BY DEF PinInv, UsersCounted, Users
<1>3. \A i \in Pos : Users(i) # {} => slot'[i].queue = slot[i].queue
  BY NoUsersWithoutCount
<1>4. ASSUME NEW p \in Publisher, NEW i \in Pos, pub'[p].target[i] # 0
      PROVE slot'[i].queue = pub'[p].target[i]
  BY <1>3, <1>4 DEF PinInv, QueuesOutliveUsers, Users
<1>5. ASSUME NEW d \in Drainer, drain'[d].step # "idle"
      PROVE slot'[drain'[d].pos].queue = drain'[d].queue
  <2>1. drain[d].pos \in Pos /\ d \in Users(drain[d].pos)
    BY <1>5 DEF PinInv, IdlePinsNothing, Users
  <2>q. QED BY <1>3, <1>5, <2>1 DEF PinInv, QueuesOutliveUsers
<1>q. QED BY <1>1, <1>2, <1>4, <1>5 DEF QueuesOutliveUsers

LEMMA SubscribeSteps ==
    ASSUME PinInv, Subscribe
    PROVE PinInv'
<1> DEFINE R == Reaped(slot)
<1>1. PICK i \in Pos :
          /\ IsFree(R[i])
          /\ slot' = [R EXCEPT ![i] = Made(@)]
          /\ handle' = [handle EXCEPT ![created + 1] = [pos |-> i, gen |-> slot'[i].gen]]
  BY DEF Subscribe
<1>2. created \in Nat /\ created < MaxCreated /\ created' = created + 1 /\ UNCHANGED <<pub, drain, events>>
      /\ queue' = Remaining(queue, slot)
  BY BusConstants DEF Subscribe, PinInv, RecsOK
<1>3. /\ R \in [Pos -> SlotRec]
      /\ \A j \in Pos : /\ R[j].inflight = slot[j].inflight /\ R[j].alive = slot[j].alive
                        /\ R[j].queue = slot[j].queue \/ (R[j].queue = 0 /\ ~slot[j].alive /\ slot[j].inflight = 0)
  BY ReapedSlot DEF PinInv, RecsOK
<1> DEFINE e == Made(R[i])
<1>4. /\ e \in SlotRec /\ e.inflight = R[i].inflight /\ e.queue = created + 1 /\ e.gen \in 0..(GenMod - 1)
  <2>1. R[i] \in SlotRec /\ created + 1 \in 0..MaxCreated
    BY <1>2, <1>3, BusConstants
  <2>2. Bump(R[i].gen) \in 0..(GenMod - 1)
    BY <2>1, BumpType DEF SlotRec
  <2>q. QED BY <2>1, <2>2 DEF SlotRec, Made
<1> HIDE DEF R
<1>a. slot' = [R EXCEPT ![i] = e]
  BY <1>1
<1> HIDE DEF e
<1>5. /\ slot' \in [Pos -> SlotRec]
      /\ \A j \in Pos : slot'[j] = IF j = i THEN e ELSE R[j]
  BY <1>a, <1>3, <1>4
<1>6. slot[i].inflight = 0
  <2>1. R[i].queue = 0 /\ ~R[i].alive
    BY <1>1 DEF IsFree
  <2>2. CASE slot[i].queue = 0
    <3>1. \A p \in Publisher : pub[p].target[i] = 0
      BY <2>2 DEF PinInv, QueuesOutliveUsers
    <3>2. \A d \in Drainer : drain[d].pos # i
      BY <2>2 DEF PinInv, QueuesOutliveUsers, IdlePinsNothing, Pos
    <3>3. Users(i) = {}
      BY <3>1, <3>2 DEF Users
    <3>q. QED BY <3>3, FS_EmptySet DEF PinInv, UsersCounted
  <2>3. CASE slot[i].queue # 0
    BY <1>3, <2>1, <2>3
  <2>q. QED BY <2>2, <2>3
<1>7. \A j \in Pos : /\ slot'[j].inflight = slot[j].inflight
                     /\ slot[j].inflight # 0 => slot'[j].queue = slot[j].queue
                     /\ slot'[j].alive => slot'[j].queue # 0
  <2> SUFFICES ASSUME NEW j \in Pos
               PROVE /\ slot'[j].inflight = slot[j].inflight
                     /\ slot[j].inflight # 0 => slot'[j].queue = slot[j].queue
                     /\ slot'[j].alive => slot'[j].queue # 0
    OBVIOUS
  <2>1. CASE j = i
    BY <1>2, <1>3, <1>4, <1>5, <1>6, <2>1
  <2>2. CASE j # i
    BY <1>3, <1>5, <2>2 DEF PinInv, AliveHasQueue
  <2>q. QED BY <2>1, <2>2
<1>8. RecsOK'
  <2>1. queue' \in [Sub -> Seq(Nat)]
    BY <1>2, RemainingType DEF PinInv, RecsOK
  <2>2. /\ handle' \in [Sub -> [pos : 0..MaxSubs, gen : 0..(GenMod - 1)]]
        /\ \A s \in 1..created' : handle'[s].pos \in Pos
    <3>1. [pos |-> i, gen |-> slot'[i].gen] \in [pos : 0..MaxSubs, gen : 0..(GenMod - 1)]
      BY <1>4, <1>5 DEF Pos
    <3>2. created + 1 \in Sub
      BY <1>2, BusConstants DEF Sub
    <3>q. QED BY <1>1, <1>2, <3>1, <3>2, BusConstants DEF PinInv, RecsOK
  <2>3. created' \in 0..MaxCreated
    BY <1>2, BusConstants
  <2>q. QED BY <1>2, <1>5, <2>1, <2>2, <2>3 DEF PinInv, RecsOK
<1>q. QED BY <1>2, <1>7, <1>8, TableKeeps DEF PinInv

LEMMA SubscribeFailsSteps ==
    ASSUME PinInv, SubscribeFails
    PROVE PinInv'
<1>1. /\ slot' = Reaped(slot) /\ queue' = Remaining(queue, slot)
      /\ UNCHANGED <<pub, drain, events, created, handle>>
  BY DEF SubscribeFails, past
<1>2. /\ slot' \in [Pos -> SlotRec]
      /\ \A j \in Pos : /\ slot'[j].inflight = slot[j].inflight
                        /\ slot[j].inflight # 0 => slot'[j].queue = slot[j].queue
                        /\ slot'[j].alive => slot'[j].queue # 0
  <2>1. /\ Reaped(slot) \in [Pos -> SlotRec]
        /\ \A j \in Pos : /\ Reaped(slot)[j].inflight = slot[j].inflight
                          /\ Reaped(slot)[j].alive = slot[j].alive
                          /\ \/ Reaped(slot)[j].queue = slot[j].queue
                             \/ ~slot[j].alive /\ slot[j].inflight = 0
    BY ReapedSlot DEF PinInv, RecsOK
  <2>2. \A j \in Pos : slot[j].alive => slot[j].queue # 0
    BY DEF PinInv, AliveHasQueue
  <2>q. QED BY <1>1, <2>1, <2>2
<1>3. RecsOK'
  BY <1>1, <1>2, RemainingType DEF PinInv, RecsOK
<1>q. QED BY <1>1, <1>2, <1>3, TableKeeps DEF PinInv

LEMMA UnsubscribeSteps ==
    ASSUME PinInv, NEW s \in Sub, Unsubscribe(s)
    PROVE PinInv'
<1>0. s \in 1..created /\ Valid(s) /\ handle[s].pos \in Pos
  BY DEF Unsubscribe, PinInv, RecsOK
<1> DEFINE i == handle[s].pos
           e == [slot[i] EXCEPT !.alive = FALSE, !.gen = Bump(@)]
<1>1. /\ e \in SlotRec /\ [e EXCEPT !.queue = 0] \in SlotRec
      /\ e.inflight = slot[i].inflight /\ e.queue = slot[i].queue /\ ~e.alive
      /\ [e EXCEPT !.queue = 0].inflight = slot[i].inflight /\ ~[e EXCEPT !.queue = 0].alive
  <2>1. slot[i] \in SlotRec
    BY <1>0 DEF PinInv, RecsOK
  <2>2. Bump(slot[i].gen) \in 0..(GenMod - 1) /\ 0 \in 0..MaxCreated
    BY <2>1, BumpType, BusConstants DEF SlotRec
  <2>q. QED BY <2>1, <2>2 DEF SlotRec
<1>2. /\ UNCHANGED <<pub, drain, events, created, handle>>
      /\ \/ slot[i].inflight = 0 /\ slot' = [slot EXCEPT ![i] = [e EXCEPT !.queue = 0]]
            /\ queue' = [queue EXCEPT ![e.queue] = <<>>]
         \/ slot' = [slot EXCEPT ![i] = e] /\ queue' = [queue EXCEPT ![e.queue] = Sent(@, Poison)]
  BY <1>1 DEF Unsubscribe
<1> HIDE DEF e
<1>3. queue' \in [Sub -> Seq(Nat)]
  <2>1. /\ [queue EXCEPT ![e.queue] = <<>>] \in [Sub -> Seq(Nat)]
        /\ [queue EXCEPT ![e.queue] = Sent(@, Poison)] \in [Sub -> Seq(Nat)]
    BY QueueChange DEF PinInv, RecsOK, Poison
  <2>q. QED BY <1>2, <2>1
<1>4. PICK f \in SlotRec : /\ slot' = [slot EXCEPT ![i] = f] /\ ~f.alive /\ f.inflight = slot[i].inflight
                           /\ slot[i].inflight # 0 => f.queue = slot[i].queue
  BY <1>1, <1>2
<1>5. /\ slot' \in [Pos -> SlotRec]
      /\ \A j \in Pos : slot'[j] = IF j = i THEN f ELSE slot[j]
  BY <1>4 DEF PinInv, RecsOK
<1>6. \A j \in Pos : /\ slot'[j].inflight = slot[j].inflight
                     /\ slot[j].inflight # 0 => slot'[j].queue = slot[j].queue
                     /\ slot'[j].alive => slot'[j].queue # 0
  BY <1>4, <1>5 DEF PinInv, AliveHasQueue
<1>7. RecsOK'
  BY <1>2, <1>3, <1>5 DEF PinInv, RecsOK
<1>q. QED BY <1>2, <1>6, <1>7, TableKeeps DEF PinInv
-----------------------------------------------------------------------------
\* Steps that take a pin or give one back.

LEMMA OneUser ==
    ASSUME NEW S, IsFiniteSet(S), NEW x
    PROVE /\ Cardinality(S) \in Nat
          /\ x \notin S => Cardinality(S \cup {x}) = Cardinality(S) + 1
          /\ x \in S => Cardinality(S \ {x}) = Cardinality(S) - 1 /\ Cardinality(S) # 0
<1>1. Cardinality(S) \in Nat
  BY FS_CardinalityType
<1>2. x \notin S => Cardinality(S \cup {x}) = Cardinality(S) + 1
  BY FS_AddElement
<1>3. x \in S => Cardinality(S \ {x}) = Cardinality(S) - 1
  BY FS_RemoveElement
<1>4. x \in S => Cardinality(S) # 0
  BY FS_EmptySet
<1>q. QED BY <1>1, <1>2, <1>3, <1>4

LEMMA PinTaken ==
    ASSUME PinInv, NEW T, NEW x,
           \A i \in Pos : slot'[i] = IF i \in T THEN Pinning(slot[i]) ELSE slot[i],
           \A i \in Pos : x \notin Users(i) /\ Users(i)' = IF i \in T THEN Users(i) \cup {x} ELSE Users(i)
    PROVE (AliveHasQueue /\ UsersCounted)'
<1>1. \A i \in Pos : slot[i] \in SlotRec
  BY DEF PinInv, RecsOK
<1>2. AliveHasQueue'
  BY <1>1, SlotChange DEF PinInv, AliveHasQueue
<1>3. ASSUME NEW i \in Pos PROVE slot'[i].inflight = Cardinality(Users(i)')
  <2>1. CASE i \in T
    <3>1. slot'[i].inflight = slot[i].inflight + 1
      BY <1>1, <2>1, SlotChange
    <3>2. Cardinality(Users(i) \cup {x}) = Cardinality(Users(i)) + 1
      BY OneUser, FiniteUsers
    <3>q. QED BY <2>1, <3>1, <3>2 DEF PinInv, UsersCounted
  <2>2. CASE i \notin T
    BY <2>2 DEF PinInv, UsersCounted
  <2>q. QED BY <2>1, <2>2
<1>q. QED BY <1>2, <1>3 DEF UsersCounted

\* A table whose user x is gone.
Without(x, table) ==
    /\ table \in [Pos -> SlotRec]
    /\ \A i \in Pos : /\ table[i].queue = slot[i].queue /\ table[i].alive = slot[i].alive
                      /\ table[i].inflight = IF x \in Users(i) THEN slot[i].inflight - 1 ELSE slot[i].inflight

LEMMA PinGivenBack ==
    ASSUME PinInv, NEW x, NEW table, Without(x, table), slot' = Reaped(table),
           \A i \in Pos : Users(i)' = Users(i) \ {x},
           \A p \in Publisher : \A i \in Pos : pub'[p].target[i] # 0 => pub'[p].target[i] = pub[p].target[i],
           \A d \in Drainer : drain'[d].step # "idle" => drain'[d] = drain[d]
    PROVE /\ slot' \in [Pos -> SlotRec]
          /\ (AliveHasQueue /\ UsersCounted /\ QueuesOutliveUsers)'
<1>1. /\ slot' \in [Pos -> SlotRec]
      /\ \A i \in Pos : /\ slot'[i].inflight = table[i].inflight
                        /\ slot'[i].alive = slot[i].alive
                        /\ \/ slot'[i].queue = slot[i].queue
                           \/ ~slot[i].alive /\ slot'[i].inflight = 0
  <2>1. /\ Reaped(table) \in [Pos -> SlotRec]
        /\ \A i \in Pos : /\ Reaped(table)[i].inflight = table[i].inflight
                          /\ Reaped(table)[i].alive = table[i].alive
                          /\ \/ Reaped(table)[i].queue = table[i].queue
                             \/ ~table[i].alive /\ table[i].inflight = 0
    BY ReapedSlot DEF Without
  <2>q. QED BY <2>1 DEF Without
<1>2. AliveHasQueue'
  BY <1>1 DEF PinInv, AliveHasQueue
<1>3. ASSUME NEW i \in Pos PROVE slot'[i].inflight = Cardinality(Users(i)')
  <2>1. CASE x \in Users(i)
    <3>1. Cardinality(Users(i) \ {x}) = Cardinality(Users(i)) - 1
      BY <2>1, OneUser, FiniteUsers
    <3>q. QED BY <1>1, <2>1, <3>1 DEF PinInv, UsersCounted, Without
  <2>2. CASE x \notin Users(i)
    <3>1. Users(i) \ {x} = Users(i)
      BY <2>2
    <3>2. slot'[i].inflight = slot[i].inflight
      BY <1>1, <2>2 DEF Without
    <3>q. QED BY <3>1, <3>2 DEF PinInv, UsersCounted
  <2>q. QED BY <2>1, <2>2
<1>4. \A i \in Pos : Users(i)' # {} => slot'[i].queue = slot[i].queue
  <2> SUFFICES ASSUME NEW i \in Pos, Users(i)' # {} PROVE slot'[i].queue = slot[i].queue
    OBVIOUS
  <2>1. IsFiniteSet(Users(i)')
    BY FiniteUsers, FS_RemoveElement
  <2>2. Cardinality(Users(i)') # 0
    BY <2>1, FS_EmptySet
  <2>q. QED BY <1>1, <1>3, <2>2
<1>5. ASSUME NEW p \in Publisher, NEW i \in Pos, pub'[p].target[i] # 0
      PROVE slot'[i].queue = pub'[p].target[i]
  <2>1. p \in Users(i)'
    BY <1>5 DEF Users
  <2>2. slot[i].queue = pub[p].target[i]
    BY <1>5 DEF PinInv, QueuesOutliveUsers
  <2>q. QED BY <1>4, <1>5, <2>1, <2>2
<1>6. ASSUME NEW d \in Drainer, drain'[d].step # "idle"
      PROVE slot'[drain'[d].pos].queue = drain'[d].queue
  <2>1. drain'[d] = drain[d] /\ drain[d].pos \in Pos
    BY <1>6 DEF PinInv, IdlePinsNothing
  <2>2. d \in Users(drain[d].pos)'
    BY <2>1 DEF Users
  <2>3. slot[drain[d].pos].queue = drain[d].queue
    BY <1>6, <2>1 DEF PinInv, QueuesOutliveUsers
  <2>q. QED BY <1>4, <2>1, <2>2, <2>3
<1>q. QED BY <1>1, <1>2, <1>3, <1>5, <1>6 DEF UsersCounted, QueuesOutliveUsers

LEMMA PublishSteps ==
    ASSUME PinInv, NEW p \in Publisher, Publish(p)
    PROVE PinInv'
<1> DEFINE T == {i \in 1..hwm : slot[i].alive /\ slot[i].queue # 0}
           j == IF T = {} THEN NoPublish ELSE
                 [step |-> "send", event |-> events + 1, left |-> T,
                  target |-> [i \in Pos |-> IF i \in T THEN slot[i].queue ELSE 0]]
<1>1. /\ pub[p].step = "idle" /\ UNCHANGED <<queue, drain, created, handle>> /\ events' = events + 1
      /\ slot' = [i \in Pos |-> IF i \in T THEN Pinning(slot[i]) ELSE slot[i]]
      /\ pub' = [pub EXCEPT ![p] = j]
  BY DEF Publish, past
<1>2. \A i \in Pos : slot[i] \in SlotRec /\ slot[i].queue \in 0..MaxCreated
  BY DEF PinInv, RecsOK, SlotRec
<1>3. /\ j \in PubRec /\ \A i \in Pos : j.target[i] = IF i \in T THEN slot[i].queue ELSE 0
      /\ j.step = "idle" => \A i \in Pos : j.target[i] = 0
  <2>1. CASE T = {}
    <3>1. NoPublish \in PubRec /\ \A i \in Pos : NoPublish.target[i] = 0
      BY PubChange DEF PinInv, RecsOK, NoPublish
    <3>q. QED BY <2>1, <3>1
  <2>2. CASE T # {}
    <3>1. [i \in Pos |-> IF i \in T THEN slot[i].queue ELSE 0] \in [Pos -> 0..MaxCreated]
      BY <1>2, BusConstants
    <3>2. T \in SUBSET Int /\ events + 1 \in Nat
      BY DEF PinInv, RecsOK
    <3> HIDE DEF T
    <3>q. QED BY <2>2, <3>1, <3>2 DEF PubRec
  <2>q. QED BY <2>1, <2>2
<1>4. \A i \in T : slot[i].queue # 0
  OBVIOUS
<1> HIDE DEF T, j
<1>5. /\ pub' \in [Publisher -> PubRec]
      /\ \A q \in Publisher : pub'[q] = IF q = p THEN j ELSE pub[q]
  BY <1>1, <1>3 DEF PinInv, RecsOK
<1>6. /\ slot' \in [Pos -> SlotRec]
      /\ \A i \in Pos : slot'[i] = IF i \in T THEN Pinning(slot[i]) ELSE slot[i]
  BY <1>1, <1>2, SlotChange
<1>7. \A i \in Pos : pub[p].target[i] = 0
  BY <1>1 DEF PinInv, IdlePinsNothing
<1>8. \A i \in Pos : p \notin Users(i) /\ Users(i)' = IF i \in T THEN Users(i) \cup {p} ELSE Users(i)
  <2> SUFFICES ASSUME NEW i \in Pos
               PROVE p \notin Users(i) /\ Users(i)' = IF i \in T THEN Users(i) \cup {p} ELSE Users(i)
    OBVIOUS
  <2>1. p \notin Users(i)
    BY <1>7, BusConstants DEF Users
  <2>2. \A q \in Publisher : pub'[q].target[i] # 0 <=> (q = p /\ i \in T) \/ pub[q].target[i] # 0
    BY <1>3, <1>4, <1>5, <1>7
  <2>3. drain' = drain
    BY <1>1
  <2>q. QED BY <2>1, <2>2, <2>3 DEF Users
<1>9. (AliveHasQueue /\ UsersCounted)'
  BY <1>6, <1>8, PinTaken
<1>10. \A i \in Pos : slot'[i].queue = slot[i].queue
  BY <1>2, <1>6, SlotChange
<1>11. QueuesOutliveUsers'
  <2>1. ASSUME NEW q \in Publisher, NEW i \in Pos, pub'[q].target[i] # 0
        PROVE slot'[i].queue = pub'[q].target[i]
    BY <1>3, <1>5, <1>10, <2>1 DEF PinInv, QueuesOutliveUsers
  <2>2. ASSUME NEW d \in Drainer, drain'[d].step # "idle"
        PROVE slot'[drain'[d].pos].queue = drain'[d].queue
    BY <1>1, <1>10, <2>2 DEF PinInv, QueuesOutliveUsers, IdlePinsNothing
  <2>q. QED BY <2>1, <2>2 DEF QueuesOutliveUsers
<1>12. IdlePinsNothing'
  BY <1>1, <1>3, <1>5 DEF PinInv, IdlePinsNothing
<1>13. RecsOK'
  BY <1>1, <1>5, <1>6 DEF PinInv, RecsOK
<1>q. QED BY <1>9, <1>11, <1>12, <1>13 DEF PinInv

LEMMA FinishSteps ==
    ASSUME PinInv, NEW p \in Publisher, Finish(p)
    PROVE PinInv'
<1> DEFINE table == [i \in Pos |-> IF pub[p].target[i] # 0 THEN Unpinned(slot[i]) ELSE slot[i]]
<1>1. /\ slot' = Reaped(table) /\ queue' = Remaining(queue, table)
      /\ pub' = [pub EXCEPT ![p] = NoPublish] /\ UNCHANGED <<drain, events, created, handle>>
  BY DEF Finish, past
<1>2. \A i \in Pos : p \in Users(i) <=> pub[p].target[i] # 0
  BY BusConstants DEF Users
<1>3. Without(p, table)
  <2>1. ASSUME NEW i \in Pos
        PROVE /\ table[i] \in SlotRec /\ table[i].queue = slot[i].queue /\ table[i].alive = slot[i].alive
              /\ table[i].inflight = IF p \in Users(i) THEN slot[i].inflight - 1 ELSE slot[i].inflight
    <3>1. slot[i] \in SlotRec
      BY DEF PinInv, RecsOK
    <3>2. p \in Users(i) => slot[i].inflight # 0
      BY OneUser, FiniteUsers DEF PinInv, UsersCounted
    <3>3. table[i] = IF p \in Users(i) THEN Unpinned(slot[i]) ELSE slot[i]
      BY <1>2
    <3> HIDE DEF table
    <3>q. QED BY <3>1, <3>2, <3>3, SlotChange
  <2>2. table \in [Pos -> SlotRec]
    BY <2>1
  <2> HIDE DEF table
  <2>q. QED BY <2>1, <2>2 DEF Without
<1> HIDE DEF table
<1>4. NoPublish \in PubRec /\ NoPublish.step = "idle" /\ \A i \in Pos : NoPublish.target[i] = 0
  BY PubChange DEF PinInv, RecsOK, NoPublish
<1>5. /\ pub' \in [Publisher -> PubRec]
      /\ \A q \in Publisher : pub'[q] = IF q = p THEN NoPublish ELSE pub[q]
  BY <1>1, <1>4 DEF PinInv, RecsOK
<1>6. \A i \in Pos : Users(i)' = Users(i) \ {p}
  BY <1>1, <1>4, <1>5, BusConstants DEF Users
<1>7. /\ slot' \in [Pos -> SlotRec]
      /\ (AliveHasQueue /\ UsersCounted /\ QueuesOutliveUsers)'
  BY <1>1, <1>3, <1>4, <1>5, <1>6, PinGivenBack
<1>8. IdlePinsNothing'
  BY <1>1, <1>4, <1>5 DEF PinInv, IdlePinsNothing
<1>9. RecsOK'
  BY <1>1, <1>5, <1>7, RemainingType DEF PinInv, RecsOK
<1>q. QED BY <1>7, <1>8, <1>9 DEF PinInv
LEMMA DrainBeginSteps ==
    ASSUME PinInv, NEW d \in Drainer, NEW s \in Sub, DrainBegin(d, s)
    PROVE PinInv'
<1> DEFINE i == handle[s].pos
           k == [step |-> IF d = Pump THEN "receive" ELSE "wait",
                 pos |-> i, gen |-> handle[s].gen, queue |-> slot[i].queue, event |-> 0]
<1>1. /\ drain[d].step = "idle" /\ UNCHANGED <<queue, pub, events, created, handle>>
      /\ s \in 1..created /\ slot[i].queue # 0 /\ slot' = [slot EXCEPT ![i] = Pinning(@)]
      /\ drain' = [drain EXCEPT ![d] = k]
  BY DEF DrainBegin, past
<1>2. i \in Pos /\ slot[i] \in SlotRec
  BY <1>1 DEF PinInv, RecsOK
<1>3. k \in DrainRec /\ k.pos = i /\ k.queue = slot[i].queue /\ k.step # "idle"
  <2>1. handle[s].gen \in 0..(GenMod - 1) /\ i \in 0..MaxSubs /\ slot[i].queue \in 0..MaxCreated
    BY <1>2 DEF PinInv, RecsOK, SlotRec
  <2>q. QED BY <2>1 DEF DrainRec
<1> HIDE DEF k
<1>4. /\ drain' \in [Drainer -> DrainRec]
      /\ \A q \in Drainer : drain'[q] = IF q = d THEN k ELSE drain[q]
  BY <1>1, <1>3 DEF PinInv, RecsOK
<1>5. /\ slot' \in [Pos -> SlotRec]
      /\ \A n \in Pos : slot'[n] = IF n \in {i} THEN Pinning(slot[n]) ELSE slot[n]
  BY <1>1, <1>2, SlotChange DEF PinInv, RecsOK
<1>6. \A n \in Pos : d \notin Users(n) /\ Users(n)' = IF n \in {i} THEN Users(n) \cup {d} ELSE Users(n)
  <2>1. drain[d].pos = 0
    BY <1>1 DEF PinInv, IdlePinsNothing
  <2> SUFFICES ASSUME NEW n \in Pos
               PROVE d \notin Users(n) /\ Users(n)' = IF n \in {i} THEN Users(n) \cup {d} ELSE Users(n)
    OBVIOUS
  <2>2. d \notin Users(n)
    BY <2>1, BusConstants DEF Users, Pos
  <2>3. \A q \in Drainer : drain'[q].pos = n <=> (q = d /\ n = i) \/ drain[q].pos = n
    BY <1>3, <1>4, <2>1 DEF Pos
  <2>4. pub' = pub
    BY <1>1
  <2>q. QED BY <2>2, <2>3, <2>4 DEF Users
<1>7. (AliveHasQueue /\ UsersCounted)'
  BY <1>5, <1>6, PinTaken
<1>8. \A n \in Pos : slot'[n].queue = slot[n].queue
  <2>1. \A n \in Pos : slot[n] \in SlotRec
    BY DEF PinInv, RecsOK
  <2>q. QED BY <1>5, <2>1, SlotChange
<1>9. QueuesOutliveUsers'
  <2>1. ASSUME NEW q \in Publisher, NEW n \in Pos, pub'[q].target[n] # 0
        PROVE slot'[n].queue = pub'[q].target[n]
    BY <1>1, <1>8, <2>1 DEF PinInv, QueuesOutliveUsers
  <2>2. ASSUME NEW q \in Drainer, drain'[q].step # "idle"
        PROVE slot'[drain'[q].pos].queue = drain'[q].queue
    BY <1>2, <1>3, <1>4, <1>8, <2>2 DEF PinInv, QueuesOutliveUsers, IdlePinsNothing
  <2>q. QED BY <2>1, <2>2 DEF QueuesOutliveUsers
<1>10. IdlePinsNothing'
  BY <1>1, <1>2, <1>3, <1>4 DEF PinInv, IdlePinsNothing
<1>11. RecsOK'
  BY <1>1, <1>4, <1>5 DEF PinInv, RecsOK
<1>q. QED BY <1>7, <1>9, <1>10, <1>11 DEF PinInv

LEMMA LeaveSteps ==
    ASSUME PinInv, NEW d \in Drainer, Leave(d)
    PROVE PinInv'
<1> DEFINE i == drain[d].pos
           table == [slot EXCEPT ![i] = Unpinned(@)]
<1>1. /\ drain[d].step = "leave" /\ UNCHANGED <<pub, events, created, handle>>
      /\ slot' = Reaped(table) /\ queue' = Remaining(HandedOn(queue, table[i]), table)
      /\ drain' = [drain EXCEPT ![d] = NoDrain]
  BY DEF Leave, past
<1>2. i \in Pos /\ d \in Users(i) /\ \A n \in Pos : d \in Users(n) <=> n = i
  BY <1>1, BusConstants DEF PinInv, IdlePinsNothing, Users
<1>3. Without(d, table)
  <2>1. slot[i] \in SlotRec /\ slot[i].inflight # 0
    BY <1>2, OneUser, FiniteUsers DEF PinInv, RecsOK, UsersCounted
  <2>2. /\ Unpinned(slot[i]) \in SlotRec /\ Unpinned(slot[i]).queue = slot[i].queue
        /\ Unpinned(slot[i]).alive = slot[i].alive /\ Unpinned(slot[i]).inflight = slot[i].inflight - 1
    BY <2>1, SlotChange
  <2>3. /\ table \in [Pos -> SlotRec]
        /\ \A n \in Pos : table[n] = IF n = i THEN Unpinned(slot[i]) ELSE slot[n]
    BY <2>2, <1>2 DEF PinInv, RecsOK
  <2> HIDE DEF table
  <2>4. ASSUME NEW n \in Pos
        PROVE /\ table[n].queue = slot[n].queue /\ table[n].alive = slot[n].alive
              /\ table[n].inflight = IF d \in Users(n) THEN slot[n].inflight - 1 ELSE slot[n].inflight
    <3>1. CASE n = i
      BY <1>2, <2>2, <2>3, <3>1
    <3>2. CASE n # i
      BY <1>2, <2>3, <3>2
    <3>q. QED BY <3>1, <3>2
  <2>q. QED BY <2>3, <2>4 DEF Without
<1>4. queue' \in [Sub -> Seq(Nat)]
  <2>1. HandedOn(queue, table[i]) \in [Sub -> Seq(Nat)]
    BY QueueChange DEF PinInv, RecsOK, HandedOn, Poison
  <2>q. QED BY <1>1, <2>1, RemainingType
<1> HIDE DEF table
<1>5. NoDrain \in DrainRec /\ NoDrain.step = "idle" /\ NoDrain.pos = 0
  BY DrainChange DEF PinInv, RecsOK, NoDrain
<1>6. /\ drain' \in [Drainer -> DrainRec]
      /\ \A q \in Drainer : drain'[q] = IF q = d THEN NoDrain ELSE drain[q]
  BY <1>1, <1>5 DEF PinInv, RecsOK
<1>7. \A n \in Pos : Users(n)' = Users(n) \ {d}
  BY <1>1, <1>5, <1>6, BusConstants DEF Users, Pos
<1>8. \A q \in Drainer : drain'[q].step # "idle" => drain'[q] = drain[q]
  BY <1>5, <1>6
<1>9. /\ slot' \in [Pos -> SlotRec]
      /\ (AliveHasQueue /\ UsersCounted /\ QueuesOutliveUsers)'
  BY <1>1, <1>3, <1>7, <1>8, PinGivenBack
<1>10. IdlePinsNothing'
  BY <1>1, <1>5, <1>6 DEF PinInv, IdlePinsNothing
<1>11. RecsOK'
  BY <1>1, <1>4, <1>6, <1>9 DEF PinInv, RecsOK
<1>q. QED BY <1>9, <1>10, <1>11 DEF PinInv

-----------------------------------------------------------------------------
LEMMA PinInit == Init => PinInv
<1> SUFFICES ASSUME Init PROVE PinInv
  OBVIOUS
<1>1. /\ slot \in [Pos -> SlotRec]
      /\ \A i \in Pos : slot[i].inflight = 0 /\ ~slot[i].alive
  <2>1. [queue |-> 0, gen |-> 0, inflight |-> 0, alive |-> FALSE] \in SlotRec
    BY BusConstants DEF SlotRec
  <2>q. QED BY <2>1 DEF Init
<1>2. /\ NoPublish \in PubRec /\ NoPublish.step = "idle" /\ \A i \in Pos : NoPublish.target[i] = 0
      /\ NoDrain \in DrainRec /\ NoDrain.step = "idle" /\ NoDrain.pos = 0
  <2>1. 0 \in 0..MaxSubs /\ 0 \in 0..(GenMod - 1) /\ 0 \in 0..MaxCreated
        /\ {} \in SUBSET Int /\ [i \in Pos |-> 0] \in [Pos -> 0..MaxCreated]
    BY BusConstants
  <2>q. QED BY <2>1 DEF NoPublish, NoDrain, PubRec, DrainRec
<1>3. RecsOK
  <2>1. [pos |-> 0, gen |-> 0] \in [pos : 0..MaxSubs, gen : 0..(GenMod - 1)] /\ created = 0
        /\ <<>> \in Seq(Nat) /\ 0 \in 0..MaxCreated
    BY BusConstants DEF Init
  <2>q. QED BY <1>1, <1>2, <2>1 DEF Init, RecsOK
<1>4. IdlePinsNothing /\ AliveHasQueue
  BY <1>1, <1>2 DEF Init, IdlePinsNothing, AliveHasQueue
<1>5. QueuesOutliveUsers
  BY <1>2 DEF Init, QueuesOutliveUsers
<1>6. \A i \in Pos : Users(i) = {}
  BY <1>2 DEF Init, Users, Pos
<1>7. UsersCounted
  BY <1>1, <1>6, FS_EmptySet DEF UsersCounted
<1>q. QED BY <1>3, <1>4, <1>5, <1>7 DEF PinInv

LEMMA PinNext == PinInv /\ [Next]_vars => PinInv'
<1> SUFFICES ASSUME PinInv, [Next]_vars PROVE PinInv'
  OBVIOUS
<1>1. CASE Inside
  <2>1. RecsOK /\ IdlePinsNothing
    BY DEF PinInv
  <2>2. RecsOK' /\ Quiet
    BY <1>1, <2>1, PubSteps, DrainSteps DEF Inside
  <2>q. QED BY <2>2, QuietKeeps DEF PinInv
<1>2. CASE Subscribe \/ SubscribeFails \/ \E s \in Sub : Unsubscribe(s)
  BY <1>2, SubscribeSteps, SubscribeFailsSteps, UnsubscribeSteps
<1>3. CASE \E p \in Publisher : Publish(p) \/ Finish(p)
  BY <1>3, PublishSteps, FinishSteps
<1>4. CASE \E d \in Drainer : Leave(d) \/ \E s \in Sub : DrainBegin(d, s)
  BY <1>4, LeaveSteps, DrainBeginSteps
<1>5. CASE UNCHANGED vars
  BY <1>5 DEF vars, bus, past, PinInv, RecsOK, IdlePinsNothing, AliveHasQueue, UsersCounted,
              QueuesOutliveUsers, Users
<1>q. QED BY <1>1, <1>2, <1>3, <1>4, <1>5 DEF Next, Publishing, Draining, Inside

\* At no time does a publisher or a drainer hold a queue its slot has given up:
\* event_bus_unsubscribe and reap_locked delete a queue only at a count of zero,
\* and the count is the number of the tasks that took the queue under the lock.
THEOREM QueuesPinned == Spec => []QueuesOutliveUsers
<1>1. PinInv => QueuesOutliveUsers
  BY DEF PinInv
<1>q. QED BY PinInit, PinNext, <1>1, PTL DEF Spec
-----------------------------------------------------------------------------
\* The dead queues: s_dying_count is their number and each is still in use.

Dying(table) == {i \in Pos : IsDying(table[i])}

DyingInv ==
    /\ dying_count = Cardinality(Dying(slot))
    /\ \A i \in Dying(slot) : slot[i].inflight # 0

LEMMA FiniteDying == ASSUME NEW table PROVE IsFiniteSet(Dying(table)) /\ Cardinality(Dying(table)) \in Nat
<1>1. IsFiniteSet(Pos)
  BY FS_Interval, BusConstants DEF Pos
<1>2. Dying(table) \subseteq Pos
  BY DEF Dying
<1>q. QED BY <1>1, <1>2, FS_Subset, FS_CardinalityType

\* Reaping leaves the dead queues that are in use, and counts them.
LEMMA ReapCounts ==
    ASSUME DyingInv, NEW table \in [Pos -> SlotRec], Dying(table) = Dying(slot)
    PROVE /\ DyingLeft(table) = Cardinality(Dying(Reaped(table)))
          /\ \A i \in Dying(Reaped(table)) : Reaped(table)[i].inflight # 0
<1>1. Ripe(table) = {i \in Dying(table) : table[i].inflight = 0}
  <2>1. dying_count = 0 => Dying(table) = {}
    BY FiniteDying, FS_EmptySet DEF DyingInv
  <2>q. QED BY <2>1 DEF Ripe, Dying
<1>2. /\ \A i \in Pos : /\ Reaped(table)[i].inflight = table[i].inflight
                        /\ Reaped(table)[i].alive = table[i].alive
                        /\ Reaped(table)[i].queue = IF i \in Ripe(table) THEN 0 ELSE table[i].queue
  BY ReapedSlot
<1>3. Dying(Reaped(table)) = Dying(table) \ Ripe(table)
  BY <1>1, <1>2 DEF Dying, IsDying
<1>4. Cardinality(Dying(table) \ Ripe(table)) = Cardinality(Dying(table)) - Cardinality(Ripe(table))
  <2>1. Ripe(table) \subseteq Dying(table) /\ Ripe(table) = Dying(table) \cap Ripe(table)
    BY <1>1
  <2>q. QED BY <2>1, FiniteDying, FS_Difference
<1>5. DyingLeft(table) = Cardinality(Dying(Reaped(table)))
  BY <1>3, <1>4 DEF DyingLeft, DyingInv
<1>6. \A i \in Dying(Reaped(table)) : Reaped(table)[i].inflight # 0
  BY <1>1, <1>2, <1>3 DEF Dying
<1>q. QED BY <1>5, <1>6

\* A slot that is dying before and after keeps its place, its count may grow.
LEMMA DyingKept ==
    ASSUME DyingInv, UNCHANGED dying_count, Dying(slot)' = Dying(slot),
           \A i \in Dying(slot) : slot'[i].inflight # 0
    PROVE DyingInv'
BY DEF DyingInv

LEMMA DyingPinned ==
    ASSUME PinInv, DyingInv, NEW T, UNCHANGED dying_count,
           \A i \in Pos : slot'[i] = IF i \in T THEN Pinning(slot[i]) ELSE slot[i]
    PROVE DyingInv'
<1>1. \A i \in Pos : /\ slot'[i].queue = slot[i].queue /\ slot'[i].alive = slot[i].alive
                     /\ slot[i].inflight \in Nat
                     /\ slot'[i].inflight = slot[i].inflight \/ slot'[i].inflight = slot[i].inflight + 1
  <2>1. \A i \in Pos : slot[i] \in SlotRec /\ slot[i].inflight \in Nat
    BY DEF PinInv, RecsOK, SlotRec
  <2>q. QED BY <2>1, SlotChange
<1>2. Dying(slot)' = Dying(slot)
  BY <1>1 DEF Dying, IsDying
<1>3. \A i \in Dying(slot) : slot'[i].inflight # 0
  BY <1>1 DEF DyingInv, Dying
<1>q. QED BY <1>2, <1>3, DyingKept

LEMMA DyingSubscribe ==
    ASSUME PinInv, DyingInv, Subscribe
    PROVE DyingInv'
<1> DEFINE R == Reaped(slot)
<1>1. PICK i \in Pos : IsFree(R[i]) /\ slot' = [R EXCEPT ![i] = Made(@)]
  BY DEF Subscribe
<1>2. /\ R \in [Pos -> SlotRec] /\ DyingLeft(slot) = Cardinality(Dying(R))
      /\ \A j \in Dying(R) : R[j].inflight # 0
  BY ReapedSlot, ReapCounts DEF PinInv, RecsOK
<1>3. dying_count' = DyingLeft(slot)
  BY DEF Subscribe
<1> HIDE DEF R
<1>4. \A j \in Pos : slot'[j] = IF j = i THEN Made(R[i]) ELSE R[j]
  BY <1>1, <1>2
<1>5. Made(R[i]).alive
  BY <1>2 DEF Made, SlotRec
<1>6. Dying(slot)' = Dying(R) /\ i \notin Dying(R)
  BY <1>1, <1>4, <1>5 DEF Dying, IsDying, IsFree
<1>7. \A j \in Dying(R) : slot'[j].inflight # 0
  BY <1>2, <1>4, <1>6 DEF Dying
<1>q. QED BY <1>2, <1>3, <1>6, <1>7 DEF DyingInv

LEMMA DyingUnsubscribe ==
    ASSUME PinInv, DyingInv, NEW s \in Sub, Unsubscribe(s)
    PROVE DyingInv'
<1>0. s \in 1..created /\ Valid(s) /\ handle[s].pos \in Pos
  BY DEF Unsubscribe, PinInv, RecsOK
<1> DEFINE i == handle[s].pos
           e == [slot[i] EXCEPT !.alive = FALSE, !.gen = Bump(@)]
           f == [e EXCEPT !.queue = 0]
<1>1. /\ e.inflight = slot[i].inflight /\ e.queue = slot[i].queue /\ ~e.alive
      /\ f.inflight = slot[i].inflight /\ ~f.alive /\ f.queue = 0
      /\ slot[i].inflight \in Nat
  BY <1>0 DEF PinInv, RecsOK, SlotRec
<1>2. slot[i].alive /\ slot[i].queue # 0 /\ i \notin Dying(slot)
  BY <1>0 DEF Valid, PinInv, AliveHasQueue, Dying, IsDying
<1>3. \/ slot[i].inflight = 0 /\ slot' = [slot EXCEPT ![i] = f] /\ UNCHANGED dying_count
      \/ slot[i].inflight # 0 /\ slot' = [slot EXCEPT ![i] = e] /\ dying_count' = dying_count + 1
  BY <1>1 DEF Unsubscribe
<1> HIDE DEF e, f
<1>4. CASE slot[i].inflight = 0
  <2>1. \A j \in Pos : slot'[j] = IF j = i THEN f ELSE slot[j]
    BY <1>3, <1>4 DEF PinInv, RecsOK
  <2>2. Dying(slot)' = Dying(slot)
    BY <1>1, <1>2, <2>1 DEF Dying, IsDying
  <2>3. \A j \in Dying(slot) : slot'[j].inflight # 0
    BY <1>2, <2>1 DEF DyingInv, Dying
  <2>q. QED BY <1>3, <1>4, <2>2, <2>3, DyingKept
<1>5. CASE slot[i].inflight # 0
  <2>1. \A j \in Pos : slot'[j] = IF j = i THEN e ELSE slot[j]
    BY <1>3, <1>5 DEF PinInv, RecsOK
  <2>2. Dying(slot)' = Dying(slot) \cup {i}
    BY <1>0, <1>1, <1>2, <2>1 DEF Dying, IsDying
  <2>3. Cardinality(Dying(slot) \cup {i}) = Cardinality(Dying(slot)) + 1
    BY <1>2, FiniteDying, OneUser
  <2>4. \A j \in Dying(slot) \cup {i} : slot'[j].inflight # 0
    BY <1>0, <1>1, <1>5, <2>1 DEF DyingInv, Dying
  <2>5. dying_count' = dying_count + 1
    BY <1>3, <1>5
  <2>q. QED BY <2>2, <2>3, <2>4, <2>5 DEF DyingInv
<1>q. QED BY <1>4, <1>5

LEMMA DyingReaped ==
    ASSUME DyingInv, NEW table \in [Pos -> SlotRec], Dying(table) = Dying(slot),
           slot' = Reaped(table), dying_count' = DyingLeft(table)
    PROVE DyingInv'
BY ReapCounts DEF DyingInv

LEMMA DyingNext == PinInv /\ DyingInv /\ [Next]_vars => DyingInv'
<1> SUFFICES ASSUME PinInv, DyingInv, [Next]_vars PROVE DyingInv'
  OBVIOUS
<1>1. slot \in [Pos -> SlotRec]
  BY DEF PinInv, RecsOK
<1>2. CASE UNCHANGED <<slot, dying_count>>
  BY <1>2 DEF DyingInv, Dying
<1>3. CASE SubscribeFails
  BY <1>1, <1>3, DyingReaped DEF SubscribeFails
<1>4. ASSUME NEW p \in Publisher, Publish(p) PROVE DyingInv'
  <2> DEFINE T == {i \in 1..hwm : slot[i].alive /\ slot[i].queue # 0}
  <2>1. UNCHANGED dying_count /\ \A i \in Pos : slot'[i] = IF i \in T THEN Pinning(slot[i]) ELSE slot[i]
    BY <1>4 DEF Publish
  <2> HIDE DEF T
  <2>q. QED BY <2>1, DyingPinned
<1>5. ASSUME NEW d \in Drainer, NEW s \in Sub, DrainBegin(d, s) PROVE DyingInv'
  <2>1. UNCHANGED dying_count /\ slot' = [slot EXCEPT ![handle[s].pos] = Pinning(@)]
    BY <1>5 DEF DrainBegin
  <2>2. \A i \in Pos : slot'[i] = IF i \in {handle[s].pos} THEN Pinning(slot[i]) ELSE slot[i]
    BY <1>1, <2>1
  <2>q. QED BY <2>1, <2>2, DyingPinned
<1>6. ASSUME NEW p \in Publisher, Finish(p) PROVE DyingInv'
  <2> DEFINE table == [i \in Pos |-> IF pub[p].target[i] # 0 THEN Unpinned(slot[i]) ELSE slot[i]]
  <2>1. slot' = Reaped(table) /\ dying_count' = DyingLeft(table)
    BY <1>6 DEF Finish
  <2>2. \A i \in Pos : pub[p].target[i] # 0 => slot[i].inflight # 0
    <3>1. \A i \in Pos : pub[p].target[i] # 0 => p \in Users(i)
      BY DEF Users
    <3>q. QED BY <3>1, OneUser, FiniteUsers DEF PinInv, UsersCounted
  <2>3. \A i \in Pos : /\ table[i] \in SlotRec /\ table[i].queue = slot[i].queue
                       /\ table[i].alive = slot[i].alive
    BY <1>1, <2>2, SlotChange
  <2>4. table \in [Pos -> SlotRec]
    BY <2>3
  <2> HIDE DEF table
  <2>5. Dying(table) = Dying(slot)
    BY <2>3 DEF Dying, IsDying
  <2>q. QED BY <2>1, <2>4, <2>5, DyingReaped
<1>7. ASSUME NEW d \in Drainer, Leave(d) PROVE DyingInv'
  <2> DEFINE i == drain[d].pos
             table == [slot EXCEPT ![i] = Unpinned(@)]
  <2>1. slot' = Reaped(table) /\ dying_count' = DyingLeft(table) /\ drain[d].step = "leave"
    BY <1>7 DEF Leave
  <2>2. i \in Pos /\ slot[i].inflight # 0
    <3>1. i \in Pos /\ d \in Users(i)
      BY <2>1 DEF PinInv, IdlePinsNothing, Users
    <3>q. QED BY <3>1, OneUser, FiniteUsers DEF PinInv, UsersCounted
  <2>3. /\ Unpinned(slot[i]) \in SlotRec /\ Unpinned(slot[i]).queue = slot[i].queue
        /\ Unpinned(slot[i]).alive = slot[i].alive
    BY <1>1, <2>2, SlotChange
  <2>4. /\ table \in [Pos -> SlotRec]
        /\ \A n \in Pos : table[n] = IF n = i THEN Unpinned(slot[i]) ELSE slot[n]
    BY <1>1, <2>2, <2>3
  <2> HIDE DEF table
  <2>5. Dying(table) = Dying(slot)
    BY <2>3, <2>4 DEF Dying, IsDying
  <2>q. QED BY <2>1, <2>4, <2>5, DyingReaped
<1>8. CASE Inside \/ UNCHANGED vars
  BY <1>2, <1>8 DEF Inside, Filtered, Send, Evict, Resend, Receive, TimeOut, Drained, Empty, Check,
                    Handle, vars, bus
<1>q. QED BY <1>3, <1>4, <1>5, <1>6, <1>7, <1>8, DyingSubscribe, DyingUnsubscribe
       DEF Next, Publishing, Draining, Inside

\* No dead queue is forgotten: s_dying_count is exact, so reap_locked never returns
\* early over a queue to delete, and every dead queue that is left has a task on it
\* that will reap the table as it leaves.
THEOREM DeadQueuesInUse == Spec => []DyingInUse
<1>1. Init => DyingInv
  <2> SUFFICES ASSUME Init PROVE DyingInv
    OBVIOUS
  <2>1. Dying(slot) = {}
    BY DEF Init, Dying, IsDying
  <2>q. QED BY <2>1, FS_EmptySet DEF Init, DyingInv
<1>2. PinInv /\ DyingInv => DyingInUse
  <2> SUFFICES ASSUME PinInv, DyingInv PROVE DyingInUse
    OBVIOUS
  <2>1. dying_count = Cardinality({i \in Pos : IsDying(slot[i])})
    BY DEF DyingInv, Dying
  <2>2. ASSUME NEW i \in Pos, IsDying(slot[i]) PROVE Users(i) # {}
    <3>1. slot[i].inflight # 0
      BY <2>2 DEF DyingInv, Dying
    <3>q. QED BY <3>1, FS_EmptySet DEF PinInv, UsersCounted
  <2>q. QED BY <2>1, <2>2 DEF DyingInUse
<1>q. QED BY PinInit, PinNext, DyingNext, <1>1, <1>2, PTL DEF Spec
-----------------------------------------------------------------------------
\* Handles.  A slot is stamped anew when it is taken and when it is given up, twice
\* for each subscription at most, so the stamp cannot come round again.

FewSubscriptions == 2 * MaxCreated < GenMod

HandleInv ==
    /\ asked \subseteq 1..created
    /\ \A i \in Pos : slot[i].gen <= (IF slot[i].alive THEN 2 * created - 1 ELSE 2 * created)
    /\ \A s \in 1..created :
          IF s \in asked THEN slot[handle[s].pos].gen > handle[s].gen
          ELSE Valid(s) /\ slot[handle[s].pos].queue = s

LEMMA HandlesKept ==
    ASSUME PinInv, HandleInv, UNCHANGED <<created, handle, asked>>,
           \A i \in Pos : /\ slot'[i].gen = slot[i].gen /\ slot'[i].alive = slot[i].alive
                          /\ slot[i].alive => slot'[i].queue = slot[i].queue
    PROVE HandleInv'
<1>1. \A s \in 1..created : handle[s].pos \in Pos
  BY DEF PinInv, RecsOK
<1>q. QED BY <1>1 DEF HandleInv, Valid

LEMMA HandlesSubscribe ==
    ASSUME FewSubscriptions, PinInv, HandleInv, Subscribe
    PROVE HandleInv'
<1> DEFINE R == Reaped(slot)
           new == created + 1
<1>1. PICK i \in Pos :
          /\ IsFree(R[i]) /\ slot' = [R EXCEPT ![i] = Made(@)]
          /\ handle' = [handle EXCEPT ![new] = [pos |-> i, gen |-> slot'[i].gen]]
  BY DEF Subscribe
<1>2. /\ created \in Nat /\ created < MaxCreated /\ created' = new /\ asked' = asked /\ new \in Sub
      /\ MaxCreated \in Nat /\ GenMod \in Nat
  BY BusConstants DEF Subscribe, PinInv, RecsOK, Sub
<1>3. /\ R \in [Pos -> SlotRec]
      /\ \A j \in Pos : /\ R[j].gen = slot[j].gen /\ R[j].alive = slot[j].alive
                        /\ slot[j].alive => R[j].queue = slot[j].queue
  BY ReapedSlot DEF PinInv, RecsOK
<1>4. ~slot[i].alive /\ slot[i].gen \in Nat
  BY <1>1, <1>3 DEF IsFree, PinInv, RecsOK, SlotRec
<1> HIDE DEF R
<1>5. Made(R[i]).alive /\ Made(R[i]).queue = new /\ Made(R[i]).gen = slot[i].gen + 1
  <2>1. slot[i].gen + 1 < GenMod
    BY <1>2, <1>4 DEF HandleInv, FewSubscriptions
  <2>2. Bump(R[i].gen) = slot[i].gen + 1
    BY <1>2, <1>3, <1>4, <2>1 DEF Bump
  <2>q. QED BY <1>3, <2>2 DEF Made, SlotRec
<1>6. \A j \in Pos : slot'[j] = IF j = i THEN Made(R[i]) ELSE R[j]
  BY <1>1, <1>3
<1>7. /\ handle'[new] = [pos |-> i, gen |-> slot[i].gen + 1]
      /\ \A s \in 1..created : handle'[s] = handle[s] /\ handle[s].pos \in Pos
  BY <1>1, <1>2, <1>5, <1>6 DEF PinInv, RecsOK
<1>8. asked' \subseteq 1..created'
  BY <1>2 DEF HandleInv
<1>9. ASSUME NEW j \in Pos
      PROVE slot'[j].gen <= (IF slot'[j].alive THEN 2 * created' - 1 ELSE 2 * created')
  <2>1. slot[j].gen \in Nat
    BY DEF PinInv, RecsOK, SlotRec
  <2>2. CASE j = i
    BY <1>2, <1>4, <1>5, <1>6, <2>2 DEF HandleInv
  <2>3. CASE j # i
    BY <1>2, <1>3, <1>6, <2>1, <2>3 DEF HandleInv
  <2>q. QED BY <2>2, <2>3
<1>10. ASSUME NEW s \in 1..created'
       PROVE IF s \in asked' THEN slot'[handle'[s].pos].gen > handle'[s].gen
             ELSE Valid(s)' /\ slot'[handle'[s].pos].queue = s
  <2>1. CASE s = new
    <3>1. s \notin asked'
      BY <1>2, <2>1 DEF HandleInv
    <3>q. QED BY <1>5, <1>6, <1>7, <2>1, <3>1 DEF Valid
  <2>2. CASE s \in asked /\ s \in 1..created
    <3>1. slot[handle[s].pos].gen > handle[s].gen /\ handle[s].gen \in Int /\ slot[i].gen \in Int
      BY <1>4, <2>2, BusConstants DEF HandleInv, PinInv, RecsOK, Sub
    <3>q. QED BY <1>2, <1>3, <1>5, <1>6, <1>7, <2>2, <3>1
  <2>3. CASE s \notin asked /\ s \in 1..created
    <3>1. Valid(s) /\ slot[handle[s].pos].queue = s /\ handle[s].pos # i
      BY <1>4, <2>3 DEF HandleInv, Valid
    <3>q. QED BY <1>2, <1>3, <1>6, <1>7, <2>3, <3>1 DEF Valid
  <2>q. QED BY <1>2, <2>1, <2>2, <2>3
<1>q. QED BY <1>8, <1>9, <1>10 DEF HandleInv

LEMMA HandlesUnsubscribe ==
    ASSUME FewSubscriptions, PinInv, HandleInv, NEW s \in Sub, Unsubscribe(s)
    PROVE HandleInv'
<1> DEFINE i == handle[s].pos
           e == [slot[i] EXCEPT !.alive = FALSE, !.gen = Bump(@)]
           f == [e EXCEPT !.queue = 0]
<1>1. /\ s \in 1..created /\ Valid(s) /\ i \in Pos /\ slot[i].alive /\ slot[i].gen = handle[s].gen
      /\ slot[i].gen \in Nat /\ created \in Nat /\ created <= MaxCreated /\ MaxCreated \in Nat /\ GenMod \in Nat
  BY BusConstants DEF Unsubscribe, Valid, PinInv, RecsOK, SlotRec
<1>2. Bump(slot[i].gen) = slot[i].gen + 1
  <2>1. slot[i].gen + 1 < GenMod
    BY <1>1 DEF HandleInv, FewSubscriptions
  <2>q. QED BY <1>1, <2>1 DEF Bump
<1>3. /\ e.gen = slot[i].gen + 1 /\ ~e.alive
      /\ f.gen = slot[i].gen + 1 /\ ~f.alive
  BY <1>1, <1>2 DEF PinInv, RecsOK, SlotRec
<1>4. /\ slot' = [slot EXCEPT ![i] = f] \/ slot' = [slot EXCEPT ![i] = e]
      /\ asked' = asked \cup {s} /\ UNCHANGED <<created, handle>>
  BY DEF Unsubscribe
<1> HIDE DEF e, f
<1>5. PICK g : slot' = [slot EXCEPT ![i] = g] /\ g.gen = slot[i].gen + 1 /\ ~g.alive
  BY <1>3, <1>4
<1>6. \A j \in Pos : slot'[j] = IF j = i THEN g ELSE slot[j]
  BY <1>5 DEF PinInv, RecsOK
<1>7. asked' \subseteq 1..created'
  BY <1>1, <1>4 DEF HandleInv
<1>8. \A j \in Pos : slot'[j].gen <= (IF slot'[j].alive THEN 2 * created' - 1 ELSE 2 * created')
  BY <1>1, <1>4, <1>5, <1>6 DEF HandleInv
<1>9. ASSUME NEW t \in 1..created
      PROVE IF t \in asked' THEN slot'[handle[t].pos].gen > handle[t].gen
            ELSE Valid(t)' /\ slot'[handle[t].pos].queue = t
  <2>0. handle[t].pos \in Pos /\ handle[t].gen \in Int
    BY <1>1, BusConstants DEF PinInv, RecsOK, Sub
  <2>1. CASE t = s
    BY <1>1, <1>4, <1>5, <1>6, <2>1
  <2>2. CASE t # s /\ t \in asked
    BY <1>1, <1>4, <1>5, <1>6, <2>0, <2>2 DEF HandleInv
  <2>3. CASE t # s /\ t \notin asked
    <3>1. s \notin asked
      BY <1>1, <2>0 DEF HandleInv
    <3>2. slot[handle[t].pos].queue = t /\ slot[i].queue = s /\ Valid(t)
      BY <1>1, <2>3, <3>1 DEF HandleInv
    <3>3. handle[t].pos # i
      BY <2>3, <3>2
    <3>q. QED BY <1>4, <1>6, <2>0, <2>3, <3>2, <3>3 DEF Valid
  <2>q. QED BY <2>1, <2>2, <2>3
<1>q. QED BY <1>4, <1>7, <1>8, <1>9 DEF HandleInv

LEMMA HandlesNext == FewSubscriptions /\ PinInv /\ HandleInv /\ [Next]_vars => HandleInv'
<1> SUFFICES ASSUME FewSubscriptions, PinInv, HandleInv, [Next]_vars PROVE HandleInv'
  OBVIOUS
<1>0. /\ slot \in [Pos -> SlotRec]
      /\ \A n \in Pos : /\ Pinning(slot[n]).queue = slot[n].queue /\ Pinning(slot[n]).alive = slot[n].alive
                        /\ Pinning(slot[n]).gen = slot[n].gen
  <2>1. \A n \in Pos : slot[n] \in SlotRec
    BY DEF PinInv, RecsOK
  <2>q. QED BY <2>1, SlotChange DEF PinInv, RecsOK
<1>1. ASSUME NEW table \in [Pos -> SlotRec], slot' = Reaped(table), UNCHANGED <<created, handle, asked>>,
             \A n \in Pos : /\ table[n].queue = slot[n].queue /\ table[n].alive = slot[n].alive
                            /\ table[n].gen = slot[n].gen
      PROVE HandleInv'
  <2>1. \A n \in Pos : /\ Reaped(table)[n].gen = table[n].gen /\ Reaped(table)[n].alive = table[n].alive
                       /\ table[n].alive => Reaped(table)[n].queue = table[n].queue
    BY ReapedSlot
  <2>q. QED BY <1>1, <2>1, HandlesKept
<1>2. CASE UNCHANGED <<slot, created, handle, asked>>
  BY <1>2, HandlesKept
<1>3. CASE SubscribeFails
  BY <1>0, <1>1, <1>3 DEF SubscribeFails, past
<1>4. ASSUME NEW p \in Publisher, Publish(p) PROVE HandleInv'
  <2> DEFINE T == {i \in 1..hwm : slot[i].alive /\ slot[i].queue # 0}
  <2>1. /\ \A i \in Pos : slot'[i] = IF i \in T THEN Pinning(slot[i]) ELSE slot[i]
        /\ UNCHANGED <<created, handle, asked>>
    BY <1>4 DEF Publish, past
  <2> HIDE DEF T
  <2>q. QED BY <1>0, <2>1, HandlesKept
<1>5. ASSUME NEW d \in Drainer, NEW s \in Sub, DrainBegin(d, s) PROVE HandleInv'
  <2>1. UNCHANGED <<created, handle, asked>> /\ slot' = [slot EXCEPT ![handle[s].pos] = Pinning(@)]
    BY <1>5 DEF DrainBegin, past
  <2>2. \A i \in Pos : slot'[i] = IF i = handle[s].pos THEN Pinning(slot[i]) ELSE slot[i]
    BY <1>0, <2>1
  <2>q. QED BY <1>0, <2>1, <2>2, HandlesKept
<1>6. ASSUME NEW p \in Publisher, Finish(p) PROVE HandleInv'
  <2> DEFINE table == [i \in Pos |-> IF pub[p].target[i] # 0 THEN Unpinned(slot[i]) ELSE slot[i]]
  <2>1. slot' = Reaped(table) /\ UNCHANGED <<created, handle, asked>>
    BY <1>6 DEF Finish, past
  <2>2. \A i \in Pos : pub[p].target[i] # 0 => slot[i].inflight # 0
    <3>1. \A i \in Pos : pub[p].target[i] # 0 => p \in Users(i)
      BY DEF Users
    <3>q. QED BY <3>1, OneUser, FiniteUsers DEF PinInv, UsersCounted
  <2>3. \A i \in Pos : /\ table[i] \in SlotRec /\ table[i].queue = slot[i].queue
                       /\ table[i].alive = slot[i].alive /\ table[i].gen = slot[i].gen
    BY <1>0, <2>2, SlotChange
  <2>4. table \in [Pos -> SlotRec]
    BY <2>3
  <2> HIDE DEF table
  <2>q. QED BY <1>1, <2>1, <2>3, <2>4
<1>7. ASSUME NEW d \in Drainer, Leave(d) PROVE HandleInv'
  <2> DEFINE i == drain[d].pos
             table == [slot EXCEPT ![i] = Unpinned(@)]
  <2>1. slot' = Reaped(table) /\ UNCHANGED <<created, handle, asked>> /\ drain[d].step = "leave"
    BY <1>7 DEF Leave, past
  <2>2. i \in Pos /\ slot[i].inflight # 0
    <3>1. i \in Pos /\ d \in Users(i)
      BY <2>1 DEF PinInv, IdlePinsNothing, Users
    <3>q. QED BY <3>1, OneUser, FiniteUsers DEF PinInv, UsersCounted
  <2>3. /\ Unpinned(slot[i]) \in SlotRec /\ Unpinned(slot[i]).queue = slot[i].queue
        /\ Unpinned(slot[i]).alive = slot[i].alive /\ Unpinned(slot[i]).gen = slot[i].gen
    BY <1>0, <2>2, SlotChange
  <2>4. /\ table \in [Pos -> SlotRec]
        /\ \A n \in Pos : table[n] = IF n = i THEN Unpinned(slot[i]) ELSE slot[n]
    BY <1>0, <2>2, <2>3
  <2> HIDE DEF table
  <2>5. \A n \in Pos : /\ table[n].queue = slot[n].queue /\ table[n].alive = slot[n].alive
                       /\ table[n].gen = slot[n].gen
    BY <2>3, <2>4
  <2>q. QED BY <1>1, <2>1, <2>4, <2>5
<1>8. CASE Inside \/ UNCHANGED vars
  BY <1>2, <1>8 DEF Inside, Filtered, Send, Evict, Resend, Receive, TimeOut, Drained, Empty, Check,
                    Handle, vars, bus, past
<1>q. QED BY <1>3, <1>4, <1>5, <1>6, <1>7, <1>8, HandlesSubscribe, HandlesUnsubscribe
       DEF Next, Publishing, Draining, Inside

LEMMA HandlesInit == Init => HandleInv
<1> SUFFICES ASSUME Init PROVE HandleInv
  OBVIOUS
<1>1. created = 0 /\ asked = {} /\ \A i \in Pos : slot[i].gen = 0 /\ ~slot[i].alive
  BY DEF Init
<1>q. QED BY <1>1 DEF HandleInv

\* A stale handle is refused for good and a live one reaches its own subscription:
\* event_bus_unsubscribe and event_bus_drain_handle compare the generation, which
\* every subscribe and every unsubscribe of the slot moves on.
THEOREM HandlesSound == FewSubscriptions => (Spec => []HandlesName)
<1> SUFFICES ASSUME FewSubscriptions PROVE Spec => []HandlesName
  OBVIOUS
<1>1. Init => HandleInv
  BY HandlesInit
<1>2. PinInv /\ HandleInv => HandlesName
  <2> SUFFICES ASSUME PinInv, HandleInv, NEW s \in 1..created
               PROVE IF s \in asked THEN ~Valid(s) ELSE Valid(s) /\ slot[handle[s].pos].queue = s
    BY DEF HandlesName
  <2>1. CASE s \notin asked
    BY <2>1 DEF HandleInv
  <2>2. CASE s \in asked
    <3>1. /\ slot[handle[s].pos].gen > handle[s].gen
          /\ slot[handle[s].pos].gen \in Int /\ handle[s].gen \in Int
      BY <2>2, BusConstants DEF HandleInv, PinInv, RecsOK, SlotRec, Sub
    <3>q. QED BY <2>2, <3>1 DEF Valid
  <2>q. QED BY <2>1, <2>2
<1>3. PinInv /\ HandleInv /\ [Next]_vars => HandleInv'
  BY HandlesNext
<1>q. QED BY PinInit, PinNext, <1>1, <1>2, <1>3, PTL DEF Spec
-----------------------------------------------------------------------------
\* The high-water mark.

LEMMA MinExists ==
    ASSUME NEW S \in SUBSET Nat, S # {}
    PROVE  Min(S) \in S /\ \A y \in S : Min(S) <= y
<1> DEFINE R == OpToRel(<, Nat)
<1>1. IsWellFoundedOn(R, Nat)
  BY NatLessThanWellFounded
<1>2. \A x, y \in Nat : x < y => <<x, y>> \in R
  BY DEF OpToRel
<1> HIDE DEF R
<1>3. \E x \in S : \A y \in S : ~ (<<y, x>> \in R)
  BY <1>1, WFMin
<1>4. PICK x \in S : \A y \in S : ~ (<<y, x>> \in R)
  BY <1>3
<1>5. \A y \in S : y \in Nat /\ x \in Nat
  OBVIOUS
<1>6. \A y \in S : ~(y < x)
  BY <1>2, <1>4, <1>5
<1>7. \A y \in S : x <= y
  BY <1>5, <1>6
<1>q. QED BY <1>7 DEF Min

LEMMA MaxExists ==
    ASSUME NEW h \in Nat, NEW S \in SUBSET (0..h), S # {}
    PROVE  Max(S) \in S /\ \A y \in S : y <= Max(S)
<1> DEFINE T == {h - y : y \in S}
<1>1. T \in SUBSET Nat /\ T # {}
  OBVIOUS
<1>2. PICK m \in S : \A y \in S : h - m <= h - y
  <2>1. Min(T) \in T /\ \A z \in T : Min(T) <= z
    BY <1>1, MinExists
  <2>2. PICK m \in S : Min(T) = h - m
    BY <2>1
  <2>3. \A y \in S : h - y \in T
    OBVIOUS
  <2>q. QED BY <2>1, <2>2, <2>3
<1>3. \A y \in S : y \in Nat /\ m \in Nat
  OBVIOUS
<1>4. m \in S /\ \A y \in S : m >= y
  BY <1>2, <1>3
<1> HIDE DEF T
<1>5. Max(S) \in S /\ \A y \in S : Max(S) >= y
  BY <1>4 DEF Max
<1>6. \A y \in 0..h : y \in Nat
  OBVIOUS
<1>6a. \A y \in S : y \in Nat /\ Max(S) \in Nat
  BY <1>5, <1>6, Zenon
<1>q. QED BY <1>5, <1>6a

InReach(h, table) == h \in 0..MaxSubs /\ \A i \in Pos : ~IsFree(table[i]) => i <= h

LEMMA TrimmedReaches ==
    ASSUME NEW h, NEW table, InReach(h, table)
    PROVE  InReach(Trimmed(h, table), table)
<1> DEFINE S == {0} \cup {i \in 1..h : ~IsFree(table[i])}
<1>1. h \in Nat /\ h <= MaxSubs /\ MaxSubs \in Nat
  BY BusConstants DEF InReach
<1>2. S \in SUBSET (0..h) /\ S # {}
  BY <1>1
<1>3. Trimmed(h, table) \in S /\ \A y \in S : y <= Trimmed(h, table)
  BY <1>1, <1>2, MaxExists DEF Trimmed
<1>4. \A i \in Pos : ~IsFree(table[i]) => i \in S
  BY <1>1 DEF InReach, Pos
<1> HIDE DEF S
<1>5. S \subseteq 0..h
  BY <1>2
<1>6. Trimmed(h, table) \in 0..h
  BY <1>3, <1>5
<1>7. Trimmed(h, table) \in 0..MaxSubs
  BY <1>1, <1>6
<1>q. QED BY <1>3, <1>4, <1>7 DEF InReach

LEMMA ReapedReaches ==
    ASSUME NEW table \in [Pos -> SlotRec], InReach(hwm, table)
    PROVE  InReach(HwmReaped(table), Reaped(table))
<1>1. \A i \in Pos : ~IsFree(Reaped(table)[i]) => ~IsFree(table[i])
  BY ReapedSlot DEF IsFree
<1>2. InReach(hwm, Reaped(table))
  BY <1>1 DEF InReach
<1>q. QED BY <1>2, TrimmedReaches DEF HwmReaped

\* Pins do not matter to it.
LEMMA SameReach ==
    ASSUME NEW h, NEW table, NEW other, InReach(h, table),
           \A i \in Pos : IsFree(table[i]) => IsFree(other[i])
    PROVE  InReach(h, other)
BY DEF InReach

LEMMA ReachNext == PinInv /\ InReach(hwm, slot) /\ [Next]_vars => InReach(hwm, slot)'
<1> SUFFICES ASSUME PinInv, InReach(hwm, slot), [Next]_vars PROVE InReach(hwm', slot')
  BY DEF InReach, Pos
<1>1. /\ slot \in [Pos -> SlotRec]
      /\ \A n \in Pos : slot[n] \in SlotRec /\ Pinning(slot[n]).queue = slot[n].queue /\ Pinning(slot[n]).alive = slot[n].alive
  <2>1. \A n \in Pos : slot[n] \in SlotRec
    BY DEF PinInv, RecsOK
  <2>q. QED BY <2>1, SlotChange DEF PinInv, RecsOK
<1>2. CASE UNCHANGED <<slot, hwm>>
  BY <1>2
<1>3. CASE Subscribe
  <2>1. PICK i \in Pos : slot' = [Reaped(slot) EXCEPT ![i] = Made(@)] /\ hwm' = Max({HwmReaped(slot), i})
    BY <1>3 DEF Subscribe
  <2>2. InReach(HwmReaped(slot), Reaped(slot)) /\ Reaped(slot) \in [Pos -> SlotRec]
    BY <1>1, ReapedReaches, ReapedSlot
  <2> DEFINE S == {HwmReaped(slot), i}
  <2>3. S \in SUBSET (0..MaxSubs) /\ S # {} /\ MaxSubs \in Nat
    BY <2>2, BusConstants DEF InReach, Pos
  <2>4. Max(S) \in S /\ HwmReaped(slot) <= Max(S) /\ i <= Max(S)
    BY <2>3, MaxExists
  <2>5. \A n \in Pos : n # i => slot'[n] = Reaped(slot)[n]
    BY <2>1, <2>2
  <2>6. hwm' \in 0..MaxSubs
    BY <2>1, <2>3, <2>4
  <2>7. \A n \in Pos : ~IsFree(slot'[n]) => n <= hwm'
    <3> TAKE n \in Pos
    <3>1. CASE n = i
      BY <2>1, <2>4, <3>1
    <3>2. CASE n # i
      <4>1. ~IsFree(slot'[n]) => n <= HwmReaped(slot)
        BY <2>2, <2>5, <3>2 DEF InReach
      <4>q. QED BY <2>1, <2>2, <2>3, <2>4, <4>1 DEF InReach, Pos
    <3>q. QED BY <3>1, <3>2
  <2>q. QED BY <2>6, <2>7 DEF InReach
<1>4. CASE SubscribeFails
  BY <1>1, <1>4, ReapedReaches DEF SubscribeFails
<1>5. ASSUME NEW s \in Sub, Unsubscribe(s) PROVE InReach(hwm', slot')
  <2> DEFINE i == handle[s].pos
             e == [slot[i] EXCEPT !.alive = FALSE, !.gen = Bump(@)]
             f == [e EXCEPT !.queue = 0]
  <2>1. i \in Pos /\ slot[i].alive
    BY <1>5 DEF Unsubscribe, Valid, PinInv, RecsOK
  <2>2. \/ slot' = [slot EXCEPT ![i] = f] /\ hwm' = Trimmed(hwm, slot')
        \/ slot' = [slot EXCEPT ![i] = e] /\ hwm' = hwm
    BY <1>5 DEF Unsubscribe
  <2> HIDE DEF e, f
  <2>3. \A n \in Pos : IsFree(slot[n]) => IsFree(slot'[n])
    <3>1. \A n \in Pos : n # i => slot'[n] = slot[n]
      BY <1>1, <2>2
    <3>q. QED BY <2>1, <3>1 DEF IsFree
  <2>4. InReach(hwm, slot')
    BY <2>3, SameReach
  <2>q. QED BY <2>2, <2>4, TrimmedReaches
<1>6. ASSUME NEW p \in Publisher, Publish(p) PROVE InReach(hwm', slot')
  <2> DEFINE T == {i \in 1..hwm : slot[i].alive /\ slot[i].queue # 0}
  <2>1. hwm' = hwm /\ \A i \in Pos : slot'[i] = IF i \in T THEN Pinning(slot[i]) ELSE slot[i]
    BY <1>6 DEF Publish
  <2> HIDE DEF T
  <2>q. QED BY <1>1, <2>1, SameReach DEF IsFree
<1>7. ASSUME NEW d \in Drainer, NEW s \in Sub, DrainBegin(d, s) PROVE InReach(hwm', slot')
  <2>1. hwm' = hwm /\ slot' = [slot EXCEPT ![handle[s].pos] = Pinning(@)]
    BY <1>7 DEF DrainBegin
  <2>2. \A i \in Pos : slot'[i] = IF i = handle[s].pos THEN Pinning(slot[i]) ELSE slot[i]
    BY <1>1, <2>1
  <2>3. \A i \in Pos : slot'[i].queue = slot[i].queue /\ slot'[i].alive = slot[i].alive
    BY <1>1, <2>2
  <2>4. \A i \in Pos : IsFree(slot[i]) => IsFree(slot'[i])
    BY <2>3 DEF IsFree
  <2>q. QED BY <2>1, <2>4, SameReach
<1>8. ASSUME NEW p \in Publisher, Finish(p) PROVE InReach(hwm', slot')
  <2> DEFINE table == [i \in Pos |-> IF pub[p].target[i] # 0 THEN Unpinned(slot[i]) ELSE slot[i]]
  <2>1. slot' = Reaped(table) /\ hwm' = HwmReaped(table)
    BY <1>8 DEF Finish
  <2>2. \A i \in Pos : pub[p].target[i] # 0 => slot[i].inflight # 0
    <3>1. \A i \in Pos : pub[p].target[i] # 0 => p \in Users(i)
      BY DEF Users
    <3>q. QED BY <3>1, OneUser, FiniteUsers DEF PinInv, UsersCounted
  <2>3. \A i \in Pos : table[i] \in SlotRec /\ table[i].queue = slot[i].queue /\ table[i].alive = slot[i].alive
    BY <1>1, <2>2, SlotChange
  <2>4. table \in [Pos -> SlotRec]
    BY <2>3
  <2> HIDE DEF table
  <2>5. InReach(hwm, table)
    BY <2>3, SameReach DEF IsFree
  <2>q. QED BY <2>1, <2>4, <2>5, ReapedReaches
<1>9. ASSUME NEW d \in Drainer, Leave(d) PROVE InReach(hwm', slot')
  <2> DEFINE i == drain[d].pos
             table == [slot EXCEPT ![i] = Unpinned(@)]
  <2>1. slot' = Reaped(table) /\ hwm' = HwmReaped(table) /\ drain[d].step = "leave"
    BY <1>9 DEF Leave
  <2>2. i \in Pos /\ slot[i].inflight # 0
    <3>1. i \in Pos /\ d \in Users(i)
      BY <2>1 DEF PinInv, IdlePinsNothing, Users
    <3>q. QED BY <3>1, OneUser, FiniteUsers DEF PinInv, UsersCounted
  <2>3. Unpinned(slot[i]) \in SlotRec /\ Unpinned(slot[i]).queue = slot[i].queue /\ Unpinned(slot[i]).alive = slot[i].alive
    BY <1>1, <2>2, SlotChange
  <2>4. table \in [Pos -> SlotRec] /\ \A n \in Pos : table[n] = IF n = i THEN Unpinned(slot[i]) ELSE slot[n]
    BY <1>1, <2>2, <2>3
  <2> HIDE DEF table
  <2>5. InReach(hwm, table)
    BY <2>3, <2>4, SameReach DEF IsFree
  <2>q. QED BY <2>1, <2>4, <2>5, ReapedReaches
<1>10. CASE Inside \/ UNCHANGED vars
  BY <1>2, <1>10 DEF Inside, Filtered, Send, Evict, Resend, Receive, TimeOut, Drained, Empty, Check, Handle, vars, bus
<1>q. QED BY <1>3, <1>4, <1>5, <1>6, <1>7, <1>8, <1>9, <1>10 DEF Next, Publishing, Draining, Inside

LEMMA ReachInit == Init => InReach(hwm, slot)
BY BusConstants DEF Init, InReach, IsFree

\* Publish looks no further than s_sub_hwm and so misses no subscriber: the mark is trimmed
\* only down to the last slot that is alive or still to be reaped (recalc_hwm_locked).
THEOREM SubscribersReached == Spec => []SubscribersInReach
<1>1. Init => InReach(hwm, slot)
  BY ReachInit
<1>2. InReach(hwm, slot) => SubscribersInReach
  BY DEF InReach, SubscribersInReach, IsFree
<1>q. QED BY PinInit, PinNext, ReachNext, <1>1, <1>2, PTL DEF Spec

-----------------------------------------------------------------------------
\* What a subscriber is promised, EventChannel.  No event can be put twice: each
\* publisher has an event and each slot a queue of its own, and an event that is
\* still to be sent to a subscription was never seen there.

Items(q)  == {q[i] : i \in 1..Len(q)}
Single(q) == \A i, j \in 1..Len(q) : q[i] = q[j] => i = j

OneQueue ==
    /\ \A i \in Pos : slot[i].queue <= created
    /\ \A i, j \in Pos : slot[i].queue = slot[j].queue /\ slot[i].queue # 0 => i = j

Aimed ==
    /\ events <= MaxEvents
    /\ \A p \in Publisher :
          /\ pub[p].left \subseteq {i \in Pos : pub[p].target[i] # 0}
          /\ pub[p].step \in {"evict", "resend"} => pub[p].left # {}
          /\ pub[p].step # "idle" => pub[p].event \in 1..events
    /\ \A p, r \in Publisher :
          p # r /\ pub[p].step # "idle" /\ pub[r].step # "idle" => pub[p].event # pub[r].event

\* A drainer's stamp is its subscription's.
Followed ==
    \A d \in Drainer : drain[d].step # "idle" =>
        /\ drain[d].queue \in 1..created
        /\ handle[drain[d].queue].pos = drain[d].pos /\ handle[drain[d].queue].gen = drain[d].gen

\* The drainers whose event can still reach a handler.
Held(d) == drain[d].step = "run" \/ (drain[d].step = "check" /\ drain[d].queue \notin asked)

HeldOnce ==
    \A d, k \in Drainer :
        Held(d) /\ Held(k) /\ drain[d].queue = drain[k].queue /\ drain[d].event = drain[k].event => d = k

Seen(s) == Items(queue[s]) \cup Items(got[s]) \cup InHand(s)

Fresh ==
    /\ got \in [Sub -> Seq(Nat)]
    /\ \A s \in Sub \ asked :
          /\ Seen(s) \subseteq 1..events
          /\ Single(queue[s]) /\ Items(queue[s]) \cap InHand(s) = {}
          /\ \A p \in Publisher : \A i \in pub[p].left :
                pub[p].target[i] = s => pub[p].event \notin Seen(s)

ChanInv == OneQueue /\ Aimed /\ Followed /\ HeldOnce /\ Fresh

ChannelStep == [Channel!Next]_(Channel!vars)

\* Facts about sequences.
LEMMA ItemsOf ==
    ASSUME NEW q \in Seq(Nat), NEW e \in Nat
    PROVE  /\ Items(Append(q, e)) = Items(q) \cup {e}
           /\ Single(q) /\ e \notin Items(q) => Single(Append(q, e))
           /\ q # <<>> => /\ Items(Tail(q)) \subseteq Items(q) /\ Head(q) \in Items(q)
                          /\ Single(q) => Single(Tail(q)) /\ Head(q) \notin Items(Tail(q))
<1>1. /\ Len(q) \in Nat /\ Len(Append(q, e)) = Len(q) + 1
      /\ \A i \in 1..Len(q) : Append(q, e)[i] = q[i]
      /\ Append(q, e)[Len(q) + 1] = e
  OBVIOUS
<1>2. Items(Append(q, e)) = Items(q) \cup {e}
  <2>1. \A i \in 1..(Len(q) + 1) : Append(q, e)[i] \in Items(q) \cup {e}
    BY <1>1 DEF Items
  <2>2. \A x \in Items(q) \cup {e} : \E i \in 1..(Len(q) + 1) : Append(q, e)[i] = x
    <3>1. \A i \in 1..Len(q) : i \in 1..(Len(q) + 1)
      BY <1>1
    <3>2. Len(q) + 1 \in 1..(Len(q) + 1)
      BY <1>1
    <3>q. QED BY <1>1, <3>1, <3>2 DEF Items
  <2>q. QED BY <1>1, <2>1, <2>2 DEF Items
<1>3. ASSUME Single(q), e \notin Items(q) PROVE Single(Append(q, e))
  <2>1. \A i \in 1..Len(q) : q[i] # e
    BY <1>3 DEF Items
  <2>2. \A i, j \in 1..(Len(q) + 1) : Append(q, e)[i] = Append(q, e)[j] => i = j
    BY <1>1, <1>3, <2>1 DEF Single
  <2>q. QED BY <1>1, <2>2 DEF Single
<1>4. ASSUME q # <<>>
      PROVE /\ Items(Tail(q)) \subseteq Items(q) /\ Head(q) \in Items(q)
            /\ Single(q) => Single(Tail(q)) /\ Head(q) \notin Items(Tail(q))
  <2>1. /\ Len(q) \in Nat \ {0} /\ Len(Tail(q)) = Len(q) - 1 /\ Head(q) = q[1]
        /\ \A i \in 1..(Len(q) - 1) : Tail(q)[i] = q[i + 1] /\ i + 1 \in 1..Len(q) /\ i \in Nat \ {0}
    BY <1>4
  <2>q. QED BY <2>1 DEF Items, Single
<1>q. QED BY <1>2, <1>3, <1>4

LEMMA HandIs ==
    /\ \A s, e : e \in InHand(s) <=> \E d \in Drainer : drain[d].queue = s /\ Held(d) /\ drain[d].event = e
    /\ \A s, e : e \in InHand(s)' <=> \E d \in Drainer : drain'[d].queue = s /\ Held(d)' /\ drain'[d].event = e
BY DEF InHand, Held

\* The step seen through the refinement mapping.
LEMMA StepStays ==
    ASSUME UNCHANGED <<created, asked, got>>,
           \A s \in Sub \ asked : queue'[s] = queue[s],
           \A s \in Sub : InHand(s)' = InHand(s)
    PROVE  ChannelStep
<1>1. /\ [s \in Sub |-> IF s \in asked THEN <<>> ELSE queue[s]]' = [s \in Sub |-> IF s \in asked THEN <<>> ELSE queue[s]]
      /\ [s \in Sub |-> InHand(s)]' = [s \in Sub |-> InHand(s)]
  OBVIOUS
<1>q. QED BY <1>1 DEF ChannelStep, Channel!vars

\* Nothing new is seen and nothing more is to be sent.
LEMMA FreshKept ==
    ASSUME Fresh, events \in Nat, events' \in Nat, events <= events', asked \subseteq asked', got' = got,
           \A s \in Sub \ asked' : /\ Items(queue'[s]) \subseteq Items(queue[s]) /\ Single(queue'[s])
                                   /\ InHand(s)' \subseteq InHand(s),
           \A s \in Sub \ asked', p \in Publisher : \A i \in pub'[p].left : pub'[p].target[i] = s =>
               \/ i \in pub[p].left /\ pub[p].target[i] = s /\ pub'[p].event = pub[p].event
               \/ pub'[p].event \notin 1..events
    PROVE  Fresh'
<1>1. ASSUME NEW s \in Sub \ asked'
      PROVE /\ Seen(s)' \subseteq Seen(s)
            /\ Seen(s) \subseteq 1..events
            /\ Items(queue'[s]) \cap InHand(s)' = {}
            /\ \A p \in Publisher : \A i \in pub[p].left : pub[p].target[i] = s => pub[p].event \notin Seen(s)
  <2>1. s \in Sub \ asked
    OBVIOUS
  <2>2. Items(queue[s]) \cap InHand(s) = {} /\ Seen(s) \subseteq 1..events
    BY <2>1 DEF Fresh
  <2>q. QED BY <2>1, <2>2 DEF Fresh, Seen
<1>2. \A s \in Sub \ asked' : Seen(s)' \subseteq 1..events'
  <2>1. 1..events \subseteq 1..events'
    OBVIOUS
  <2>q. QED BY <1>1, <2>1
<1>3. ASSUME NEW s \in Sub \ asked', NEW p \in Publisher, NEW i \in pub'[p].left, pub'[p].target[i] = s
      PROVE pub'[p].event \notin Seen(s)'
  <2>1. CASE pub'[p].event \notin 1..events
    BY <1>1, <2>1
  <2>2. CASE i \in pub[p].left /\ pub[p].target[i] = s /\ pub'[p].event = pub[p].event
    BY <1>1, <2>2
  <2>q. QED BY <1>3, <2>1, <2>2
<1>4. got' \in [Sub -> Seq(Nat)]
  BY DEF Fresh
<1>q. QED BY <1>1, <1>2, <1>3, <1>4 DEF Fresh

\* The queue of a dead slot is an unsubscribed one's, so the reaping and the poison touch no other.
LEMMA DeadAsked ==
    ASSUME PinInv, HandleInv, OneQueue, NEW i \in Pos, IsDying(slot[i])
    PROVE  slot[i].queue \in asked
<1> DEFINE s == slot[i].queue
<1>1. s \in 1..created /\ handle[s].pos \in Pos
  BY DEF OneQueue, IsDying, PinInv, RecsOK, SlotRec
<1>2. s \notin asked => slot[handle[s].pos].alive /\ slot[handle[s].pos].queue = s
  BY <1>1 DEF HandleInv, Valid
<1>q. QED BY <1>1, <1>2 DEF OneQueue, IsDying

LEMMA OthersKeepTheirs ==
    ASSUME PinInv, HandleInv, OneQueue, NEW content, NEW table,
           \A i \in Pos : table[i].queue = slot[i].queue /\ table[i].alive = slot[i].alive
    PROVE  \A s \in Sub \ asked : Remaining(content, table)[s] = content[s]
<1>1. \A i \in Ripe(table) : table[i].queue \in asked
  BY DeadAsked DEF Ripe, IsDying
<1>q. QED BY <1>1 DEF Remaining

LEMMA OneQueueKept ==
    ASSUME OneQueue, created \in Int, created' \in Int, created <= created', \A i \in Pos : slot[i].queue \in Nat,
           \A i \in Pos : slot'[i].queue \in {0, slot[i].queue}, 0 <= created
    PROVE  OneQueue'
BY DEF OneQueue, Pos

\* The publishers.
PubMoved(p, st, L) ==
    \A r \in Publisher :
        IF r = p THEN /\ pub'[r].step = st /\ pub'[r].left = L
                      /\ pub'[r].target = pub[r].target /\ pub'[r].event = pub[r].event
        ELSE pub'[r] = pub[r]

LEMMA PubMoves ==
    ASSUME RecsOK, NEW p \in Publisher
    PROVE  /\ pub' = [pub EXCEPT ![p] = ToNext(p)] => PubMoved(p, "send", pub[p].left \ {At(p)})
           /\ \A st \in {"evict", "resend"} : pub' = [pub EXCEPT ![p].step = st] => PubMoved(p, st, pub[p].left)
<1>1. pub \in [Publisher -> PubRec] /\ pub[p] \in PubRec
  BY DEF RecsOK
<1>2. ASSUME pub' = [pub EXCEPT ![p] = ToNext(p)] PROVE PubMoved(p, "send", pub[p].left \ {At(p)})
  <2>1. \A r \in Publisher : pub'[r] = IF r = p THEN ToNext(p) ELSE pub[r]
    BY <1>1, <1>2
  <2>2. /\ ToNext(p).step = "send" /\ ToNext(p).left = pub[p].left \ {At(p)}
        /\ ToNext(p).target = pub[p].target /\ ToNext(p).event = pub[p].event
    BY <1>1 DEF ToNext, PubRec
  <2>q. QED BY <2>1, <2>2 DEF PubMoved
<1>3. ASSUME NEW st \in {"evict", "resend"}, pub' = [pub EXCEPT ![p].step = st]
      PROVE PubMoved(p, st, pub[p].left)
  <2> DEFINE k == [pub[p] EXCEPT !.step = st]
  <2>1. k.step = st /\ k.left = pub[p].left /\ k.target = pub[p].target /\ k.event = pub[p].event
    BY <1>1 DEF PubRec
  <2>2. \A r \in Publisher : pub'[r] = IF r = p THEN k ELSE pub[r]
    BY <1>1, <1>3
  <2> HIDE DEF k
  <2>q. QED BY <2>1, <2>2 DEF PubMoved
<1>q. QED BY <1>2, <1>3

LEMMA AimedKept ==
    ASSUME Aimed, events' = events, NEW p \in Publisher, NEW st, NEW L,
           PubMoved(p, st, L), pub[p].step # "idle", L \subseteq pub[p].left,
           st \in {"evict", "resend"} => L # {}
    PROVE  Aimed'
<1>1. \A r \in Publisher : /\ pub'[r].left \subseteq pub[r].left /\ pub'[r].target = pub[r].target
                           /\ pub'[r].event = pub[r].event
                           /\ pub'[r].step # "idle" => pub[r].step # "idle"
                           /\ pub'[r].step \in {"evict", "resend"} => pub'[r].left # {}
  BY DEF PubMoved, Aimed
<1>q. QED BY <1>1 DEF Aimed

\* Where the publisher is: a live queue or one somebody unsubscribed, used by nobody else for this event.
LEMMA AimIs ==
    ASSUME PinInv, ChanInv, NEW p \in Publisher, pub[p].step # "idle", pub[p].left # {}
    PROVE  /\ At(p) \in pub[p].left /\ Target(p) \in 1..created /\ Target(p) \in Sub
           /\ pub[p].event \in 1..events /\ pub[p].event \in Nat
           /\ Target(p) \notin asked => pub[p].event \notin Seen(Target(p))
           /\ \A r \in Publisher : \A i \in pub[r].left : pub[r].target[i] = Target(p) =>
                 IF r = p THEN i = At(p) ELSE pub[r].event # pub[p].event
<1>1. pub[p].left \subseteq Pos /\ Pos \subseteq Nat
  BY DEF ChanInv, Aimed, Pos
<1>2. At(p) \in pub[p].left
  BY <1>1, MinExists DEF At
<1>3. At(p) \in Pos /\ Target(p) # 0 /\ slot[At(p)].queue = Target(p)
  BY <1>1, <1>2 DEF ChanInv, Aimed, Target, PinInv, QueuesOutliveUsers
<1>4. Target(p) \in 1..created /\ created <= MaxCreated
  BY <1>3, BusConstants DEF ChanInv, OneQueue, PinInv, RecsOK, SlotRec
<1>5. Target(p) \in Sub
  BY <1>4, BusConstants DEF Sub, PinInv, RecsOK
<1>6. pub[p].event \in 1..events /\ pub[p].event \in Nat
  BY DEF ChanInv, Aimed, PinInv, RecsOK, PubRec
<1>7. Target(p) \notin asked => pub[p].event \notin Seen(Target(p))
  BY <1>2, <1>5 DEF ChanInv, Fresh, Target
<1>8. ASSUME NEW r \in Publisher, NEW i \in pub[r].left, pub[r].target[i] = Target(p)
      PROVE IF r = p THEN i = At(p) ELSE pub[r].event # pub[p].event
  <2>1. i \in Pos /\ pub[r].target[i] # 0 /\ slot[i].queue = Target(p)
    BY <1>8 DEF ChanInv, Aimed, PinInv, QueuesOutliveUsers
  <2>2. i = At(p)
    BY <1>3, <2>1 DEF ChanInv, OneQueue
  <2>3. pub[r].step # "idle"
    BY <2>1 DEF PinInv, IdlePinsNothing
  <2>q. QED BY <2>2, <2>3 DEF ChanInv, Aimed
<1>q. QED BY <1>2, <1>4, <1>5, <1>6, <1>7, <1>8

\* The drainers and the table as they were.
LEMMA DrainersRest ==
    ASSUME Followed, HeldOnce, UNCHANGED <<drain, handle, asked>>, created' = created
    PROVE  Followed' /\ HeldOnce' /\ \A s : InHand(s)' = InHand(s)
BY DEF Followed, HeldOnce, Held, InHand

LEMMA PuttingStep ==
    ASSUME PinInv, ChanInv, NEW p \in Publisher, pub[p].step # "idle", pub[p].left # {},
           UNCHANGED <<bus, drain, events, got, past>>, PubMoved(p, "send", pub[p].left \ {At(p)}),
           queue' = [queue EXCEPT ![Target(p)] = Append(@, pub[p].event)]
    PROVE  ChanInv' /\ ChannelStep
<1>a. Target(p) \in Sub /\ pub[p].event \in Nat
  BY AimIs
<1>b. PICK t \in Sub, e \in Nat : t = Target(p) /\ e = pub[p].event
  BY <1>a
<1>1. /\ t \in 1..created /\ t \in Sub /\ e \in 1..events /\ e \in Nat
      /\ t \notin asked => e \notin Seen(t)
      /\ \A r \in Publisher : \A i \in pub[r].left : pub[r].target[i] = t =>
            IF r = p THEN i = At(p) ELSE pub[r].event # e
  BY <1>b, AimIs
<1>2. queue \in [Sub -> Seq(Nat)] /\ got \in [Sub -> Seq(Nat)] /\ queue[t] \in Seq(Nat)
  BY <1>1 DEF PinInv, RecsOK, ChanInv, Fresh
<1>3. \A s \in Sub : queue'[s] = IF s = t THEN Append(queue[t], e) ELSE queue[s]
  BY <1>b, <1>2
<1>4. Followed' /\ HeldOnce' /\ \A s : InHand(s)' = InHand(s)
  BY DrainersRest DEF ChanInv, past
<1>5. OneQueue'
  BY DEF ChanInv, OneQueue, bus, past
<1>6. Aimed'
  <2>1. pub[p].left \ {At(p)} \subseteq pub[p].left
    OBVIOUS
  <2>q. QED BY <2>1, AimedKept DEF ChanInv
<1>7. /\ Items(Append(queue[t], e)) = Items(queue[t]) \cup {e}
      /\ Single(queue[t]) /\ e \notin Items(queue[t]) => Single(Append(queue[t], e))
  BY <1>1, <1>2, ItemsOf
<1>8. \A r \in Publisher : \A i \in pub'[r].left :
          /\ i \in pub[r].left /\ pub'[r].target[i] = pub[r].target[i] /\ pub'[r].event = pub[r].event
          /\ ~(r = p /\ i = At(p))
  BY DEF PubMoved
<1>9. Fresh'
  <2>1. ASSUME NEW s \in Sub \ asked, s # t
        PROVE /\ Seen(s)' = Seen(s) /\ queue'[s] = queue[s]
    BY <1>3, <1>4, <2>1 DEF Seen
  <2>2. Seen(t)' = Seen(t) \cup {e} /\ queue'[t] = Append(queue[t], e)
    <3>1. queue'[t] = Append(queue[t], e)
      BY <1>1, <1>3
    <3>q. QED BY <1>4, <1>7, <3>1 DEF Seen
  <2>3. ASSUME NEW s \in Sub \ asked
        PROVE /\ Seen(s)' \subseteq 1..events /\ Single(queue'[s])
              /\ Items(queue'[s]) \cap InHand(s)' = {}
    <3>1. /\ Seen(s) \subseteq 1..events /\ Single(queue[s]) /\ Items(queue[s]) \cap InHand(s) = {}
      BY DEF ChanInv, Fresh
    <3>2. CASE s # t
      BY <1>4, <2>1, <3>1, <3>2
    <3>3. CASE s = t
      <4>1. e \notin Items(queue[t]) /\ e \notin InHand(t)
        BY <1>1, <3>3 DEF Seen
      <4>q. QED BY <1>1, <1>4, <1>7, <2>2, <3>1, <3>3, <4>1
    <3>q. QED BY <3>2, <3>3
  <2>4. ASSUME NEW s \in Sub \ asked, NEW r \in Publisher, NEW i \in pub'[r].left, pub'[r].target[i] = s
        PROVE pub'[r].event \notin Seen(s)'
    <3>1. /\ i \in pub[r].left /\ pub[r].target[i] = s /\ pub'[r].event = pub[r].event /\ ~(r = p /\ i = At(p))
      BY <1>8, <2>4
    <3>2. pub[r].event \notin Seen(s)
      BY <3>1 DEF ChanInv, Fresh
    <3>3. CASE s # t
      BY <2>1, <3>1, <3>2, <3>3
    <3>4. CASE s = t
      BY <1>1, <2>2, <3>1, <3>2, <3>4
    <3>q. QED BY <3>3, <3>4
  <2>q. QED BY <1>2, <2>3, <2>4 DEF Fresh, past
<1>10. ChannelStep
  <2>1. CASE t \in asked
    BY <1>3, <1>4, <2>1, StepStays DEF past
  <2>2. CASE t \notin asked
    <3> DEFINE C == [s \in Sub |-> IF s \in asked THEN <<>> ELSE queue[s]]
               H == [s \in Sub |-> InHand(s)]
    <3>1. C' = [C EXCEPT ![t] = Append(@, e)] /\ H' = H
      BY <1>1, <1>3, <1>4, <2>2 DEF past
    <3>2. C[t] = queue[t] /\ H[t] = InHand(t) /\ got[t] \in Seq(Nat)
      BY <1>1, <1>2, <2>2
    <3>3. /\ e \in 1..MaxEvents
          /\ \A i \in DOMAIN queue[t] : queue[t][i] # e
          /\ \A i \in DOMAIN got[t] : got[t][i] # e
          /\ e \notin InHand(t)
      <4>1. events \in Nat /\ events <= MaxEvents /\ MaxEvents \in Nat
        BY BusConstants DEF ChanInv, Aimed, PinInv, RecsOK
      <4>2. e \in 1..MaxEvents
        BY <1>1, <4>1
      <4>3. DOMAIN queue[t] = 1..Len(queue[t]) /\ DOMAIN got[t] = 1..Len(got[t])
        BY <1>2, <3>2
      <4>q. QED BY <1>1, <2>2, <4>2, <4>3 DEF Seen, Items
    <3> HIDE DEF C, H
    <3>4. Channel!Put(t)
      BY <1>1, <2>2, <3>1, <3>2, <3>3 DEF Channel!Put, C, H, past
    <3>q. QED BY <1>1, <3>4 DEF ChannelStep, Channel!Next
  <2>q. QED BY <2>1, <2>2
<1>q. QED BY <1>4, <1>5, <1>6, <1>9, <1>10 DEF ChanInv

LEMMA PassingStep ==
    ASSUME PinInv, ChanInv, NEW p \in Publisher, pub[p].step # "idle", NEW st, NEW L,
           PubMoved(p, st, L), L \subseteq pub[p].left, st \in {"evict", "resend"} => L # {},
           UNCHANGED <<bus, queue, drain, events, got, past>>
    PROVE  ChanInv' /\ ChannelStep
<1>1. Followed' /\ HeldOnce' /\ \A s : InHand(s)' = InHand(s)
  BY DrainersRest DEF ChanInv, past
<1>2. OneQueue'
  BY DEF ChanInv, OneQueue, bus, past
<1>3. Aimed'
  BY AimedKept DEF ChanInv
<1>4. \A r \in Publisher : \A i \in pub'[r].left :
          i \in pub[r].left /\ pub'[r].target[i] = pub[r].target[i] /\ pub'[r].event = pub[r].event
  BY DEF PubMoved
<1>5. Fresh'
  <2>1. events \in Nat /\ events' = events /\ got' = got /\ asked' = asked
    BY DEF PinInv, RecsOK, past
  <2>2. \A s \in Sub \ asked : queue'[s] = queue[s] /\ Single(queue[s])
    BY DEF ChanInv, Fresh
  <2>q. QED BY <1>1, <1>4, <2>1, <2>2, FreshKept DEF ChanInv
<1>6. ChannelStep
  BY <1>1, StepStays DEF past
<1>q. QED BY <1>1, <1>2, <1>3, <1>5, <1>6 DEF ChanInv

LEMMA EvictStep ==
    ASSUME PinInv, ChanInv, NEW p \in Publisher, Evict(p)
    PROVE  ChanInv' /\ ChannelStep
<1>1. /\ pub[p].step = "evict" /\ pub[p].left # {} /\ UNCHANGED <<bus, drain, events, got, past>>
      /\ PubMoved(p, "resend", pub[p].left)
  BY PubMoves DEF Evict, ChanInv, Aimed, PinInv
<1>2. CASE queue' = queue
  <2>1. UNCHANGED <<bus, queue, drain, events, got, past>>
    BY <1>1, <1>2
  <2>q. QED BY <1>1, <2>1, PassingStep
<1>3. CASE queue' # queue
  <2>1. Target(p) \in Sub /\ queue \in [Sub -> Seq(Nat)]
    BY <1>1, AimIs DEF PinInv, RecsOK
  <2>2. PICK t \in Sub : t = Target(p)
    BY <2>1
  <2>3. queue[t] # <<>> /\ queue' = [queue EXCEPT ![t] = Tail(@)] /\ queue[t] \in Seq(Nat)
    <3>1. queue' = [queue EXCEPT ![t] = IF @ = <<>> THEN @ ELSE Tail(@)]
      BY <2>2 DEF Evict
    <3>2. queue[t] # <<>>
      BY <1>3, <2>1, <3>1
    <3>q. QED BY <2>1, <3>1, <3>2
  <2>4. \A s \in Sub : queue'[s] = IF s = t THEN Tail(queue[t]) ELSE queue[s]
    BY <2>1, <2>3
  <2>5. Followed' /\ HeldOnce' /\ \A s : InHand(s)' = InHand(s)
    BY <1>1, DrainersRest DEF ChanInv, past
  <2>6. OneQueue'
    BY <1>1 DEF ChanInv, OneQueue, bus, past
  <2>7. Aimed'
    BY <1>1, AimedKept DEF ChanInv
  <2>8. Fresh'
    <3>1. events \in Nat /\ events' = events /\ got' = got /\ asked' = asked
      BY <1>1 DEF PinInv, RecsOK, past
    <3>2. \A s \in Sub \ asked : Items(queue'[s]) \subseteq Items(queue[s]) /\ Single(queue'[s])
      <4>1. \A s \in Sub \ asked : Single(queue[s])
        BY DEF ChanInv, Fresh
      <4>2. Items(Tail(queue[t])) \subseteq Items(queue[t]) /\ (Single(queue[t]) => Single(Tail(queue[t])))
        BY <2>3, ItemsOf
      <4>q. QED BY <2>4, <4>1, <4>2
    <3>3. \A r \in Publisher : \A i \in pub'[r].left :
              i \in pub[r].left /\ pub'[r].target[i] = pub[r].target[i] /\ pub'[r].event = pub[r].event
      BY <1>1 DEF PubMoved
    <3>q. QED BY <2>5, <3>1, <3>2, <3>3, FreshKept DEF ChanInv
  <2>9. ChannelStep
    <3>1. CASE t \in asked
      BY <1>1, <2>4, <2>5, <3>1, StepStays DEF past
    <3>2. CASE t \notin asked
      <4> DEFINE C == [s \in Sub |-> IF s \in asked THEN <<>> ELSE queue[s]]
                 H == [s \in Sub |-> InHand(s)]
      <4>1. C' = [C EXCEPT ![t] = Tail(@)] /\ H' = H /\ C[t] = queue[t]
        BY <1>1, <2>4, <2>5, <3>2 DEF past
      <4> HIDE DEF C, H
      <4>2. Channel!DropOldest(t)
        BY <1>1, <2>3, <4>1 DEF Channel!DropOldest, C, H, past
      <4>q. QED BY <4>2 DEF ChannelStep, Channel!Next
    <3>q. QED BY <3>1, <3>2
  <2>q. QED BY <2>5, <2>6, <2>7, <2>8, <2>9 DEF ChanInv
<1>q. QED BY <1>2, <1>3

LEMMA PublisherSteps ==
    ASSUME PinInv, ChanInv, NEW p \in Publisher, Filtered(p) \/ Send(p) \/ Evict(p) \/ Resend(p)
    PROVE  ChanInv' /\ ChannelStep
<1>1. pub[p].left \ {At(p)} \subseteq pub[p].left /\ RecsOK
  BY DEF PinInv
<1>2. CASE Filtered(p)
  <2>1. /\ pub[p].step = "send" /\ UNCHANGED <<bus, queue, drain, events, got, past>>
        /\ PubMoved(p, "send", pub[p].left \ {At(p)})
    BY <1>1, <1>2, PubMoves DEF Filtered
  <2>q. QED BY <1>1, <2>1, PassingStep
<1>3. CASE Send(p)
  <2>1. pub[p].step = "send" /\ pub[p].left # {} /\ UNCHANGED <<bus, drain, events, got, past>>
    BY <1>3 DEF Send
  <2>2. CASE /\ queue' = [queue EXCEPT ![Target(p)] = Append(@, pub[p].event)]
             /\ pub' = [pub EXCEPT ![p] = ToNext(p)]
    <3>1. PubMoved(p, "send", pub[p].left \ {At(p)})
      BY <1>1, <2>2, PubMoves
    <3>q. QED BY <2>1, <2>2, <3>1, PuttingStep
  <2>3. CASE pub' = [pub EXCEPT ![p].step = "evict"] /\ queue' = queue
    <3>1. PubMoved(p, "evict", pub[p].left) /\ UNCHANGED <<bus, queue, drain, events, got, past>>
      BY <1>1, <2>1, <2>3, PubMoves
    <3>q. QED BY <2>1, <3>1, PassingStep
  <2>q. QED BY <1>3, <2>2, <2>3 DEF Send
<1>4. CASE Resend(p)
  <2>1. /\ pub[p].step = "resend" /\ pub[p].left # {} /\ UNCHANGED <<bus, drain, events, got, past>>
        /\ PubMoved(p, "send", pub[p].left \ {At(p)})
        /\ queue' = [queue EXCEPT ![Target(p)] = Sent(@, pub[p].event)]
    BY <1>1, <1>4, PubMoves DEF Resend, ChanInv, Aimed
  <2>2. \/ queue' = [queue EXCEPT ![Target(p)] = Append(@, pub[p].event)]
        \/ queue' = [queue EXCEPT ![Target(p)] = @]
    BY <2>1 DEF Sent
  <2>3. queue = [queue EXCEPT ![Target(p)] = @]
    BY DEF PinInv, RecsOK
  <2>4. CASE queue' = queue
    <3>1. UNCHANGED <<bus, queue, drain, events, got, past>>
      BY <2>1, <2>4
    <3>q. QED BY <1>1, <2>1, <3>1, PassingStep
  <2>q. QED BY <2>1, <2>2, <2>3, <2>4, PuttingStep
<1>q. QED BY <1>2, <1>3, <1>4, EvictStep

\* Steps that touch table and dead queues only.
LEMMA TableStep ==
    ASSUME PinInv, HandleInv, ChanInv, UNCHANGED <<drain, events, got, past>>,
           \A i \in Pos : slot'[i].queue \in {0, slot[i].queue},
           \A s \in Sub \ asked : queue'[s] = queue[s], Aimed',
           \A p \in Publisher : \A i \in pub'[p].left :
              i \in pub[p].left /\ pub'[p].target[i] = pub[p].target[i] /\ pub'[p].event = pub[p].event
    PROVE  ChanInv' /\ ChannelStep
<1>1. Followed' /\ HeldOnce' /\ \A s : InHand(s)' = InHand(s)
  BY DrainersRest DEF ChanInv, past
<1>2. OneQueue'
  <2>1. created \in Nat /\ created' = created /\ \A i \in Pos : slot[i].queue \in Nat
    BY BusConstants DEF PinInv, RecsOK, SlotRec, past
  <2>q. QED BY <2>1, OneQueueKept DEF ChanInv
<1>3. Fresh'
  <2>1. events \in Nat /\ events' = events /\ got' = got /\ asked' = asked
    BY DEF PinInv, RecsOK, past
  <2>2. \A s \in Sub \ asked : queue'[s] = queue[s] /\ Single(queue[s])
    BY DEF ChanInv, Fresh
  <2>q. QED BY <1>1, <2>1, <2>2, FreshKept DEF ChanInv
<1>4. ChannelStep
  BY <1>1, StepStays DEF past
<1>q. QED BY <1>1, <1>2, <1>3, <1>4 DEF ChanInv

LEMMA SubscribeFailsStep ==
    ASSUME PinInv, HandleInv, ChanInv, SubscribeFails
    PROVE  ChanInv' /\ ChannelStep
<1>1. /\ slot' = Reaped(slot) /\ queue' = Remaining(queue, slot) /\ UNCHANGED <<pub, drain, events, got, past>>
  BY DEF SubscribeFails
<1>2. \A i \in Pos : slot'[i].queue \in {0, slot[i].queue}
  BY <1>1, ReapedSlot DEF PinInv, RecsOK
<1>3. \A s \in Sub \ asked : queue'[s] = queue[s]
  BY <1>1, OthersKeepTheirs DEF ChanInv
<1>4. Aimed'
  BY <1>1 DEF ChanInv, Aimed
<1>q. QED BY <1>1, <1>2, <1>3, <1>4, TableStep

LEMMA FinishStep ==
    ASSUME PinInv, HandleInv, ChanInv, NEW p \in Publisher, Finish(p)
    PROVE  ChanInv' /\ ChannelStep
<1> DEFINE table == [i \in Pos |-> IF pub[p].target[i] # 0 THEN Unpinned(slot[i]) ELSE slot[i]]
<1>1. /\ slot' = Reaped(table) /\ queue' = Remaining(queue, table) /\ UNCHANGED <<drain, events, got, past>>
      /\ pub' = [pub EXCEPT ![p] = NoPublish]
  BY DEF Finish
<1>2. \A i \in Pos : pub[p].target[i] # 0 => slot[i].inflight # 0
  <2>1. \A i \in Pos : pub[p].target[i] # 0 => p \in Users(i)
    BY DEF Users
  <2>q. QED BY <2>1, OneUser, FiniteUsers DEF PinInv, UsersCounted
<1>3. \A i \in Pos : table[i] \in SlotRec /\ table[i].queue = slot[i].queue /\ table[i].alive = slot[i].alive
  <2>1. \A i \in Pos : slot[i] \in SlotRec
    BY DEF PinInv, RecsOK
  <2>q. QED BY <1>2, <2>1, SlotChange
<1>4. table \in [Pos -> SlotRec]
  BY <1>3
<1> HIDE DEF table
<1>5. \A i \in Pos : slot'[i].queue \in {0, slot[i].queue}
  BY <1>1, <1>3, <1>4, ReapedSlot
<1>6. \A s \in Sub \ asked : queue'[s] = queue[s]
  BY <1>1, <1>3, OthersKeepTheirs DEF ChanInv
<1>7. \A r \in Publisher : IF r = p THEN pub'[r].left = {} /\ pub'[r].step = "idle" ELSE pub'[r] = pub[r]
  BY <1>1 DEF NoPublish, PinInv, RecsOK
<1>8. Aimed'
  BY <1>1, <1>7 DEF ChanInv, Aimed
<1>9. \A r \in Publisher : \A i \in pub'[r].left :
              i \in pub[r].left /\ pub'[r].target[i] = pub[r].target[i] /\ pub'[r].event = pub[r].event
  BY <1>7
<1>q. QED BY <1>1, <1>5, <1>6, <1>8, <1>9, TableStep

LEMMA PublishStep ==
    ASSUME PinInv, InReach(hwm, slot), ChanInv, NEW p \in Publisher, Publish(p)
    PROVE  ChanInv' /\ ChannelStep
<1> DEFINE T == {i \in 1..hwm : slot[i].alive /\ slot[i].queue # 0}
           new == [step |-> "send", event |-> events + 1, left |-> T,
                   target |-> [i \in Pos |-> IF i \in T THEN slot[i].queue ELSE 0]]
<1>1. /\ pub[p].step = "idle" /\ events < MaxEvents /\ events' = events + 1
      /\ slot' = [i \in Pos |-> IF i \in T THEN Pinning(slot[i]) ELSE slot[i]]
      /\ pub' = [pub EXCEPT ![p] = IF T = {} THEN NoPublish ELSE new]
      /\ UNCHANGED <<hwm, dying_count, queue, drain, got, past>>
  BY DEF Publish
<1>2. T \subseteq Pos /\ \A i \in T : slot[i].queue # 0
  BY BusConstants DEF InReach, Pos
<1> HIDE DEF T
<1>3. new.step = "send" /\ new.event = events + 1 /\ new.left = T /\ \A i \in T : new.target[i] # 0
  BY <1>2
<1> HIDE DEF new
<1>4. \A r \in Publisher : r # p => pub'[r] = pub[r]
  BY <1>1 DEF PinInv, RecsOK
<1>5. \/ pub'[p].step = "idle" /\ pub'[p].left = {}
      \/ pub'[p].step = "send" /\ pub'[p].event = events + 1 /\ pub'[p].left \subseteq {i \in Pos : pub'[p].target[i] # 0}
  <2>1. pub'[p] = IF T = {} THEN NoPublish ELSE new
    BY <1>1 DEF PinInv, RecsOK
  <2>2. CASE T = {}
    BY <2>1, <2>2 DEF NoPublish
  <2>3. CASE T # {}
    BY <1>2, <1>3, <2>1, <2>3
  <2>q. QED BY <2>2, <2>3
<1>6. events \in Nat /\ MaxEvents \in Nat
  BY BusConstants DEF PinInv, RecsOK
<1>7. Aimed'
  <2>1. \A r \in Publisher :
          /\ pub'[r].left \subseteq {i \in Pos : pub'[r].target[i] # 0}
          /\ pub'[r].step \in {"evict", "resend"} => pub'[r].left # {}
          /\ pub'[r].step # "idle" => pub'[r].event \in 1..events'
    <3> TAKE r \in Publisher
    <3>1. CASE r = p
      BY <1>1, <1>5, <1>6, <3>1
    <3>2. CASE r # p
      <4>1. pub'[r] = pub[r] /\ 1..events \subseteq 1..events'
        BY <1>1, <1>4, <1>6, <3>2
      <4>q. QED BY <4>1 DEF ChanInv, Aimed
    <3>q. QED BY <3>1, <3>2
  <2>2. \A r \in Publisher : r # p /\ pub[r].step # "idle" => pub[r].event # events + 1
    BY <1>6 DEF ChanInv, Aimed
  <2>3. \A r, q \in Publisher :
          r # q /\ pub'[r].step # "idle" /\ pub'[q].step # "idle" => pub'[r].event # pub'[q].event
    <3> TAKE r, q \in Publisher
    <3>1. CASE r = p
      BY <1>4, <1>5, <2>2, <3>1
    <3>2. CASE q = p
      BY <1>4, <1>5, <2>2, <3>2
    <3>3. CASE r # p /\ q # p
      BY <1>4, <3>3 DEF ChanInv, Aimed
    <3>q. QED BY <3>1, <3>2, <3>3
  <2>4. events' <= MaxEvents
    BY <1>1, <1>6
  <2>q. QED BY <2>1, <2>3, <2>4 DEF Aimed
<1>8. Followed' /\ HeldOnce' /\ \A s : InHand(s)' = InHand(s)
  BY <1>1, DrainersRest DEF ChanInv, past
<1>9. OneQueue'
  <2>1. \A i \in Pos : slot'[i].queue = slot[i].queue
    <3>1. \A i \in Pos : slot[i] \in SlotRec
      BY DEF PinInv, RecsOK
    <3>q. QED BY <1>1, <3>1, SlotChange
  <2>q. QED BY <1>1, <2>1 DEF ChanInv, OneQueue, past
<1>10. Fresh'
  <2>1. \A s \in Sub \ asked : queue'[s] = queue[s] /\ Single(queue[s])
    BY <1>1 DEF ChanInv, Fresh
  <2>2. events' \in Nat /\ events <= events' /\ asked' = asked /\ got' = got
    BY <1>1, <1>6 DEF past
  <2>3. \A r \in Publisher : \A i \in pub'[r].left :
          \/ i \in pub[r].left /\ pub'[r].target[i] = pub[r].target[i] /\ pub'[r].event = pub[r].event
          \/ pub'[r].event \notin 1..events
    <3> TAKE r \in Publisher
    <3>1. CASE r = p
      BY <1>5, <1>6, <3>1
    <3>2. CASE r # p
      BY <1>4, <3>2
    <3>q. QED BY <3>1, <3>2
  <2>q. QED BY <1>6, <1>8, <2>1, <2>2, <2>3, FreshKept DEF ChanInv
<1>11. ChannelStep
  BY <1>1, <1>8, StepStays DEF past
<1>q. QED BY <1>7, <1>8, <1>9, <1>10, <1>11 DEF ChanInv

LEMMA SubscribeStep ==
    ASSUME PinInv, HandleInv, ChanInv, Subscribe
    PROVE  ChanInv' /\ ChannelStep
<1> DEFINE R == Reaped(slot)
<1>1. PICK i \in Pos :
          /\ IsFree(R[i]) /\ slot' = [R EXCEPT ![i] = Made(@)]
          /\ handle' = [handle EXCEPT ![created + 1] = [pos |-> i, gen |-> slot'[i].gen]]
  BY DEF Subscribe
<1>2. /\ created' = created + 1 /\ created < MaxCreated /\ queue' = Remaining(queue, slot)
      /\ UNCHANGED <<pub, drain, events, got, asked>>
  BY DEF Subscribe
<1>3. R \in [Pos -> SlotRec] /\ \A j \in Pos : R[j].queue \in {0, slot[j].queue}
  BY ReapedSlot DEF PinInv, RecsOK
<1>4. created \in Nat /\ MaxCreated \in Nat /\ \A j \in Pos : slot[j].queue \in Nat /\ slot[j].queue <= created
  BY BusConstants DEF PinInv, RecsOK, SlotRec, ChanInv, OneQueue
<1> HIDE DEF R
<1>5. \A j \in Pos : slot'[j].queue = IF j = i THEN created + 1 ELSE R[j].queue
  BY <1>1, <1>3 DEF Made, SlotRec
<1>6. OneQueue'
  <2>1. \A j \in Pos : slot'[j].queue <= created'
    BY <1>2, <1>3, <1>4, <1>5
  <2>2. ASSUME NEW j \in Pos, NEW k \in Pos, slot'[j].queue = slot'[k].queue, slot'[j].queue # 0
        PROVE j = k
    <3>1. \A n \in Pos : R[n].queue # created + 1
      BY <1>3, <1>4
    <3>2. CASE j # i /\ k # i
      BY <1>3, <1>5, <2>2, <3>2 DEF ChanInv, OneQueue
    <3>q. QED BY <1>5, <2>2, <3>1, <3>2
  <2>q. QED BY <2>1, <2>2 DEF OneQueue
<1>7. Aimed'
  BY <1>2 DEF ChanInv, Aimed
<1>8. HeldOnce' /\ \A s : InHand(s)' = InHand(s)
  BY <1>2 DEF ChanInv, HeldOnce, Held, InHand
<1>9. Followed'
  <2>1. \A s \in 1..created : handle'[s] = handle[s] /\ s \in 1..created'
    BY <1>1, <1>2, <1>4 DEF PinInv, RecsOK, Sub
  <2>q. QED BY <1>2, <2>1 DEF ChanInv, Followed
<1>10. \A s \in Sub \ asked : queue'[s] = queue[s]
  BY <1>2, OthersKeepTheirs DEF ChanInv
<1>11. Fresh'
  <2>1. \A s \in Sub \ asked : queue'[s] = queue[s] /\ Single(queue[s])
    BY <1>10 DEF ChanInv, Fresh
  <2>2. events \in Nat
    BY DEF PinInv, RecsOK
  <2>q. QED BY <1>2, <1>8, <2>1, <2>2, FreshKept DEF ChanInv
<1>12. ChannelStep
  <2>1. PICK s \in Sub : s = created + 1
    BY <1>2, <1>4 DEF Sub
  <2>2. 1..created' = (1..created) \cup {s} /\ s \notin 1..created
    BY <1>2, <1>4, <2>1
  <2>3. /\ [t \in Sub |-> IF t \in asked THEN <<>> ELSE queue[t]]' = [t \in Sub |-> IF t \in asked THEN <<>> ELSE queue[t]]
        /\ [t \in Sub |-> InHand(t)]' = [t \in Sub |-> InHand(t)]
    BY <1>2, <1>8, <1>10
  <2>4. Channel!Open(s)
    BY <1>2, <2>2, <2>3 DEF Channel!Open
  <2>q. QED BY <2>4 DEF ChannelStep, Channel!Next
<1>q. QED BY <1>6, <1>7, <1>8, <1>9, <1>11, <1>12 DEF ChanInv

LEMMA UnsubscribeStep ==
    ASSUME PinInv, HandleInv, ChanInv, NEW s \in Sub, Unsubscribe(s)
    PROVE  ChanInv' /\ ChannelStep
<1> DEFINE i == handle[s].pos
           e == [slot[i] EXCEPT !.alive = FALSE, !.gen = Bump(@)]
           f == [e EXCEPT !.queue = 0]
<1>1. /\ s \in 1..created /\ Valid(s) /\ i \in Pos /\ slot[i] \in SlotRec
      /\ asked' = asked \cup {s} /\ UNCHANGED <<pub, drain, events, got, created, handle>>
  BY DEF Unsubscribe, PinInv, RecsOK
<1>2. s \notin asked /\ slot[i].queue = s
  <2>1. s \in asked => slot[i].gen > handle[s].gen /\ slot[i].gen = handle[s].gen /\ slot[i].gen \in Int
    BY <1>1, BusConstants DEF HandleInv, Valid, SlotRec
  <2>2. s \notin asked
    BY <2>1
  <2>q. QED BY <1>1, <2>2 DEF HandleInv
<1>3. e.queue = s /\ f.queue = 0
  BY <1>1, <1>2 DEF SlotRec
<1>4. \/ slot' = [slot EXCEPT ![i] = f] /\ queue' = [queue EXCEPT ![e.queue] = <<>>]
      \/ slot' = [slot EXCEPT ![i] = e] /\ queue' = [queue EXCEPT ![e.queue] = Sent(@, Poison)]
  BY DEF Unsubscribe
<1> HIDE DEF e, f
<1>5. \A j \in Pos : slot'[j].queue \in {0, slot[j].queue}
  <2>1. \A j \in Pos : slot'[j].queue = IF j = i THEN slot'[i].queue ELSE slot[j].queue
    BY <1>4 DEF PinInv, RecsOK
  <2>2. slot'[i].queue \in {0, s}
    BY <1>1, <1>3, <1>4 DEF PinInv, RecsOK
  <2>q. QED BY <1>2, <2>1, <2>2
<1>6. \A t \in Sub : t # s => queue'[t] = queue[t]
  BY <1>3, <1>4 DEF PinInv, RecsOK
<1>7. \A t \in Sub : InHand(t)' \subseteq InHand(t) /\ (t # s => InHand(t)' = InHand(t))
  BY <1>1 DEF InHand
<1>8. OneQueue'
  <2>1. created \in Nat /\ created' = created /\ \A j \in Pos : slot[j].queue \in Nat
    BY <1>1, BusConstants DEF PinInv, RecsOK, SlotRec
  <2>q. QED BY <1>5, <2>1, OneQueueKept DEF ChanInv
<1>9. Aimed' /\ Followed'
  BY <1>1 DEF ChanInv, Aimed, Followed
<1>10. HeldOnce'
  <2>1. \A d \in Drainer : Held(d)' => Held(d)
    BY <1>1 DEF Held
  <2>q. QED BY <1>1, <2>1 DEF ChanInv, HeldOnce
<1>11. Fresh'
  <2>1. \A t \in Sub \ asked' : queue'[t] = queue[t] /\ Single(queue[t]) /\ t \notin asked
    BY <1>1, <1>6 DEF ChanInv, Fresh
  <2>2. events \in Nat
    BY DEF PinInv, RecsOK
  <2>q. QED BY <1>1, <1>7, <2>1, <2>2, FreshKept DEF ChanInv
<1>12. ChannelStep
  <2> DEFINE C == [t \in Sub |-> IF t \in asked THEN <<>> ELSE queue[t]]
             H == [t \in Sub |-> InHand(t)]
  <2>1. C' = [C EXCEPT ![s] = <<>>]
    BY <1>1, <1>6
  <2>2. H' = [H EXCEPT ![s] = InHand(s)'] /\ InHand(s)' \in SUBSET H[s]
    BY <1>7
  <2>3. 1..created' = 1..created
    BY <1>1
  <2> HIDE DEF C, H
  <2>4. Channel!Close(s)
    <3>1. \E G \in SUBSET H[s] : H' = [H EXCEPT ![s] = G]
      BY <2>2
    <3>q. QED BY <1>1, <1>2, <2>1, <2>3, <3>1 DEF Channel!Close, C, H
  <2>q. QED BY <2>4 DEF ChannelStep, Channel!Next
<1>q. QED BY <1>8, <1>9, <1>10, <1>11, <1>12 DEF ChanInv

\* The drainers.
LEMMA HandStays ==
    ASSUME HeldOnce, NEW d \in Drainer, asked' = asked,
           \A k \in Drainer : k # d => drain'[k] = drain[k],
           Held(d)' <=> Held(d),
           Held(d) => drain'[d].queue = drain[d].queue /\ drain'[d].event = drain[d].event
    PROVE  HeldOnce' /\ \A s : InHand(s)' = InHand(s)
<1>1. \A k \in Drainer : (Held(k)' <=> Held(k)) /\ (Held(k) => drain'[k].queue = drain[k].queue /\ drain'[k].event = drain[k].event)
  BY DEF Held
<1>2. HeldOnce'
  BY <1>1 DEF HeldOnce
<1>3. \A s, e : e \in InHand(s)' <=> e \in InHand(s)
  BY <1>1, HandIs
<1>4. \A s : InHand(s)' = InHand(s)
  <2> TAKE s
  <2>1. \A e : e \in InHand(s)' <=> e \in InHand(s)
    BY <1>3
  <2>q. QED BY <2>1
<1>q. QED BY <1>2, <1>4

\* Steps of a drainer whose event reaches nobody's hand or stays in its own.
LEMMA DrainerStep ==
    ASSUME PinInv, HandleInv, ChanInv, NEW d \in Drainer, UNCHANGED <<pub, events, got, past>>,
           \A k \in Drainer : k # d => drain'[k] = drain[k],
           Held(d)' <=> Held(d),
           Held(d) => drain'[d].queue = drain[d].queue /\ drain'[d].event = drain[d].event,
           drain'[d].step # "idle" => /\ drain'[d].queue \in 1..created
                                      /\ handle[drain'[d].queue].pos = drain'[d].pos
                                      /\ handle[drain'[d].queue].gen = drain'[d].gen,
           \A i \in Pos : slot'[i].queue \in {0, slot[i].queue},
           \A s \in Sub \ asked : queue'[s] = queue[s]
    PROVE  ChanInv' /\ ChannelStep
<1>1. HeldOnce' /\ \A s : InHand(s)' = InHand(s)
  BY HandStays DEF ChanInv, past
<1>2. Followed'
  BY DEF ChanInv, Followed, past
<1>3. OneQueue'
  <2>1. created \in Nat /\ created' = created /\ \A i \in Pos : slot[i].queue \in Nat
    BY BusConstants DEF PinInv, RecsOK, SlotRec, past
  <2>q. QED BY <2>1, OneQueueKept DEF ChanInv
<1>4. Aimed'
  BY DEF ChanInv, Aimed
<1>5. Fresh'
  <2>1. events \in Nat /\ events' = events /\ got' = got /\ asked' = asked
    BY DEF PinInv, RecsOK, past
  <2>2. \A s \in Sub \ asked : queue'[s] = queue[s] /\ Single(queue[s])
    BY DEF ChanInv, Fresh
  <2>q. QED BY <1>1, <2>1, <2>2, FreshKept DEF ChanInv
<1>6. ChannelStep
  BY <1>1, StepStays DEF past
<1>q. QED BY <1>1, <1>2, <1>3, <1>4, <1>5, <1>6 DEF ChanInv

LEMMA DrainBeginStep ==
    ASSUME PinInv, HandleInv, ChanInv, NEW d \in Drainer, NEW s \in Sub, DrainBegin(d, s)
    PROVE  ChanInv' /\ ChannelStep
<1> DEFINE i == handle[s].pos
           new == [step |-> IF d = Pump THEN "receive" ELSE "wait",
                   pos |-> i, gen |-> handle[s].gen, queue |-> slot[i].queue, event |-> 0]
<1>1. /\ drain[d].step = "idle" /\ s \in 1..created /\ Valid(s) /\ i \in Pos
      /\ drain' = [drain EXCEPT ![d] = new] /\ slot' = [slot EXCEPT ![i] = Pinning(@)]
      /\ UNCHANGED <<hwm, dying_count, queue, pub, events, got, past>>
  BY DEF DrainBegin, PinInv, RecsOK
<1>2. slot[i].queue = s
  <2>1. slot[i] \in SlotRec
    BY <1>1 DEF PinInv, RecsOK
  <2>2. s \in asked => slot[i].gen > handle[s].gen /\ slot[i].gen = handle[s].gen /\ slot[i].gen \in Int
    BY <1>1, <2>1, BusConstants DEF HandleInv, Valid, SlotRec
  <2>3. s \notin asked
    BY <2>2
  <2>q. QED BY <1>1, <2>3 DEF HandleInv
<1>3. new.step \in {"wait", "receive"} /\ new.pos = i /\ new.gen = handle[s].gen /\ new.queue = s
  BY <1>2
<1> HIDE DEF new
<1>4. drain'[d] = new /\ \A k \in Drainer : k # d => drain'[k] = drain[k]
  BY <1>1 DEF PinInv, RecsOK
<1>5. ~Held(d) /\ ~Held(d)'
  BY <1>1, <1>3, <1>4 DEF Held
<1>6. \A j \in Pos : slot'[j].queue \in {0, slot[j].queue}
  <2>1. \A j \in Pos : slot[j] \in SlotRec
    BY DEF PinInv, RecsOK
  <2>2. Pinning(slot[i]).queue = slot[i].queue
    BY <1>1, <2>1, SlotChange
  <2>3. \A j \in Pos : slot'[j] = IF j = i THEN Pinning(slot[i]) ELSE slot[j]
    BY <1>1 DEF PinInv, RecsOK
  <2>q. QED BY <2>2, <2>3
<1>7. drain'[d].queue \in 1..created /\ handle[drain'[d].queue].pos = drain'[d].pos /\ handle[drain'[d].queue].gen = drain'[d].gen
  BY <1>1, <1>3, <1>4
<1>q. QED BY <1>1, <1>4, <1>5, <1>6, <1>7, DrainerStep

LEMMA LeaveStep ==
    ASSUME PinInv, HandleInv, ChanInv, NEW d \in Drainer, Leave(d)
    PROVE  ChanInv' /\ ChannelStep
<1> DEFINE i == drain[d].pos
           table == [slot EXCEPT ![i] = Unpinned(@)]
<1>1. /\ drain[d].step = "leave" /\ slot' = Reaped(table) /\ queue' = Remaining(HandedOn(queue, table[i]), table)
      /\ drain' = [drain EXCEPT ![d] = NoDrain] /\ UNCHANGED <<pub, events, got, past>>
  BY DEF Leave
<1>2. i \in Pos /\ slot[i].inflight # 0
  <2>1. i \in Pos /\ d \in Users(i)
    BY <1>1 DEF PinInv, IdlePinsNothing, Users
  <2>q. QED BY <2>1, OneUser, FiniteUsers DEF PinInv, UsersCounted
<1>3. /\ Unpinned(slot[i]) \in SlotRec /\ Unpinned(slot[i]).queue = slot[i].queue
      /\ Unpinned(slot[i]).alive = slot[i].alive
  <2>1. slot[i] \in SlotRec
    BY <1>2 DEF PinInv, RecsOK
  <2>q. QED BY <1>2, <2>1, SlotChange
<1>4. table \in [Pos -> SlotRec] /\ \A n \in Pos : table[n].queue = slot[n].queue /\ table[n].alive = slot[n].alive
  <2>1. \A n \in Pos : table[n] = IF n = i THEN Unpinned(slot[i]) ELSE slot[n]
    BY <1>2 DEF PinInv, RecsOK
  <2>2. table \in [Pos -> SlotRec]
    BY <1>3 DEF PinInv, RecsOK
  <2>q. QED BY <1>3, <2>1, <2>2
<1> HIDE DEF table
<1>5. \A n \in Pos : slot'[n].queue \in {0, slot[n].queue}
  BY <1>1, <1>4, ReapedSlot
<1>6. \A s \in Sub \ asked : queue'[s] = queue[s]
  <2>1. \A s \in Sub \ asked : HandedOn(queue, table[i])[s] = queue[s]
    <3>1. IsDying(table[i]) => table[i].queue \in asked
      BY <1>2, <1>4, DeadAsked DEF IsDying, ChanInv
    <3>q. QED BY <3>1 DEF HandedOn, PinInv, RecsOK
  <2>2. \A s \in Sub \ asked : queue'[s] = HandedOn(queue, table[i])[s]
    BY <1>1, <1>4, OthersKeepTheirs DEF ChanInv
  <2>q. QED BY <2>1, <2>2
<1>7. drain'[d].step = "idle" /\ \A k \in Drainer : k # d => drain'[k] = drain[k]
  BY <1>1 DEF NoDrain, PinInv, RecsOK
<1>8. ~Held(d) /\ ~Held(d)'
  BY <1>1, <1>7 DEF Held
<1>q. QED BY <1>1, <1>5, <1>6, <1>7, <1>8, DrainerStep

DrainMoved(d, st, e) ==
    \A k \in Drainer :
        IF k = d THEN /\ drain'[k].step = st /\ drain'[k].event = e
                      /\ drain'[k].pos = drain[k].pos /\ drain'[k].gen = drain[k].gen /\ drain'[k].queue = drain[k].queue
        ELSE drain'[k] = drain[k]

LEMMA DrainMoves ==
    ASSUME RecsOK, NEW d \in Drainer
    PROVE  /\ \A st : drain' = [drain EXCEPT ![d].step = st] => DrainMoved(d, st, drain[d].event)
           /\ \A st, e : drain' = [drain EXCEPT ![d].step = st, ![d].event = e] => DrainMoved(d, st, e)
<1>1. drain \in [Drainer -> DrainRec] /\ drain[d] \in DrainRec
  BY DEF RecsOK
<1>2. ASSUME NEW st, drain' = [drain EXCEPT ![d].step = st] PROVE DrainMoved(d, st, drain[d].event)
  <2> DEFINE k == [drain[d] EXCEPT !.step = st]
  <2>1. k.step = st /\ k.event = drain[d].event /\ k.pos = drain[d].pos /\ k.gen = drain[d].gen /\ k.queue = drain[d].queue
    BY <1>1 DEF DrainRec
  <2>2. \A r \in Drainer : drain'[r] = IF r = d THEN k ELSE drain[r]
    BY <1>1, <1>2
  <2> HIDE DEF k
  <2>q. QED BY <2>1, <2>2 DEF DrainMoved
<1>3. ASSUME NEW st, NEW e, drain' = [drain EXCEPT ![d].step = st, ![d].event = e] PROVE DrainMoved(d, st, e)
  <2> DEFINE k == [drain[d] EXCEPT !.step = st, !.event = e]
  <2>1. k.step = st /\ k.event = e /\ k.pos = drain[d].pos /\ k.gen = drain[d].gen /\ k.queue = drain[d].queue
    BY <1>1 DEF DrainRec
  <2>2. \A r \in Drainer : drain'[r] = IF r = d THEN k ELSE drain[r]
    BY <1>1, <1>3
  <2> HIDE DEF k
  <2>q. QED BY <2>1, <2>2 DEF DrainMoved
<1>q. QED BY <1>2, <1>3

\* A wait that ends and the check under the lock: stamps tell who was unsubscribed.
LEMMA EmptyOrCheckStep ==
    ASSUME PinInv, HandleInv, ChanInv, NEW d \in Drainer, TimeOut(d) \/ Drained(d) \/ Check(d)
    PROVE  ChanInv' /\ ChannelStep
<1>1. /\ UNCHANGED <<bus, queue, pub, events, got, past>> /\ drain[d].step \in {"wait", "receive", "check"}
      /\ drain' = [drain EXCEPT ![d].step =
             IF drain[d].step = "check" /\ StillLive(drain[d]) THEN "run" ELSE "leave"]
  BY DEF TimeOut, Drained, Empty, Check
<1>2. DrainMoved(d, IF drain[d].step = "check" /\ StillLive(drain[d]) THEN "run" ELSE "leave", drain[d].event)
  BY <1>1, DrainMoves DEF PinInv
<1>3. /\ drain[d].queue \in 1..created
      /\ handle[drain[d].queue].pos = drain[d].pos /\ handle[drain[d].queue].gen = drain[d].gen
  BY <1>1 DEF ChanInv, Followed
<1>4. StillLive(drain[d]) <=> drain[d].queue \notin asked
  <2> DEFINE s == drain[d].queue
  <2>1. StillLive(drain[d]) <=> Valid(s)
    BY <1>3 DEF StillLive, Valid
  <2>2. s \notin asked => Valid(s)
    BY <1>3 DEF HandleInv
  <2>3. s \in asked => ~Valid(s)
    <3>a. s \in Sub /\ handle[s].pos \in Pos
      <4>1. created \in 0..MaxCreated /\ \A n \in 1..created : handle[n].pos \in Pos
        BY DEF PinInv, RecsOK
      <4>q. QED BY <1>3, <4>1, BusConstants DEF Sub
    <3>b. handle[s] \in [pos : 0..MaxSubs, gen : 0..(GenMod - 1)] /\ slot[handle[s].pos] \in SlotRec
      BY <3>a DEF PinInv, RecsOK
    <3>1. handle[s].gen \in Int /\ slot[handle[s].pos].gen \in Int
      BY <3>b, BusConstants DEF SlotRec
    <3>q. QED BY <1>3, <3>1 DEF HandleInv, Valid
  <2>q. QED BY <2>1, <2>2, <2>3
<1>5. Held(d)' <=> Held(d)
  BY <1>1, <1>2, <1>4 DEF Held, DrainMoved, past
<1>6. /\ \A k \in Drainer : k # d => drain'[k] = drain[k]
      /\ drain'[d].queue = drain[d].queue /\ drain'[d].event = drain[d].event
      /\ drain'[d].pos = drain[d].pos /\ drain'[d].gen = drain[d].gen
  BY <1>2 DEF DrainMoved
<1>7. (\A i \in Pos : slot'[i].queue \in {0, slot[i].queue}) /\ queue' = queue
  BY <1>1 DEF bus
<1>q. QED BY <1>1, <1>3, <1>5, <1>6, <1>7, DrainerStep

LEMMA ReceiveStep ==
    ASSUME PinInv, HandleInv, ChanInv, NEW d \in Drainer, Receive(d)
    PROVE  ChanInv' /\ ChannelStep
<1>1. /\ drain[d].step \in {"wait", "receive"} /\ queue[drain[d].queue] # <<>>
      /\ drain' = [drain EXCEPT ![d].step = "check", ![d].event = Head(queue[drain[d].queue])]
      /\ queue' = [queue EXCEPT ![drain[d].queue] = Tail(@)]
      /\ UNCHANGED <<bus, pub, events, got, past>>
  BY DEF Receive
<1>2. drain[d].queue \in 1..created /\ drain[d].queue \in Sub
  BY <1>1, BusConstants DEF ChanInv, Followed, PinInv, RecsOK, Sub
<1>3. PICK t \in Sub : t = drain[d].queue
  BY <1>2
<1>4. queue \in [Sub -> Seq(Nat)] /\ queue[t] \in Seq(Nat) /\ queue[t] # <<>>
  BY <1>1, <1>3 DEF PinInv, RecsOK
<1>5. Head(queue[t]) \in Nat
  BY <1>4
<1>6. PICK e \in Nat : e = Head(queue[t])
  BY <1>5
<1>7. DrainMoved(d, "check", e)
  BY <1>1, <1>3, <1>6, DrainMoves DEF PinInv
<1>7a. /\ drain'[d].step = "check" /\ drain'[d].event = e /\ drain'[d].queue = t /\ asked' = asked
       /\ \A k \in Drainer : k # d => drain'[k] = drain[k]
  <2>1. asked' = asked
    BY <1>1 DEF past
  <2>q. QED BY <1>3, <1>7, <2>1 DEF DrainMoved
<1>8. \A s \in Sub : queue'[s] = IF s = t THEN Tail(queue[t]) ELSE queue[s]
  BY <1>1, <1>3, <1>4
<1>9. /\ Items(Tail(queue[t])) \subseteq Items(queue[t]) /\ e \in Items(queue[t])
      /\ Single(queue[t]) => Single(Tail(queue[t])) /\ e \notin Items(Tail(queue[t]))
  BY <1>4, <1>6, ItemsOf
<1>10. Followed' /\ OneQueue' /\ Aimed'
  <2>1. Followed'
    <3>1. \A k \in Drainer :
             /\ drain'[k].queue = drain[k].queue /\ drain'[k].pos = drain[k].pos /\ drain'[k].gen = drain[k].gen
             /\ drain'[k].step # "idle" => drain[k].step # "idle"
      BY <1>1, <1>7 DEF DrainMoved
    <3>2. handle' = handle /\ created' = created
      BY <1>1 DEF past
    <3>q. QED BY <3>1, <3>2 DEF ChanInv, Followed
  <2>2. OneQueue' /\ Aimed'
    BY <1>1 DEF ChanInv, OneQueue, Aimed, bus, past
  <2>q. QED BY <2>1, <2>2
<1>11. CASE t \in asked
  <2>1. ~Held(d) /\ ~Held(d)' /\ \A k \in Drainer : k # d => drain'[k] = drain[k]
    BY <1>1, <1>7a, <1>11 DEF Held
  <2>2. /\ drain'[d].queue \in 1..created
        /\ handle[drain'[d].queue].pos = drain'[d].pos /\ handle[drain'[d].queue].gen = drain'[d].gen
    BY <1>1, <1>7 DEF ChanInv, Followed, DrainMoved
  <2>3. (\A i \in Pos : slot'[i].queue \in {0, slot[i].queue}) /\ \A s \in Sub \ asked : queue'[s] = queue[s]
    BY <1>1, <1>8, <1>11 DEF bus
  <2>q. QED BY <1>1, <2>1, <2>2, <2>3, DrainerStep
<1>12. CASE t \notin asked
  <2>1. /\ Seen(t) \subseteq 1..events /\ Single(queue[t]) /\ Items(queue[t]) \cap InHand(t) = {}
        /\ got \in [Sub -> Seq(Nat)]
    BY <1>12 DEF ChanInv, Fresh
  <2>2. /\ ~Held(d) /\ Held(d)' /\ drain'[d].queue = t /\ drain'[d].event = e
        /\ \A k \in Drainer : k # d => drain'[k] = drain[k] /\ (Held(k)' <=> Held(k))
    <3>1. ~Held(d)
      BY <1>1 DEF Held
    <3>2. Held(d)'
      BY <1>7a, <1>12 DEF Held
    <3>3. ASSUME NEW k \in Drainer, k # d PROVE Held(k)' <=> Held(k)
      <4>1. drain'[k] = drain[k] /\ asked' = asked
        BY <1>7a, <3>3
      <4>q. QED BY <4>1 DEF Held
    <3>q. QED BY <1>7a, <3>1, <3>2, <3>3
  <2>3. \A x : x \in InHand(t)' <=> x \in InHand(t) \cup {e}
    BY <2>2, HandIs
  <2>4. ASSUME NEW s \in Sub, s # t PROVE InHand(s)' = InHand(s)
    <3>1. \A x : x \in InHand(s)' <=> x \in InHand(s)
      BY <2>2, <2>4, HandIs
    <3>q. QED BY <3>1
  <2>5. InHand(t)' = InHand(t) \cup {e}
    BY <2>3
  <2>6. HeldOnce'
    <3>1. \A k \in Drainer : k # d /\ Held(k) /\ drain[k].queue = t => drain[k].event # e
      BY <1>9, <2>1, HandIs
    <3>q. QED BY <2>2, <3>1 DEF ChanInv, HeldOnce
  <2>7. Fresh'
    <3>1. Seen(t)' \subseteq Seen(t) /\ Single(queue'[t]) /\ Items(queue'[t]) \cap InHand(t)' = {}
      <4>1. queue'[t] = Tail(queue[t]) /\ got' = got
        BY <1>1, <1>8
      <4>q. QED BY <1>9, <2>1, <2>5, <4>1 DEF Seen
    <3>2. ASSUME NEW s \in Sub, s # t
          PROVE Seen(s)' = Seen(s) /\ queue'[s] = queue[s]
      BY <1>1, <1>8, <2>4, <3>2 DEF Seen
    <3>3. ASSUME NEW s \in Sub \ asked
          PROVE Seen(s)' \subseteq Seen(s) /\ Single(queue'[s]) /\ Items(queue'[s]) \cap InHand(s)' = {}
      <4>1. Single(queue[s]) /\ Items(queue[s]) \cap InHand(s) = {}
        BY DEF ChanInv, Fresh
      <4>q. QED BY <2>4, <3>1, <3>2, <4>1
    <3>4. asked' = asked /\ events' = events /\ pub' = pub /\ got' = got
      BY <1>1 DEF past
    <3>q. QED BY <2>1, <3>3, <3>4 DEF ChanInv, Fresh
  <2>8. ChannelStep
    <3> DEFINE C == [s \in Sub |-> IF s \in asked THEN <<>> ELSE queue[s]]
               H == [s \in Sub |-> InHand(s)]
    <3>1. C' = [C EXCEPT ![t] = Tail(@)] /\ C[t] = queue[t]
      BY <1>1, <1>8, <1>12 DEF past
    <3>2. H' = [H EXCEPT ![t] = @ \cup {e}]
      BY <2>4, <2>5
    <3>3. 1..created' = 1..created /\ asked' = asked /\ got' = got
      BY <1>1 DEF past
    <3> HIDE DEF C, H
    <3>4. Channel!Take(t)
      BY <1>4, <1>6, <3>1, <3>2, <3>3 DEF Channel!Take, C, H
    <3>q. QED BY <3>4 DEF ChannelStep, Channel!Next
  <2>q. QED BY <1>10, <2>6, <2>7, <2>8 DEF ChanInv
<1>q. QED BY <1>11, <1>12

LEMMA HandleStep ==
    ASSUME PinInv, HandleInv, ChanInv, NEW d \in Drainer, Handle(d)
    PROVE  ChanInv' /\ ChannelStep
<1>1. /\ drain[d].step = "run" /\ UNCHANGED <<bus, queue, pub, events, past>>
      /\ got' = [got EXCEPT ![drain[d].queue] = Append(@, drain[d].event)]
      /\ drain' = [drain EXCEPT ![d].step = "receive", ![d].event = 0]
  BY DEF Handle
<1>2. drain[d].queue \in 1..created /\ drain[d].queue \in Sub /\ drain[d].event \in Nat
  BY <1>1, BusConstants DEF ChanInv, Followed, PinInv, RecsOK, Sub, DrainRec
<1>3. PICK t \in Sub, e \in Nat : t = drain[d].queue /\ e = drain[d].event
  BY <1>2
<1>4. got \in [Sub -> Seq(Nat)] /\ got[t] \in Seq(Nat)
  BY DEF ChanInv, Fresh
<1>5. DrainMoved(d, "receive", 0)
  BY <1>1, DrainMoves DEF PinInv
<1>6. \A s \in Sub : got'[s] = IF s = t THEN Append(got[t], e) ELSE got[s]
  BY <1>1, <1>3, <1>4
<1>7. Items(Append(got[t], e)) = Items(got[t]) \cup {e}
  BY <1>4, ItemsOf
<1>8. Followed' /\ OneQueue' /\ Aimed'
  <2>1. Followed'
    <3>1. \A k \in Drainer :
             /\ drain'[k].queue = drain[k].queue /\ drain'[k].pos = drain[k].pos /\ drain'[k].gen = drain[k].gen
             /\ drain'[k].step # "idle" => drain[k].step # "idle"
      BY <1>1, <1>5 DEF DrainMoved
    <3>2. handle' = handle /\ created' = created
      BY <1>1 DEF past
    <3>q. QED BY <3>1, <3>2 DEF ChanInv, Followed
  <2>2. OneQueue' /\ Aimed'
    BY <1>1 DEF ChanInv, OneQueue, Aimed, bus, past
  <2>q. QED BY <2>1, <2>2
<1>9. /\ Held(d) /\ ~Held(d)'
      /\ \A k \in Drainer : k # d => drain'[k] = drain[k] /\ (Held(k)' <=> Held(k))
  <2>1. drain'[d].step = "receive" /\ asked' = asked /\ \A k \in Drainer : k # d => drain'[k] = drain[k]
    <3>1. asked' = asked
      BY <1>1 DEF past
    <3>q. QED BY <1>5, <3>1 DEF DrainMoved
  <2>2. Held(d)
    BY <1>1 DEF Held
  <2>3. ~Held(d)'
    BY <2>1 DEF Held
  <2>4. ASSUME NEW k \in Drainer, k # d PROVE Held(k)' <=> Held(k)
    <3>1. drain'[k] = drain[k] /\ asked' = asked
      BY <2>1, <2>4
    <3>q. QED BY <3>1 DEF Held
  <2>q. QED BY <2>1, <2>2, <2>3, <2>4
<1>10. HeldOnce'
  BY <1>9 DEF ChanInv, HeldOnce
<1>11. e \in InHand(t)
  BY <1>3, <1>9, HandIs
<1>12. InHand(t)' = InHand(t) \ {e}
  <2>1. \A x : x \in InHand(t)' => x \in InHand(t) \ {e}
    <3>1. \A k \in Drainer : k # d /\ Held(k) /\ drain[k].queue = t => drain[k].event # e
      BY <1>3, <1>9 DEF ChanInv, HeldOnce
    <3>q. QED BY <1>9, <3>1, HandIs
  <2>2. \A x : x \in InHand(t) \ {e} => x \in InHand(t)'
    BY <1>3, <1>9, HandIs
  <2>q. QED BY <2>1, <2>2
<1>13. ASSUME NEW s \in Sub, s # t PROVE InHand(s)' = InHand(s)
  <2>1. \A x : x \in InHand(s)' <=> x \in InHand(s)
    BY <1>3, <1>9, <1>13, HandIs
  <2>q. QED BY <2>1
<1>14. Fresh'
  <2>1. Seen(t)' \subseteq Seen(t) /\ InHand(t)' \subseteq InHand(t)
    <3>1. got'[t] = Append(got[t], e) /\ queue' = queue
      BY <1>1, <1>6
    <3>q. QED BY <1>7, <1>11, <1>12, <3>1 DEF Seen
  <2>2. ASSUME NEW s \in Sub, s # t
        PROVE Seen(s)' = Seen(s)
    BY <1>1, <1>6, <1>13, <2>2 DEF Seen
  <2>3. ASSUME NEW s \in Sub \ asked
        PROVE Seen(s)' \subseteq Seen(s) /\ Single(queue'[s]) /\ Items(queue'[s]) \cap InHand(s)' = {}
    <3>1. Single(queue[s]) /\ Items(queue[s]) \cap InHand(s) = {} /\ queue' = queue
      BY <1>1 DEF ChanInv, Fresh
    <3>2. InHand(s)' \subseteq InHand(s)
      BY <1>13, <2>1
    <3>q. QED BY <2>1, <2>2, <3>1, <3>2
  <2>4. asked' = asked /\ events' = events /\ pub' = pub
    BY <1>1 DEF past
  <2>5. got' \in [Sub -> Seq(Nat)]
    <3>1. Append(got[t], e) \in Seq(Nat)
      BY <1>4
    <3>q. QED BY <1>1, <1>3, <1>4, <3>1
  <2>q. QED BY <2>3, <2>4, <2>5 DEF ChanInv, Fresh
<1>15. ChannelStep
  <2> DEFINE C == [s \in Sub |-> IF s \in asked THEN <<>> ELSE queue[s]]
             H == [s \in Sub |-> InHand(s)]
  <2>1. C' = C
    BY <1>1 DEF past
  <2>2. H' = [H EXCEPT ![t] = @ \ {e}] /\ e \in H[t]
    BY <1>11, <1>12, <1>13
  <2>3. 1..created' = 1..created /\ asked' = asked /\ got' = [got EXCEPT ![t] = Append(@, e)]
    BY <1>1, <1>3 DEF past
  <2> HIDE DEF C, H
  <2>4. Channel!Deliver(t)
    BY <2>1, <2>2, <2>3 DEF Channel!Deliver, C, H
  <2>q. QED BY <2>4 DEF ChannelStep, Channel!Next
<1>q. QED BY <1>8, <1>10, <1>14, <1>15 DEF ChanInv

LEMMA ChanInit == Init => ChanInv /\ Channel!Init
<1> SUFFICES ASSUME Init PROVE ChanInv /\ Channel!Init
  OBVIOUS
<1>1. /\ \A i \in Pos : slot[i].queue = 0
      /\ \A p \in Publisher : pub[p].step = "idle" /\ pub[p].left = {}
      /\ \A d \in Drainer : drain[d].step = "idle"
      /\ \A s \in Sub : queue[s] = <<>> /\ got[s] = <<>>
      /\ created = 0 /\ events = 0 /\ asked = {} /\ MaxEvents \in Nat /\ got = [s \in Sub |-> <<>>]
  BY BusConstants DEF Init, NoPublish, NoDrain
<1>2. \A d \in Drainer : ~Held(d)
  BY <1>1 DEF Held
<1>3. \A s : InHand(s) = {}
  BY <1>2, HandIs
<1>4. Items(<<>>) = {} /\ Single(<<>>)
  BY DEF Items, Single
<1>5. \A s \in Sub : Seen(s) = {}
  BY <1>1, <1>3, <1>4 DEF Seen
<1>6. OneQueue /\ Followed /\ HeldOnce /\ Aimed
  BY <1>1, <1>2 DEF OneQueue, Followed, HeldOnce, Aimed
<1>7. Fresh
  <2>1. got \in [Sub -> Seq(Nat)]
    BY <1>1
  <2>q. QED BY <1>1, <1>3, <1>4, <1>5, <2>1 DEF Fresh
<1>8. Channel!Init
  <2>1. 1..created = {}
    BY <1>1
  <2>q. QED BY <1>1, <1>3, <2>1 DEF Channel!Init
<1>q. QED BY <1>6, <1>7, <1>8 DEF ChanInv

LEMMA ChanNext ==
    PinInv /\ InReach(hwm, slot) /\ HandleInv /\ ChanInv /\ [Next]_vars => ChanInv' /\ ChannelStep
<1> SUFFICES ASSUME PinInv, InReach(hwm, slot), HandleInv, ChanInv, [Next]_vars PROVE ChanInv' /\ ChannelStep
  OBVIOUS
<1>1. CASE UNCHANGED vars
  <2>1. UNCHANGED <<drain, events, got, past, pub, slot, queue>>
    BY <1>1 DEF vars, bus
  <2>2. Aimed' /\ \A i \in Pos : slot'[i].queue \in {0, slot[i].queue}
    BY <2>1 DEF ChanInv, Aimed
  <2>q. QED BY <2>1, <2>2, TableStep
<1>q. QED BY <1>1, SubscribeStep, SubscribeFailsStep, UnsubscribeStep, PublishStep, FinishStep, PublisherSteps,
             DrainBeginStep, EmptyOrCheckStep, ReceiveStep, HandleStep, LeaveStep
       DEF Next, Publishing, Draining

\* The bus keeps what EventChannel promises a subscriber, with the slots, the pins, the stamps
\* and the poison out of sight: a handler is given nothing that was taken from the queue after
\* the unsubscribe, never the poison, and no event twice (event_bus_publish, drain_slot).
THEOREM ChannelImplemented == FewSubscriptions => (Spec => ChannelSpec)
<1> SUFFICES ASSUME FewSubscriptions PROVE Spec => ChannelSpec
  OBVIOUS
<1>1. Init => HandleInv /\ InReach(hwm, slot)
  BY HandlesInit, ReachInit
<1>2. PinInv /\ HandleInv /\ [Next]_vars => HandleInv'
  BY HandlesNext
<1>q. QED BY PinInit, PinNext, ReachNext, ChanInit, ChanNext, <1>1, <1>2, PTL
       DEF Spec, ChannelSpec, Channel!Spec, ChannelStep
=============================================================================
