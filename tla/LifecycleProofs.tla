-------------------------- MODULE LifecycleProofs ---------------------------
(***************************************************************************)
(* Theorems about Lifecycle, for any devices, queues, retry timers and     *)
(* attempts, and any number of announces, removals and failures.           *)
(***************************************************************************)
EXTENDS Lifecycle, SequenceTheorems, TLAPS

\* The types of the variables.
Records == [nwk : Nat, interview : {"none", "pending", "ready", "failed"}, name : {"blank", "maker", "full"},
            support : {"unknown", "matched", "unmatched"}, configure : {"pending", "progress", "done", "failed"},
            tries : Nat]
Events  == [dev : Device, nwk : Nat]
Names   == [nwk : Nat, name : {"maker", "full"}]

InRx   == {Idle} \cup [pc : {"queue", "evict", "again"}, dev : Device, nwk : Nat]
InTrig == {Idle} \cup [pc : {"read", "send"}, dev : Device, nwk : Nat]
InIv   == {Idle} \cup [pc : {"attempt", "ask", "failed", "sleep"}, dev : Device, nwk : Nat, attempt : Nat]
                \cup [pc : {"begin"}, dev : Device, nwk : Nat, attempt : Nat, use : Nat]
                \cup [pc : {"commit"}, dev : Device, got : Answers]
                \cup [pc : {"enqueue"}, dev : Device]
InId   == {Idle} \cup [pc : {"look", "write"}, dev : Device, support : {"unknown", "matched", "unmatched"}]
                \cup [pc : {"enqueue"}, dev : Device]
InCf   == {Idle} \cup [pc : {"mark", "downgrade", "run", "retry"}, dev : Device, tries : Nat]
Counts == [announces : Nat, updates : Nat, upsets : Nat]

PoolTypes ==
    /\ known \in SUBSET Device /\ dev \in [Device -> Records] /\ addr \in [Device -> Nat]
    /\ lost \in SUBSET Device /\ gone \in SUBSET Device /\ overtaken \in SUBSET Device
    /\ rx \in InRx /\ joins \in Seq(Events) /\ trig \in InTrig

WorkTypes ==
    /\ updates \in Seq(Names) /\ id \in InId
    /\ configs \in Seq(Device) /\ retries \in [Device -> Nat] /\ cf \in InCf
    /\ lostCfg \in SUBSET Device /\ counts \in Counts

Types == PoolTypes /\ iv \in InIv /\ WorkTypes

-----------------------------------------------------------------------------
\* Whoever the tasks deal with has been announced, and who was announced is known unless deleted.
Met(d) == addr[d] # 0

OnlyTheMet ==
    /\ \A d \in Device : Met(d) => d \in known \cup gone
    /\ \A d \in known : Met(d)
    /\ \A i \in 1..Len(joins) : Met(joins[i].dev)
    /\ rx # Idle => Met(rx.dev) /\ rx.nwk = addr[rx.dev]
    /\ trig.pc = "send" => Met(trig.dev)
    /\ iv # Idle => Met(iv.dev)

\* A request to configure d is in the queue, has a timer, or was dropped.
Asked(d) == retries[d] > 0 \/ (\E i \in 1..Len(configs) : configs[i] = d) \/ d \in lostCfg

InHand(d) == cf.dev = d \/ (iv.dev = d /\ iv.pc = "enqueue") \/ (id.dev = d /\ id.pc = "enqueue")

Settled(r) == r.support # "matched" \/ r.configure = "done" \/ (r.configure = "failed" /\ r.tries >= ConfigAttempts)

\* ConfigureNotForgotten also of a device whose name is still to come: Apply makes it ready without a request.
Remembered == \A d \in known : dev[d].interview \in {"pending", "ready"} => Settled(dev[d]) \/ Asked(d) \/ InHand(d)

\* In the queue s of joins, behind place i, is one with address a of d; every older address of d has that behind it.
Behind(s, d, a, i) == \E j \in 1..Len(s) : i < j /\ s[j] = Join(d, a)
InOrder(s, d, a)   == \A i \in 1..Len(s) : s[i].dev = d /\ s[i].nwk \notin {0, a} => Behind(s, d, a, i)

\* The pool has another address than the device only between the two join events that tell of them, when neither
\* makes the interview ask anew; and an attempt uses the device's own.
Followed(d) ==
    /\ \/ dev[d].nwk = addr[d]
       \/ /\ dev[d].interview = "ready" /\ (iv.dev = d => iv.pc = "enqueue")
          /\ rx.dev = d \/ d \in lost \/ Behind(joins, d, addr[d], 0)
    /\ rx.dev = d \/ d \in lost \/ InOrder(joins, d, addr[d])
    /\ iv.pc = "begin" /\ iv.dev = d => iv.use = addr[d]

AddressesFollow == \A d \in known \ (gone \cup overtaken) : Followed(d)

IInv == Types /\ OnlyTheMet /\ NotStranded /\ Remembered /\ AddressesFollow

USE LifecycleConstants DEF Records, Events, Names, InRx, InTrig, InIv, InId, InCf, Counts

-----------------------------------------------------------------------------
\* The queue of join events.
Waits(s, d) == \E i \in DOMAIN s : s[i].dev = d

LEMMA EntryOf ==
    ASSUME NEW s \in Seq(Events), NEW i \in 1..Len(s)
    PROVE  s[i] \in Events /\ s[i].dev \in Device
<1>1. s[i] \in Events
  BY ElementOfSeq
<1> QED
  BY <1>1

LEMMA Appended ==
    ASSUME NEW s \in Seq(Events), NEW e \in Events
    PROVE  /\ Append(s, e) \in Seq(Events)
           /\ \A d : Waits(Append(s, e), d) <=> Waits(s, d) \/ e.dev = d
           /\ \A d, a, i : Behind(s, d, a, i) => Behind(Append(s, e), d, a, i)
           /\ \A d, a : InOrder(s, d, a) /\ (e.dev # d \/ e.nwk \in {0, a}) => InOrder(Append(s, e), d, a)
<1> DEFINE t == Append(s, e)
<1>1. t \in Seq(Events) /\ Len(t) = Len(s) + 1 /\ t[Len(s) + 1] = e /\ (\A i \in 1..Len(s) : t[i] = s[i])
      /\ DOMAIN t = 1..(Len(s) + 1) /\ DOMAIN s = 1..Len(s) /\ Len(s) \in Nat
  OBVIOUS
<1> HIDE DEF t
<1>2. \A d : Waits(t, d) <=> Waits(s, d) \/ e.dev = d
  <2> TAKE d
  <2>1. Waits(t, d) => Waits(s, d) \/ e.dev = d
    <3> SUFFICES ASSUME NEW i \in 1..(Len(s) + 1), t[i].dev = d, e.dev # d PROVE Waits(s, d)
      BY <1>1 DEF Waits
    <3>1. i \in 1..Len(s)
      BY <1>1
    <3> QED
      BY <1>1, <3>1 DEF Waits
  <2>2. Waits(s, d) => Waits(t, d)
    <3> SUFFICES ASSUME NEW i \in 1..Len(s), s[i].dev = d PROVE Waits(t, d)
      BY <1>1 DEF Waits
    <3>1. i \in 1..(Len(s) + 1) /\ t[i] = s[i]
      BY <1>1
    <3> QED
      BY <1>1, <3>1 DEF Waits
  <2>3. e.dev = d => Waits(t, d)
    <3>1. Len(s) \in Nat => Len(s) + 1 \in 1..(Len(s) + 1)
      OBVIOUS
    <3> QED
      BY <1>1, <3>1 DEF Waits
  <2> QED
    BY <2>1, <2>2, <2>3
<1>3. \A d, a, i : Behind(s, d, a, i) => Behind(t, d, a, i)
  BY <1>1 DEF Behind
<1>4. \A d, a : InOrder(s, d, a) /\ (e.dev # d \/ e.nwk \in {0, a}) => InOrder(t, d, a)
  <2> SUFFICES ASSUME NEW d, NEW a, InOrder(s, d, a), e.dev # d \/ e.nwk \in {0, a},
                      NEW i \in 1..Len(t), t[i].dev = d, t[i].nwk \notin {0, a}
               PROVE  Behind(t, d, a, i)
    BY DEF InOrder
  <2>1. i \in 1..Len(s)
    BY <1>1
  <2>2. Behind(s, d, a, i)
    BY <1>1, <2>1 DEF InOrder
  <2> QED
    BY <1>3, <2>2
<1> QED
  BY <1>1, <1>2, <1>3, <1>4 DEF t

LEMMA NewestAppended ==
    ASSUME NEW s \in Seq(Events), NEW d \in Device, NEW a \in Nat
    PROVE  InOrder(Append(s, Join(d, a)), d, a) /\ Behind(Append(s, Join(d, a)), d, a, 0)
<1> DEFINE t == Append(s, Join(d, a))
<1>1. Join(d, a) \in Events
  BY DEF Join
<1>2. Len(t) = Len(s) + 1 /\ t[Len(s) + 1] = Join(d, a) /\ Len(s) \in Nat
  BY <1>1
<1> HIDE DEF t
<1>3. Behind(t, d, a, 0)
  BY <1>2 DEF Behind
<1>4. InOrder(t, d, a)
  <2> SUFFICES ASSUME NEW i \in 1..Len(t), t[i].dev = d, t[i].nwk \notin {0, a}
               PROVE  Behind(t, d, a, i)
    BY DEF InOrder
  <2>1. i < Len(s) + 1
    BY <1>2 DEF Join
  <2>2. Len(s) + 1 \in 1..Len(t)
    BY <1>2
  <2> QED
    BY <1>2, <2>1, <2>2 DEF Behind
<1> QED
  BY <1>3, <1>4 DEF t

LEMMA Taken ==
    ASSUME NEW s \in Seq(Events), s # <<>>
    PROVE  /\ Tail(s) \in Seq(Events) /\ Head(s) \in Events /\ Head(s) = s[1] /\ 1 \in 1..Len(s)
           /\ \A d : Waits(s, d) => Head(s).dev = d \/ Waits(Tail(s), d)
           /\ \A i \in 1..Len(Tail(s)) : i + 1 \in 1..Len(s) /\ Tail(s)[i] = s[i + 1]
           /\ \A d, a : InOrder(s, d, a) => InOrder(Tail(s), d, a)
           /\ \A d, a : Behind(s, d, a, 0) /\ Head(s) # Join(d, a) => Behind(Tail(s), d, a, 0)
           /\ \A d, a : InOrder(s, d, a) /\ Head(s).dev = d /\ Head(s).nwk \notin {0, a} => Behind(Tail(s), d, a, 0)
<1> DEFINE t == Tail(s)
<1>1. /\ t \in Seq(Events) /\ Len(t) \in Nat /\ Len(s) = Len(t) + 1 /\ (\A i \in 1..Len(t) : t[i] = s[i + 1])
      /\ Head(s) = s[1] /\ Head(s) \in Events /\ DOMAIN t = 1..Len(t) /\ DOMAIN s = 1..Len(s)
  <2>1. Tail(s) \in Seq(Events) /\ Len(Tail(s)) = Len(s) - 1 /\ (\A i \in 1..Len(Tail(s)) : Tail(s)[i] = s[i + 1])
        /\ Head(s) \in Events
    BY HeadTailProperties
  <2>2. Head(s) = s[1] /\ Len(s) \in Nat /\ Len(s) # 0 /\ DOMAIN s = 1..Len(s)
    OBVIOUS
  <2>3. DOMAIN Tail(s) = 1..Len(Tail(s)) /\ Len(Tail(s)) \in Nat
    BY <2>1
  <2> QED
    BY <2>1, <2>2, <2>3 DEF t
<1> HIDE DEF t
<1>2. \A d : Waits(s, d) => Head(s).dev = d \/ Waits(t, d)
  <2> SUFFICES ASSUME NEW d, NEW i \in 1..Len(s), s[i].dev = d, Head(s).dev # d PROVE Waits(t, d)
    BY <1>1 DEF Waits
  <2>1. i # 1
    BY <1>1
  <2>2. i - 1 \in 1..Len(t) /\ i = (i - 1) + 1
    BY <1>1, <2>1
  <2>3. t[i - 1] = s[i]
    BY <1>1, <2>2
  <2> QED
    BY <1>1, <2>2, <2>3 DEF Waits
<1>3. \A d, a, i : i \in 1..Len(t) /\ Behind(s, d, a, i + 1) => Behind(t, d, a, i)
  <2> SUFFICES ASSUME NEW d, NEW a, NEW i \in 1..Len(t), NEW j \in 1..Len(s), i + 1 < j, s[j] = Join(d, a)
               PROVE  Behind(t, d, a, i)
    BY DEF Behind
  <2>1. j - 1 \in 1..Len(t) /\ i < j - 1 /\ t[j - 1] = s[j]
    BY <1>1
  <2> QED
    BY <2>1 DEF Behind
<1>4. \A d, a : Behind(s, d, a, 1) => Behind(t, d, a, 0)
  <2> SUFFICES ASSUME NEW d, NEW a, NEW j \in 1..Len(s), 1 < j, s[j] = Join(d, a) PROVE Behind(t, d, a, 0)
    BY DEF Behind
  <2>1. j - 1 \in 1..Len(t) /\ 0 < j - 1 /\ t[j - 1] = s[j]
    BY <1>1
  <2> QED
    BY <2>1 DEF Behind
<1>5. \A d, a : InOrder(s, d, a) => InOrder(t, d, a)
  <2> SUFFICES ASSUME NEW d, NEW a, InOrder(s, d, a), NEW i \in 1..Len(t), t[i].dev = d, t[i].nwk \notin {0, a}
               PROVE  Behind(t, d, a, i)
    BY DEF InOrder
  <2>1. i + 1 \in 1..Len(s) /\ s[i + 1] = t[i]
    BY <1>1
  <2>2. Behind(s, d, a, i + 1)
    BY <2>1 DEF InOrder
  <2> QED
    BY <1>3, <2>2
<1>6. \A d, a : Behind(s, d, a, 0) /\ Head(s) # Join(d, a) => Behind(t, d, a, 0)
  <2> SUFFICES ASSUME NEW d, NEW a, NEW j \in 1..Len(s), s[j] = Join(d, a), Head(s) # Join(d, a) PROVE Behind(t, d, a, 0)
    BY DEF Behind
  <2>1. 1 < j
    BY <1>1
  <2> QED
    BY <1>4, <2>1 DEF Behind
<1>7. \A d, a : InOrder(s, d, a) /\ Head(s).dev = d /\ Head(s).nwk \notin {0, a} => Behind(t, d, a, 0)
  BY <1>1, <1>4 DEF InOrder
<1>8. 1 \in 1..Len(s)
  BY <1>1
<1> QED
  BY <1>1, <1>2, <1>5, <1>6, <1>7, <1>8 DEF t

-----------------------------------------------------------------------------
\* What steps leave alone.
LEMMA ArrivalsKept ==
    ASSUME IInv, UNCHANGED <<known, addr, rx, joins, trig, lost, gone, overtaken>>,
           dev' \in [Device -> Records], iv' \in InIv, iv'.dev \in {iv.dev, Nobody},
           iv'.dev \in Device /\ iv'.pc # "enqueue" => iv.pc # "enqueue",
           \A d \in known : dev'[d].nwk = dev[d].nwk,
           \A d \in known : dev'[d].interview = "none" =>
                dev[d].interview = "none" /\ (iv.dev = d /\ iv.pc # "enqueue" => iv'.dev = d /\ iv'.pc # "enqueue"),
           \A d \in known : dev[d].interview = "ready" => dev'[d].interview = "ready" \/ (iv.dev = d /\ iv.pc # "enqueue"),
           \A d \in known \ (gone \cup overtaken) : iv'.pc = "begin" /\ iv'.dev = d => iv'.use = addr[d]
    PROVE  PoolTypes' /\ OnlyTheMet' /\ NotStranded' /\ AddressesFollow'
<1> USE DEF IInv
<1>1. PoolTypes'
  BY DEF Types, PoolTypes
<1>2. iv' # Idle => iv'.dev \in Device /\ iv # Idle /\ iv'.dev = iv.dev
  BY DEF Idle
<1>3. OnlyTheMet'
  BY <1>2 DEF OnlyTheMet, Met
<1>4. NotStranded'
  BY DEF NotStranded, Expected, Types, PoolTypes
<1>5. ASSUME NEW d \in known \ (gone \cup overtaken) PROVE Followed(d)'
  <2>1. Followed(d) /\ d \in Device
    BY <1>5 DEF AddressesFollow, Types, PoolTypes
  <2>2. \/ dev'[d].nwk = addr'[d]
        \/ /\ dev'[d].interview = "ready" /\ (iv'.dev = d => iv'.pc = "enqueue")
           /\ rx'.dev = d \/ d \in lost' \/ Behind(joins', d, addr'[d], 0)
    <3>1. CASE dev[d].nwk = addr[d]
      BY <1>5, <3>1
    <3>2. CASE dev[d].nwk # addr[d]
      <4>1. dev[d].interview = "ready" /\ (iv.dev = d => iv.pc = "enqueue")
            /\ (rx.dev = d \/ d \in lost \/ Behind(joins, d, addr[d], 0))
        BY <2>1, <3>2 DEF Followed
      <4> QED
        BY <1>5, <2>1, <4>1
    <3> QED
      BY <3>1, <3>2
  <2>3. rx'.dev = d \/ d \in lost' \/ InOrder(joins', d, addr'[d])
    BY <2>1 DEF Followed
  <2>4. iv'.pc = "begin" /\ iv'.dev = d => iv'.use = addr'[d]
    BY <1>5
  <2> QED
    BY <2>2, <2>3, <2>4 DEF Followed
<1>6. AddressesFollow'
  BY <1>5 DEF AddressesFollow
<1> QED
  BY <1>1, <1>3, <1>4, <1>6

\* The same when the interview task does not move.
LEMMA InterviewKept ==
    ASSUME IInv, UNCHANGED <<known, addr, rx, joins, trig, lost, gone, overtaken, iv>>,
           dev' \in [Device -> Records],
           \A d \in known : /\ dev'[d].nwk = dev[d].nwk
                            /\ dev'[d].interview = "none" => dev[d].interview = "none"
                            /\ dev[d].interview = "ready" => dev'[d].interview = "ready"
    PROVE  PoolTypes' /\ OnlyTheMet' /\ NotStranded' /\ AddressesFollow'
<1>1. \A d \in known \ (gone \cup overtaken) : iv'.pc = "begin" /\ iv'.dev = d => iv'.use = addr[d]
  BY DEF IInv, AddressesFollow, Followed
<1>2. iv' \in InIv
  BY DEF IInv, Types
<1> QED
  BY <1>1, <1>2, ArrivalsKept

LEMMA WorkKept ==
    ASSUME IInv, UNCHANGED <<configs, retries, lostCfg, cf>>,
           iv.pc = "enqueue" => UNCHANGED iv, id.pc = "enqueue" => UNCHANGED id,
           \A d \in known' : dev'[d].interview \in {"pending", "ready"} =>
                /\ d \in known /\ dev[d].interview \in {"pending", "ready"}
                /\ dev'[d].support = dev[d].support /\ dev'[d].configure = dev[d].configure /\ dev'[d].tries = dev[d].tries
    PROVE  Remembered'
<1> SUFFICES ASSUME NEW d \in known', dev'[d].interview \in {"pending", "ready"}
             PROVE  (Settled(dev[d]) \/ Asked(d) \/ InHand(d))'
  BY DEF Remembered
<1>1. Settled(dev[d]) \/ Asked(d) \/ InHand(d)
  BY DEF IInv, Remembered
<1>2. Settled(dev[d]) => Settled(dev'[d])
  BY DEF Settled
<1>3. Asked(d) => Asked(d)'
  BY DEF Asked
<1>4. InHand(d) => InHand(d)'
  BY DEF InHand
<1> QED
  BY <1>1, <1>2, <1>3, <1>4

LEMMA Requests ==
    ASSUME IInv, NEW d \in Device, EnqueueConfigure(d) \/ ScheduleRetry(d)
    PROVE  /\ configs' \in Seq(Device) /\ retries' \in [Device -> Nat] /\ lostCfg' \in SUBSET Device /\ counts' \in Counts
           /\ Asked(d)' /\ \A x \in Device : Asked(x) => Asked(x)'
<1>1. configs \in Seq(Device) /\ retries \in [Device -> Nat] /\ lostCfg \in SUBSET Device /\ counts \in Counts
  BY DEF IInv, Types, WorkTypes
<1>2. Requeue(d) \/ (retries' = [retries EXCEPT ![d] = @ + 1] /\ lostCfg' = lostCfg \ {d} /\ UNCHANGED configs)
  BY DEF EnqueueConfigure, ScheduleRetry
<1>3. counts' \in Counts
  <2>1. UNCHANGED counts \/ counts' = [counts EXCEPT !["upsets"] = @ + 1]
    BY DEF EnqueueConfigure, ScheduleRetry, Count
  <2>2. counts.upsets + 1 \in Nat
    BY <1>1
  <2> QED
    BY <1>1, <2>1, <2>2
<1>4. CASE configs' = Append(configs, d) /\ lostCfg' = lostCfg \ {d} /\ UNCHANGED retries
  <2>1. /\ configs' \in Seq(Device) /\ Len(configs') = Len(configs) + 1 /\ configs'[Len(configs) + 1] = d
        /\ Len(configs) \in Nat /\ \A i \in 1..Len(configs) : configs'[i] = configs[i]
    BY <1>1, <1>4, AppendProperties
  <2>2. Asked(d)'
    <3>1. Len(configs) + 1 \in 1..Len(configs')
      BY <2>1
    <3> QED
      BY <2>1, <3>1 DEF Asked
  <2>3. ASSUME NEW x \in Device, Asked(x) PROVE Asked(x)'
    <3>1. CASE retries[x] > 0 \/ x \in lostCfg
      BY <1>4, <2>2, <3>1 DEF Asked
    <3>2. CASE \E i \in 1..Len(configs) : configs[i] = x
      <4>1. PICK i \in 1..Len(configs) : configs[i] = x
        BY <3>2
      <4>2. i \in 1..Len(configs') /\ configs'[i] = x
        BY <2>1, <4>1
      <4> QED
        BY <4>2 DEF Asked
    <3> QED
      BY <2>3, <3>1, <3>2 DEF Asked
  <2> QED
    BY <1>1, <1>3, <1>4, <2>1, <2>2, <2>3
<1>5. CASE configs' = configs /\ lostCfg' = lostCfg \cup {d} /\ UNCHANGED retries
  BY <1>1, <1>3, <1>5 DEF Asked
<1>6. CASE retries' = [retries EXCEPT ![d] = @ + 1] /\ lostCfg' = lostCfg \ {d} /\ UNCHANGED configs
  <2>1. retries[d] + 1 \in Nat /\ retries[d] + 1 > 0
    BY <1>1
  <2>2. retries' \in [Device -> Nat] /\ retries'[d] > 0 /\ \A x \in Device : x # d => retries'[x] = retries[x]
    BY <1>1, <1>6, <2>1
  <2>3. Asked(d)' /\ \A x \in Device : Asked(x) => Asked(x)'
    BY <1>6, <2>2 DEF Asked
  <2> QED
    BY <1>1, <1>3, <1>6, <2>2, <2>3
<1> QED
  BY <1>2, <1>4, <1>5, <1>6 DEF Requeue

LEMMA Holders ==
    ASSUME IInv
    PROVE  /\ rx # Idle \/ rx.pc # "idle" => rx # Idle /\ rx.dev \in Device /\ rx.nwk \in Nat
           /\ trig # Idle \/ trig.pc \in {"read", "send"} => trig.dev \in Device /\ trig.nwk \in Nat
           /\ iv # Idle \/ iv.pc # "idle" => iv.dev \in Device /\ iv # Idle
           /\ id # Idle \/ id.pc # "idle" => id.dev \in Device
           /\ cf # Idle \/ cf.pc # "idle" => cf.dev \in Device
<1>0. rx \in InRx /\ trig \in InTrig /\ iv \in InIv /\ id \in InId /\ cf \in InCf
  BY DEF IInv, Types, PoolTypes, WorkTypes
<1>1. rx # Idle \/ rx.pc # "idle" => rx # Idle /\ rx.dev \in Device /\ rx.nwk \in Nat
  BY <1>0 DEF Idle
<1>2. trig # Idle \/ trig.pc \in {"read", "send"} => trig.dev \in Device /\ trig.nwk \in Nat
  BY <1>0 DEF Idle
<1>3. iv # Idle \/ iv.pc # "idle" => iv.dev \in Device /\ iv # Idle
  BY <1>0 DEF Idle
<1>4. id # Idle \/ id.pc # "idle" => id.dev \in Device
  BY <1>0 DEF Idle
<1>5. cf # Idle \/ cf.pc # "idle" => cf.dev \in Device
  BY <1>0 DEF Idle
<1> QED
  BY <1>1, <1>2, <1>3, <1>4, <1>5

-----------------------------------------------------------------------------
\* Announces, deletions and requests.
LEMMA AnnouncedKeeps == IInv /\ (\E d \in Device, n \in 1..MaxAddress : Announced(d, n)) => IInv'
<1> SUFFICES ASSUME IInv, (\E d \in Device, n \in 1..MaxAddress : Announced(d, n)) PROVE IInv'
  OBVIOUS
<1> USE DEF IInv
<1>1. PICK d \in Device, n \in 1..MaxAddress : Announced(d, n)
  OBVIOUS
<1>2. /\ rx = Idle /\ addr' = [addr EXCEPT ![d] = n] /\ known' = known \cup {d}
      /\ dev' = [dev EXCEPT ![d] = [(IF d \in known THEN @ ELSE Fresh) EXCEPT !.nwk = n]]
      /\ rx' = [pc |-> "queue", dev |-> d, nwk |-> n] /\ gone' = gone \ {d}
      /\ overtaken' = IF iv.pc = "begin" /\ iv.dev = d THEN overtaken \cup {d} ELSE overtaken \ {d}
      /\ UNCHANGED <<joins, iv, trig, updates, id, configs, retries, cf, lost, lostCfg>>
  BY <1>1 DEF Announced
<1>3. counts' \in Counts
  <2>1. counts' = [counts EXCEPT !["announces"] = @ + 1]
    BY <1>1 DEF Announced, Count
  <2>2. counts \in Counts
    BY DEF Types, WorkTypes
  <2> QED
    BY <2>1, <2>2
<1>4. n \in Nat /\ n # 0 /\ MaxAddress \in Nat
  BY DEF LifecycleConstants
<1>5. dev \in [Device -> Records] /\ addr \in [Device -> Nat] /\ known \in SUBSET Device
  BY DEF Types, PoolTypes
<1>6. /\ dev'[d] \in Records /\ dev'[d].nwk = n
      /\ d \in known => /\ dev'[d].interview = dev[d].interview /\ dev'[d].support = dev[d].support
                        /\ dev'[d].configure = dev[d].configure /\ dev'[d].tries = dev[d].tries
      /\ d \notin known => dev'[d].interview = "none"
  <2>1. Fresh \in Records /\ Fresh.interview = "none"
    BY DEF Fresh
  <2>2. CASE d \in known
    <3>1. dev'[d] = [dev[d] EXCEPT !.nwk = n] /\ dev[d] \in Records
      BY <1>2, <1>5, <2>2
    <3> QED
      BY <1>4, <2>2, <3>1
  <2>3. CASE d \notin known
    <3>1. dev'[d] = [Fresh EXCEPT !.nwk = n]
      BY <1>2, <1>5, <2>3
    <3> QED
      BY <1>4, <2>1, <2>3, <3>1
  <2> QED
    BY <2>2, <2>3
<1>7. dev' \in [Device -> Records] /\ \A x \in Device \ {d} : dev'[x] = dev[x]
  <2>1. \A x \in Device \ {d} : dev'[x] = dev[x]
    BY <1>2, <1>5
  <2>2. DOMAIN dev' = Device /\ dev' = [x \in Device |-> dev'[x]]
    BY <1>2, <1>5
  <2> QED
    BY <1>5, <1>6, <2>1, <2>2
<1>8. addr' \in [Device -> Nat] /\ addr'[d] = n /\ \A x \in Device \ {d} : addr'[x] = addr[x]
  BY <1>2, <1>4, <1>5
<1> HIDE DEF Records
<1>9. Types'
  BY <1>2, <1>3, <1>4, <1>7, <1>8 DEF Types, PoolTypes, WorkTypes
<1>10. OnlyTheMet'
  <2>1. \A x \in Device : addr[x] # 0 => addr'[x] # 0
    BY <1>4, <1>8 DEF Met
  <2>2. \A i \in 1..Len(joins) : joins[i].dev \in Device
    <3>1. joins \in Seq(Events)
      BY DEF Types, PoolTypes
    <3> QED
      BY <3>1, EntryOf
  <2>3. (iv # Idle => iv.dev \in Device) /\ (trig.pc = "send" => trig.dev \in Device)
    BY Holders
  <2>4. Met(d)' /\ (\A x \in Device \ {d} : Met(x)' <=> Met(x))
    BY <1>4, <1>8 DEF Met
  <2>5. \A x \in Device : Met(x)' => x \in known' \cup gone'
    BY <1>2, <2>4 DEF OnlyTheMet
  <2>6. \A x \in known' : Met(x)'
    BY <1>2, <1>5, <2>4 DEF OnlyTheMet
  <2>7. \A i \in 1..Len(joins) : addr'[joins[i].dev] # 0
    <3>1. \A i \in 1..Len(joins) : addr[joins[i].dev] # 0
      BY DEF OnlyTheMet, Met
    <3> QED
      BY <2>1, <2>2, <3>1
  <2>8. (rx # Idle => Met(rx.dev) /\ rx.nwk = addr[rx.dev])'
    BY <1>2, <1>8, <2>4 DEF Met
  <2>9. (trig.pc = "send" => addr'[trig.dev] # 0) /\ (iv # Idle => addr'[iv.dev] # 0)
    BY <2>1, <2>3 DEF OnlyTheMet, Met
  <2>10. (\A i \in 1..Len(joins) : Met(joins[i].dev))' /\ (trig.pc = "send" => Met(trig.dev))' /\ (iv # Idle => Met(iv.dev))'
    BY <1>2, <2>7, <2>9 DEF Met
  <2> QED
    BY <2>5, <2>6, <2>8, <2>10 DEF OnlyTheMet
<1>11. NotStranded'
  BY <1>2, <1>5, <1>7 DEF NotStranded, Expected, Idle
<1>12. Remembered'
  BY <1>2, <1>5, <1>6, <1>7, WorkKept
<1>13. AddressesFollow'
  <2> SUFFICES ASSUME NEW x \in known' \ (gone' \cup overtaken') PROVE Followed(x)'
    BY DEF AddressesFollow
  <2>1. CASE x = d
    BY <1>2, <1>6, <1>8, <2>1 DEF Followed
  <2>2. CASE x # d
    <3>1. x \in known \ (gone \cup overtaken) /\ x \in Device
      BY <1>2, <1>5, <2>2
    <3>2. Followed(x) /\ rx.dev # x
      BY <1>2, <3>1 DEF AddressesFollow, Idle
    <3>3. dev'[x] = dev[x] /\ addr'[x] = addr[x]
      BY <1>7, <1>8, <2>2, <3>1
    <3> QED
      BY <1>2, <3>2, <3>3 DEF Followed
  <2> QED
    BY <2>1, <2>2
<1> QED
  BY <1>9, <1>10, <1>11, <1>12, <1>13

\* The tasks and the pool while the announced device's event is sent or dropped.
AroundJoin ==
    UNCHANGED <<known, dev, addr, iv, trig, updates, id, configs, retries, cf, counts, lostCfg, gone, overtaken>>

LEMMA SendJoinKeeps == IInv /\ rx.pc # "idle" /\ SendJoin /\ AroundJoin => IInv'
<1> SUFFICES ASSUME IInv, rx.pc # "idle", SendJoin, AroundJoin PROVE IInv'
  OBVIOUS
<1> USE DEF IInv
<1> DEFINE e == Join(rx.dev, rx.nwk)
<1>2. /\ rx' = Idle /\ joins' = Append(joins, e) /\ lost' = lost \ {rx.dev}
      /\ UNCHANGED <<known, dev, addr, iv, trig, updates, id, configs, retries, cf, counts, lostCfg, gone, overtaken>>
  BY DEF SendJoin, AroundJoin
<1>3. /\ rx # Idle /\ rx.dev \in Device /\ rx.nwk \in Nat /\ e \in Events /\ e.dev = rx.dev /\ e.nwk = rx.nwk
      /\ joins \in Seq(Events)
  <2>1. rx # Idle /\ rx.dev \in Device /\ rx.nwk \in Nat
    BY Holders
  <2>2. joins \in Seq(Events)
    BY DEF Types, PoolTypes
  <2> QED
    BY <2>1, <2>2 DEF Join
<1>4. rx.nwk = addr[rx.dev] /\ Met(rx.dev)
  BY <1>3 DEF OnlyTheMet
<1>5. lost' \in SUBSET Device
  BY <1>2 DEF Types, PoolTypes
<1>6. joins' \in Seq(Events) /\ DOMAIN joins' = 1..Len(joins') /\ Len(joins') = Len(joins) + 1
      /\ joins'[Len(joins) + 1] = e /\ \A i \in 1..Len(joins) : joins'[i] = joins[i]
  BY <1>2, <1>3
<1>7. Types'
  BY <1>2, <1>5, <1>6 DEF Types, PoolTypes, WorkTypes
<1>8. OnlyTheMet'
  <2>1. \A i \in 1..Len(joins') : Met(joins'[i].dev)
    <3> SUFFICES ASSUME NEW i \in 1..Len(joins') PROVE Met(joins'[i].dev)
      OBVIOUS
    <3>1. CASE i = Len(joins) + 1
      BY <1>3, <1>4, <1>6, <3>1
    <3>2. CASE i # Len(joins) + 1
      <4>1. i \in 1..Len(joins)
        BY <1>3, <1>6, <3>2
      <4> QED
        BY <1>6, <4>1 DEF OnlyTheMet
    <3> QED
      BY <3>1, <3>2
  <2> QED
    BY <1>2, <2>1 DEF OnlyTheMet, Met
<1>9. \A d \in Device : Waits(joins', d) <=> Waits(joins, d) \/ d = rx.dev
  BY <1>2, <1>3, Appended
<1>10. NotStranded'
  <2> SUFFICES ASSUME NEW d \in known', dev'[d].interview = "none" PROVE (Expected(d) \/ d \in lost)'
    BY DEF NotStranded
  <2>1. d \in Device /\ (Expected(d) \/ d \in lost)
    BY <1>2 DEF NotStranded, Types, PoolTypes
  <2>2. CASE d = rx.dev
    BY <1>9, <2>1, <2>2 DEF Expected, Waits
  <2>3. CASE d # rx.dev /\ Waits(joins, d)
    BY <1>9, <2>1, <2>3 DEF Expected, Waits
  <2>4. CASE d # rx.dev /\ ~Waits(joins, d)
    BY <1>2, <2>1, <2>4 DEF Expected, Waits
  <2> QED
    BY <2>2, <2>3, <2>4
<1>11. Remembered'
  BY <1>2, WorkKept
<1>12. AddressesFollow'
  <2> SUFFICES ASSUME NEW d \in known' \ (gone' \cup overtaken') PROVE Followed(d)'
    BY DEF AddressesFollow
  <2>1. Followed(d) /\ d \in Device /\ addr[d] \in Nat
    BY <1>2 DEF AddressesFollow, Types, PoolTypes
  <2>2. CASE d = rx.dev
    <3>1. InOrder(joins', d, addr[d]) /\ Behind(joins', d, addr[d], 0)
      BY <1>2, <1>3, <1>4, <2>1, <2>2, NewestAppended
    <3> QED
      BY <1>2, <2>1, <2>2, <3>1 DEF Followed
  <2>3. CASE d # rx.dev
    <3>1. InOrder(joins, d, addr[d]) => InOrder(joins', d, addr[d])
      BY <1>2, <1>3, <2>1, <2>3, Appended
    <3>2. Behind(joins, d, addr[d], 0) => Behind(joins', d, addr[d], 0)
      BY <1>2, <1>3, <2>1, <2>3, Appended
    <3> QED
      BY <1>2, <2>1, <2>3, <3>1, <3>2 DEF Followed
  <2> QED
    BY <2>2, <2>3
<1> QED
  BY <1>7, <1>8, <1>10, <1>11, <1>12

\* The event stays in the task's hands, or is given up: no event is added.
LEMMA JoinsLeft ==
    ASSUME IInv, AroundJoin, rx.pc # "idle", rx' \in InRx,
           \/ rx' = Idle /\ rx.dev \in lost'
           \/ rx' # Idle /\ rx'.dev = rx.dev /\ rx'.nwk = rx.nwk,
           \/ UNCHANGED joins /\ lost \subseteq lost'
           \/ joins # <<>> /\ joins' = Tail(joins) /\ lost' = lost \cup {Head(joins).dev},
           lost' \in SUBSET Device
    PROVE  IInv'
<1> USE DEF IInv
<1>2. UNCHANGED <<known, dev, addr, iv, trig, updates, id, configs, retries, cf, counts, lostCfg, gone, overtaken>>
  BY DEF AroundJoin
<1>3. rx # Idle /\ rx.dev \in Device /\ joins \in Seq(Events)
  BY Holders DEF Types, PoolTypes
<1>4. /\ joins' \in Seq(Events)
      /\ \A i \in 1..Len(joins') : Met(joins'[i].dev)
      /\ \A d : Waits(joins, d) => d \in lost' \/ Waits(joins', d)
      /\ \A d, a : InOrder(joins, d, a) => InOrder(joins', d, a)
      /\ \A d, a : Behind(joins, d, a, 0) => d \in lost' \/ Behind(joins', d, a, 0)
  <2>1. CASE UNCHANGED joins
    BY <1>3, <2>1 DEF OnlyTheMet
  <2>2. CASE joins # <<>> /\ joins' = Tail(joins) /\ lost' = lost \cup {Head(joins).dev}
    <3>1. \A d, a : Head(joins) = Join(d, a) => Head(joins).dev = d
      BY DEF Join
    <3>2. joins' \in Seq(Events) /\ \A d : Waits(joins, d) => d \in lost' \/ Waits(joins', d)
      BY <1>3, <2>2, Taken
    <3>3. \A i \in 1..Len(joins') : Met(joins'[i].dev)
      <4>1. \A i \in 1..Len(joins') : i + 1 \in 1..Len(joins) /\ joins'[i] = joins[i + 1]
        BY <1>3, <2>2, Taken
      <4>2. \A i \in 1..Len(joins) : Met(joins[i].dev)
        BY DEF OnlyTheMet
      <4> QED
        BY <4>1, <4>2
    <3>4. \A d, a : InOrder(joins, d, a) => InOrder(joins', d, a)
      BY <1>3, <2>2, Taken
    <3>5. \A d, a : Behind(joins, d, a, 0) => d \in lost' \/ Behind(joins', d, a, 0)
      BY <1>3, <2>2, <3>1, Taken
    <3> QED
      BY <3>2, <3>3, <3>4, <3>5
  <2> QED
    BY <2>1, <2>2
<1>5. lost \subseteq lost'
  OBVIOUS
<1>6. Types'
  BY <1>2, <1>4 DEF Types, PoolTypes, WorkTypes
<1>7. OnlyTheMet'
  <2>1. (rx # Idle => Met(rx.dev) /\ rx.nwk = addr[rx.dev])'
    BY <1>2, <1>3 DEF OnlyTheMet, Met
  <2> QED
    BY <1>2, <1>4, <2>1 DEF OnlyTheMet, Met
<1>8. \A d \in Device : rx.dev = d => rx'.dev = d \/ d \in lost'
  OBVIOUS
<1>9. NotStranded'
  <2> SUFFICES ASSUME NEW d \in known', dev'[d].interview = "none" PROVE (Expected(d) \/ d \in lost)'
    BY DEF NotStranded
  <2>1. d \in Device /\ (Expected(d) \/ d \in lost)
    BY <1>2 DEF NotStranded, Types, PoolTypes
  <2>2. CASE Waits(joins, d)
    BY <1>4, <2>2 DEF Expected, Waits
  <2>3. CASE ~Waits(joins, d)
    BY <1>2, <1>5, <1>8, <2>1, <2>3 DEF Expected, Waits
  <2> QED
    BY <2>2, <2>3
<1>10. Remembered'
  BY <1>2, WorkKept
<1>11. AddressesFollow'
  <2> SUFFICES ASSUME NEW d \in known' \ (gone' \cup overtaken') PROVE Followed(d)'
    BY DEF AddressesFollow
  <2>1. Followed(d) /\ d \in Device
    BY <1>2 DEF AddressesFollow, Types, PoolTypes
  <2> QED
    BY <1>2, <1>4, <1>5, <1>8, <2>1 DEF Followed
<1> QED
  BY <1>6, <1>7, <1>9, <1>10, <1>11

LEMMA QueueJoinKeeps == IInv /\ QueueJoin => IInv'
<1> SUFFICES ASSUME IInv, QueueJoin PROVE IInv'
  OBVIOUS
<1>1. AroundJoin /\ rx.pc = "queue"
  BY DEF QueueJoin, AroundJoin, pool
<1>2. CASE SendJoin
  BY <1>1, <1>2, SendJoinKeeps
<1>3. CASE rx' = [rx EXCEPT !.pc = "evict"] /\ UNCHANGED <<joins, lost>>
  <2>1. rx \in InRx /\ lost \in SUBSET Device /\ rx # Idle
    BY <1>1, Holders DEF IInv, Types, PoolTypes
  <2>2. rx' \in InRx /\ rx' # Idle /\ rx'.dev = rx.dev /\ rx'.nwk = rx.nwk
    BY <1>3, <2>1 DEF Idle
  <2> QED
    BY <1>1, <1>3, <2>1, <2>2, JoinsLeft
<1> QED
  BY <1>2, <1>3 DEF QueueJoin

LEMMA DropOldestKeeps == IInv /\ DropOldest => IInv'
<1> SUFFICES ASSUME IInv, DropOldest PROVE IInv'
  OBVIOUS
<1>1. /\ AroundJoin /\ rx.pc = "evict" /\ rx' = [rx EXCEPT !.pc = "again"]
      /\ \/ UNCHANGED <<joins, lost>>
         \/ joins # <<>> /\ joins' = Tail(joins) /\ lost' = lost \cup {Head(joins).dev}
  BY DEF DropOldest, AroundJoin, pool
<1>2. rx \in InRx /\ rx # Idle
  BY <1>1, Holders DEF IInv, Types, PoolTypes
<1>3. rx' \in InRx /\ rx' # Idle /\ rx'.dev = rx.dev /\ rx'.nwk = rx.nwk
  BY <1>1, <1>2 DEF Idle
<1>4. lost' \in SUBSET Device
  <2>1. lost \in SUBSET Device /\ joins \in Seq(Events)
    BY DEF IInv, Types, PoolTypes
  <2>2. joins # <<>> => Head(joins).dev \in Device
    BY <2>1, Taken
  <2> QED
    BY <1>1, <2>1, <2>2
<1> QED
  BY <1>1, <1>3, <1>4, JoinsLeft

LEMMA QueueAgainKeeps == IInv /\ QueueAgain => IInv'
<1> SUFFICES ASSUME IInv, QueueAgain PROVE IInv'
  OBVIOUS
<1>1. AroundJoin /\ rx.pc = "again"
  BY DEF QueueAgain, AroundJoin, pool
<1>2. CASE SendJoin
  BY <1>1, <1>2, SendJoinKeeps
<1>3. CASE rx' = Idle /\ joins' = joins /\ lost' = lost \cup {rx.dev}
  <2>1. lost \in SUBSET Device /\ rx.dev \in Device
    BY <1>1, Holders DEF IInv, Types, PoolTypes
  <2>2. rx' \in InRx /\ lost' \in SUBSET Device /\ rx.dev \in lost' /\ lost \subseteq lost'
    BY <1>3, <2>1
  <2> QED
    BY <1>1, <1>3, <2>2, JoinsLeft
<1> QED
  BY <1>2, <1>3 DEF QueueAgain

LEMMA FlushJoinsKeeps == IInv /\ FlushJoins => IInv'
<1> SUFFICES ASSUME IInv, FlushJoins PROVE IInv'
  OBVIOUS
<1> USE DEF IInv
<1>1. /\ joins' = <<>> /\ lost' = lost \cup {joins[i].dev : i \in DOMAIN joins}
      /\ UNCHANGED <<known, dev, addr, rx, iv, trig, updates, id, configs, retries, cf, lostCfg, gone, overtaken>>
  BY DEF FlushJoins, pool
<1>2. counts' \in Counts
  <2>1. counts' = [counts EXCEPT !["upsets"] = @ + 1]
    BY DEF FlushJoins, Count
  <2>2. counts \in Counts
    BY DEF Types, WorkTypes
  <2> QED
    BY <2>1, <2>2
<1>3. joins \in Seq(Events) /\ DOMAIN joins = 1..Len(joins)
  <2>1. joins \in Seq(Events)
    BY DEF Types, PoolTypes
  <2> QED
    BY <2>1
<1>4. lost' \in SUBSET Device
  <2>1. \A i \in DOMAIN joins : joins[i].dev \in Device
    BY <1>3, EntryOf
  <2>2. lost \in SUBSET Device
    BY DEF Types, PoolTypes
  <2> QED
    BY <1>1, <2>1, <2>2
<1>5. joins' \in Seq(Events) /\ DOMAIN joins' = {} /\ Len(joins') = 0
  BY <1>1
<1>6. Types'
  <2> HIDE DEF Records, Events, Names, InRx, InTrig, InIv, InId, InCf, Counts
  <2> QED
    BY <1>1, <1>2, <1>4, <1>5 DEF Types, PoolTypes, WorkTypes
<1>7. OnlyTheMet'
  BY <1>1, <1>5 DEF OnlyTheMet, Met
<1>8. NotStranded'
  BY <1>1 DEF NotStranded, Expected
<1>9. Remembered'
  BY <1>1, WorkKept
<1>10. AddressesFollow'
  <2> SUFFICES ASSUME NEW d \in known' \ (gone' \cup overtaken') PROVE Followed(d)'
    BY DEF AddressesFollow
  <2>1. Followed(d)
    BY <1>1 DEF AddressesFollow
  <2>2. InOrder(joins', d, addr'[d])
    BY <1>5 DEF InOrder
  <2>3. Behind(joins, d, addr[d], 0) => d \in lost'
    <3> SUFFICES ASSUME NEW j \in 1..Len(joins), joins[j] = Join(d, addr[d]) PROVE d \in lost'
      BY DEF Behind
    <3>1. joins[j].dev = d /\ j \in DOMAIN joins
      BY <1>3 DEF Join
    <3> QED
      BY <1>1, <3>1
  <2> QED
    BY <1>1, <2>1, <2>2, <2>3 DEF Followed
<1> QED
  BY <1>6, <1>7, <1>8, <1>9, <1>10

LEMMA HardRemoveKeeps == IInv /\ (\E d \in Device : HardRemove(d)) => IInv'
<1> SUFFICES ASSUME IInv, (\E d \in Device : HardRemove(d)) PROVE IInv'
  OBVIOUS
<1> USE DEF IInv
<1>1. PICK d \in Device : HardRemove(d)
  OBVIOUS
<1>2. /\ d \in known /\ known' = known \ {d} /\ dev' = [dev EXCEPT ![d] = Fresh] /\ gone' = gone \cup {d}
      /\ UNCHANGED <<addr, rx, joins, iv, trig, updates, id, configs, retries, cf, lost, lostCfg, overtaken>>
  BY <1>1 DEF HardRemove, tasks
<1>3. counts' \in Counts
  <2>1. counts' = [counts EXCEPT !["upsets"] = @ + 1]
    BY <1>1 DEF HardRemove, Count
  <2>2. counts \in Counts
    BY DEF Types, WorkTypes
  <2> QED
    BY <2>1, <2>2
<1>4. dev \in [Device -> Records] /\ known \in SUBSET Device
  BY DEF Types, PoolTypes
<1>5. dev' \in [Device -> Records] /\ \A x \in known' : x \in known /\ dev'[x] = dev[x]
  <2>1. Fresh \in Records
    BY DEF Fresh
  <2> HIDE DEF Records
  <2> QED
    BY <1>2, <1>4, <2>1
<1>6. Types'
  <2> HIDE DEF Records, Events, Names, InRx, InTrig, InIv, InId, InCf, Counts
  <2>1. gone' \in SUBSET Device /\ known' \in SUBSET Device
    BY <1>2 DEF Types, PoolTypes
  <2> QED
    BY <1>2, <1>3, <1>5, <2>1 DEF Types, PoolTypes, WorkTypes
<1>7. OnlyTheMet'
  BY <1>2 DEF OnlyTheMet, Met
<1>8. NotStranded'
  BY <1>2, <1>5 DEF NotStranded, Expected
<1>9. Remembered'
  BY <1>2, <1>5, WorkKept
<1>10. AddressesFollow'
  BY <1>2, <1>5 DEF AddressesFollow, Followed
<1> QED
  BY <1>6, <1>7, <1>8, <1>9, <1>10

LEMMA HeardKeeps == IInv /\ (\E d \in Device : Heard(d)) => IInv'
<1> SUFFICES ASSUME IInv, (\E d \in Device : Heard(d)) PROVE IInv'
  OBVIOUS
<1> USE DEF IInv
<1>1. PICK d \in Device : Heard(d)
  OBVIOUS
<1>2. /\ d \in known /\ dev[d].interview = "failed" /\ trig = Idle
      /\ dev' = [dev EXCEPT ![d].interview = "none"] /\ trig' = [pc |-> "read", dev |-> d, nwk |-> 0]
      /\ UNCHANGED <<known, addr, rx, joins, iv, updates, id, configs, retries, cf, counts>>
      /\ UNCHANGED <<lost, lostCfg, gone, overtaken>>
  BY <1>1 DEF Heard, past
<1>3. dev \in [Device -> Records] /\ known \in SUBSET Device
  BY DEF Types, PoolTypes
<1>4. /\ dev'[d] \in Records /\ dev'[d].interview = "none" /\ dev'[d].nwk = dev[d].nwk
      /\ dev' \in [Device -> Records] /\ \A x \in Device \ {d} : dev'[x] = dev[x]
  BY <1>2, <1>3
<1>5. Types'
  <2>1. trig' \in InTrig
    BY <1>2, <1>3
  <2> HIDE DEF Records, Events, Names, InRx, InTrig, InIv, InId, InCf, Counts
  <2> QED
    BY <1>2, <1>4, <2>1 DEF Types, PoolTypes, WorkTypes
<1>6. OnlyTheMet'
  BY <1>2 DEF OnlyTheMet, Met
<1>7. NotStranded'
  BY <1>2, <1>3, <1>4 DEF NotStranded, Expected, Idle
<1>8. Remembered'
  BY <1>2, <1>3, <1>4, WorkKept
<1>9. AddressesFollow'
  BY <1>2, <1>3, <1>4 DEF AddressesFollow, Followed
<1> QED
  BY <1>5, <1>6, <1>7, <1>8, <1>9

LEMMA RequestedKeeps == IInv /\ (\E d \in Device : Requested(d)) => IInv'
<1> SUFFICES ASSUME IInv, (\E d \in Device : Requested(d)) PROVE IInv'
  OBVIOUS
<1> USE DEF IInv
<1>1. PICK d \in Device : Requested(d)
  OBVIOUS
<1>2. /\ trig = Idle /\ trig' = [pc |-> "read", dev |-> d, nwk |-> 0]
      /\ UNCHANGED <<known, dev, addr, rx, joins, iv, updates, id, configs, retries, cf, lost, lostCfg, gone, overtaken>>
  BY <1>1 DEF Requested, pool, past
<1>3. counts' \in Counts
  <2>1. counts' = [counts EXCEPT !["upsets"] = @ + 1]
    BY <1>1 DEF Requested, Count
  <2>2. counts \in Counts
    BY DEF Types, WorkTypes
  <2> QED
    BY <2>1, <2>2
<1>4. Types'
  BY <1>2, <1>3 DEF Types, PoolTypes, WorkTypes
<1>5. OnlyTheMet'
  BY <1>2 DEF OnlyTheMet, Met
<1>6. NotStranded'
  BY <1>2 DEF NotStranded, Expected, Idle, Types, PoolTypes
<1>7. Remembered'
  BY <1>2, WorkKept
<1>8. AddressesFollow'
  BY <1>2 DEF AddressesFollow, Followed
<1> QED
  BY <1>4, <1>5, <1>6, <1>7, <1>8

LEMMA TriggerReadKeeps == IInv /\ TriggerRead => IInv'
<1> SUFFICES ASSUME IInv, TriggerRead PROVE IInv'
  OBVIOUS
<1> USE DEF IInv
<1>1. /\ trig.pc = "read"
      /\ trig' = IF trig.dev \in known THEN [trig EXCEPT !.pc = "send", !.nwk = dev[trig.dev].nwk] ELSE Idle
      /\ UNCHANGED <<known, dev, addr, rx, joins, iv, updates, id, configs, retries, cf, counts>>
      /\ UNCHANGED <<lost, lostCfg, gone, overtaken>>
  BY DEF TriggerRead, pool, past
<1>2. trig \in [pc : {"read", "send"}, dev : Device, nwk : Nat] /\ dev \in [Device -> Records] /\ known \in SUBSET Device
  <2>1. trig \in InTrig /\ dev \in [Device -> Records] /\ known \in SUBSET Device
    BY DEF Types, PoolTypes
  <2>2. trig \in [pc : {"read", "send"}, dev : Device, nwk : Nat]
    BY <1>1, <2>1 DEF Idle
  <2> QED
    BY <2>1, <2>2
<1>3. /\ trig' \in InTrig /\ (trig.dev \in known => trig'.dev = trig.dev)
      /\ trig'.pc = "send" => trig'.dev \in known
  BY <1>1, <1>2 DEF Idle
<1>4. Types'
  BY <1>1, <1>3 DEF Types, PoolTypes, WorkTypes
<1>5. OnlyTheMet'
  BY <1>1, <1>3 DEF OnlyTheMet, Met
<1>6. NotStranded'
  BY <1>1, <1>3 DEF NotStranded, Expected
<1>7. Remembered'
  BY <1>1, WorkKept
<1>8. AddressesFollow'
  BY <1>1 DEF AddressesFollow, Followed
<1> QED
  BY <1>4, <1>5, <1>6, <1>7, <1>8

LEMMA TriggerSendKeeps == IInv /\ TriggerSend => IInv'
<1> SUFFICES ASSUME IInv, TriggerSend PROVE IInv'
  OBVIOUS
<1> USE DEF IInv
<1> DEFINE d == trig.dev
           e == Join(trig.dev, trig.nwk)
<1>1. /\ trig.pc = "send" /\ trig' = Idle
      /\ UNCHANGED <<known, dev, addr, rx, iv, updates, id, configs, retries, cf, counts, lostCfg, gone>>
  BY DEF TriggerSend, pool
<1>2. /\ d \in Device /\ trig.nwk \in Nat /\ e \in Events /\ e.dev = d /\ e.nwk = trig.nwk /\ joins \in Seq(Events)
      /\ lost \in SUBSET Device /\ overtaken \in SUBSET Device /\ known \in SUBSET Device /\ addr \in [Device -> Nat]
  <2>1. d \in Device /\ trig.nwk \in Nat
    BY <1>1, Holders
  <2>2. joins \in Seq(Events)
    BY DEF Types, PoolTypes
  <2> QED
    BY <2>1, <2>2 DEF Join, Types, PoolTypes
<1>3. Met(d)
  BY <1>1 DEF OnlyTheMet
<1>4. Remembered'
  BY <1>1, WorkKept
<1>5. CASE Len(joins) < JoinDepth
  <2>1. /\ joins' = Append(joins, e) /\ lost' = lost \ {d}
        /\ overtaken' = IF trig.nwk = addr[d] THEN overtaken ELSE overtaken \cup {d}
    BY <1>5 DEF TriggerSend
  <2>2. /\ joins' \in Seq(Events) /\ DOMAIN joins' = 1..Len(joins') /\ Len(joins') = Len(joins) + 1
        /\ joins'[Len(joins) + 1] = e /\ \A i \in 1..Len(joins) : joins'[i] = joins[i]
    BY <1>2, <2>1
  <2>3. Types'
    <3>1. lost' \in SUBSET Device /\ overtaken' \in SUBSET Device
      BY <1>2, <2>1
    <3>2. trig' \in InTrig
      BY <1>1 DEF InTrig
    <3>3. PoolTypes'
      BY <1>1, <1>2, <2>2, <3>1, <3>2 DEF Types, PoolTypes
    <3>4. WorkTypes'
      BY <1>1 DEF Types, WorkTypes
    <3> QED
      BY <1>1, <3>3, <3>4 DEF Types
  <2>4. OnlyTheMet'
    <3>1. ASSUME NEW i \in 1..Len(joins') PROVE Met(joins'[i].dev)
      <4>1. CASE i \in 1..Len(joins)
        BY <2>2, <4>1 DEF OnlyTheMet
      <4>2. CASE i = Len(joins) + 1
        BY <1>2, <1>3, <2>2, <4>2
      <4>3. Len(joins) \in Nat
        BY <1>2
      <4> QED
        BY <2>2, <4>1, <4>2, <4>3
    <3> QED
      BY <1>1, <3>1 DEF OnlyTheMet, Met, Idle
  <2>5. \A x \in Device : Waits(joins', x) <=> Waits(joins, x) \/ x = d
    <3>1. \A x \in Device : Waits(Append(joins, e), x) <=> Waits(joins, x) \/ e.dev = x
      BY <1>2, Appended
    <3> QED
      BY <1>2, <2>1, <3>1
  <2>6. NotStranded'
    <3> SUFFICES ASSUME NEW x \in known', dev'[x].interview = "none" PROVE (Expected(x) \/ x \in lost)'
      BY DEF NotStranded
    <3>1. x \in Device /\ (Expected(x) \/ x \in lost)
      BY <1>1, <1>2 DEF NotStranded
    <3>2. CASE x = d
      BY <2>5, <3>1, <3>2 DEF Expected, Waits
    <3>3. CASE x # d
      BY <1>1, <2>1, <2>5, <3>1, <3>3 DEF Expected, Waits
    <3> QED
      BY <3>2, <3>3
  <2>7. AddressesFollow'
    <3> SUFFICES ASSUME NEW x \in known' \ (gone' \cup overtaken') PROVE Followed(x)'
      BY DEF AddressesFollow
    <3>1. x \in Device /\ addr[x] \in Nat /\ Followed(x)
      BY <1>1, <1>2, <2>1 DEF AddressesFollow
    <3>2. CASE x = d
      <4>1. e = Join(x, addr[x])
        BY <2>1, <3>2
      <4>2. InOrder(joins', x, addr[x]) /\ Behind(joins', x, addr[x], 0)
        BY <1>2, <2>1, <3>1, <4>1, NewestAppended
      <4> QED
        BY <1>1, <3>1, <4>2 DEF Followed
    <3>3. CASE x # d
      <4>1. InOrder(joins, x, addr[x]) => InOrder(joins', x, addr[x])
        BY <1>2, <2>1, <3>1, <3>3, Appended
      <4>2. Behind(joins, x, addr[x], 0) => Behind(joins', x, addr[x], 0)
        BY <1>2, <2>1, <3>1, <3>3, Appended
      <4>3. x \in lost => x \in lost'
        BY <2>1, <3>3
      <4> QED
        BY <1>1, <3>1, <4>1, <4>2, <4>3 DEF Followed
    <3> QED
      BY <3>2, <3>3
  <2> QED
    BY <1>4, <2>3, <2>4, <2>6, <2>7
<1>6. CASE ~(Len(joins) < JoinDepth)
  <2>1. joins' = joins /\ lost' = lost \cup {d} /\ UNCHANGED overtaken
    BY <1>6 DEF TriggerSend
  <2>2. Types'
    <3>1. trig' \in InTrig /\ lost' \in SUBSET Device
      BY <1>1, <1>2, <2>1 DEF Types, PoolTypes
    <3> HIDE DEF Records, Events, Names, InRx, InTrig, InIv, InId, InCf, Counts
    <3> QED
      BY <1>1, <2>1, <3>1 DEF Types, PoolTypes, WorkTypes
  <2>3. OnlyTheMet'
    BY <1>1, <2>1 DEF OnlyTheMet, Met, Idle
  <2>4. NotStranded'
    BY <1>1, <2>1 DEF NotStranded, Expected
  <2>5. AddressesFollow'
    BY <1>1, <2>1 DEF AddressesFollow, Followed
  <2> QED
    BY <1>4, <2>2, <2>3, <2>4, <2>5
<1> QED
  BY <1>5, <1>6

-----------------------------------------------------------------------------
\* The interview task.
LEMMA ReceiveKeeps == IInv /\ Receive => IInv'
<1> SUFFICES ASSUME IInv, Receive PROVE IInv'
  OBVIOUS
<1> USE DEF IInv
<1> DEFINE d == Head(joins).dev
           n == Head(joins).nwk
<1>1. /\ iv.pc = "idle" /\ joins # <<>> /\ joins' = Tail(joins)
      /\ UNCHANGED <<known, addr, rx, trig, updates, id, configs, retries, cf, counts, lost, lostCfg, gone, overtaken>>
  BY DEF Receive, past
<1>2. /\ joins \in Seq(Events) /\ dev \in [Device -> Records] /\ known \in SUBSET Device /\ addr \in [Device -> Nat]
  BY DEF Types, PoolTypes
<1>3. d \in Device /\ n \in Nat /\ Head(joins) = joins[1] /\ joins' \in Seq(Events)
  BY <1>1, <1>2, Taken
<1>4. \A i \in 1..Len(joins') : Met(joins'[i].dev)
  BY <1>1, <1>2, Taken DEF OnlyTheMet
<1>5. Met(d)
  BY <1>1, <1>2, <1>3, Taken DEF OnlyTheMet
<1>6. \A x \in Device : Waits(joins, x) => x = d \/ Waits(joins', x)
  BY <1>1, <1>2, Taken
<1>7. \A x \in Device, a \in Nat : InOrder(joins, x, a) => InOrder(joins', x, a)
  BY <1>1, <1>2, Taken
<1>8. iv.dev \notin Device /\ ~(\E x \in Device : iv.dev = x)
  BY DEF Types, Idle, Receive
<1>9. CASE d \in known /\ dev[d].interview = "ready"
  <2>1. dev' = [dev EXCEPT ![d] = Rejoined(d, n)] /\ iv' = [pc |-> "enqueue", dev |-> d]
    BY <1>9 DEF Receive
  <2>2. /\ Rejoined(d, n) \in Records /\ Rejoined(d, n).interview = "ready"
        /\ Rejoined(d, n).nwk = IF n # 0 THEN n ELSE dev[d].nwk
    <3>1. dev[d] \in Records
      BY <1>2, <1>3
    <3>2. CASE dev[d].configure = "done"
      BY <1>3, <1>9, <3>1, <3>2 DEF Rejoined
    <3>3. CASE dev[d].configure # "done"
      BY <1>3, <1>9, <3>1, <3>3 DEF Rejoined
    <3> QED
      BY <3>2, <3>3
  <2>3. dev' \in [Device -> Records] /\ dev'[d] = Rejoined(d, n) /\ \A x \in Device \ {d} : dev'[x] = dev[x]
    <3> HIDE DEF Records
    <3> QED
      BY <1>2, <1>3, <2>1, <2>2
  <2>4. iv' \in InIv
    BY <1>3, <2>1
  <2>5. Types'
    <3> HIDE DEF Records, Events, Names, InRx, InTrig, InIv, InId, InCf, Counts
    <3> QED
      BY <1>1, <1>3, <2>3, <2>4 DEF Types, PoolTypes, WorkTypes
  <2>6. OnlyTheMet'
    <3>1. iv'.dev = d
      BY <2>1
    <3> QED
      BY <1>1, <1>4, <1>5, <3>1 DEF OnlyTheMet, Met
  <2>7. NotStranded'
    <3> SUFFICES ASSUME NEW x \in known', dev'[x].interview = "none" PROVE (Expected(x) \/ x \in lost)'
      BY DEF NotStranded
    <3>1. x \in Device /\ x # d /\ dev[x].interview = "none"
      BY <1>1, <1>2, <2>2, <2>3
    <3>2. Expected(x) \/ x \in lost
      BY <1>1, <3>1 DEF NotStranded
    <3> QED
      BY <1>1, <1>6, <1>8, <3>1, <3>2 DEF Expected, Waits
  <2>8. Remembered'
    <3> SUFFICES ASSUME NEW x \in known', dev'[x].interview \in {"pending", "ready"}
                 PROVE  (Settled(dev[x]) \/ Asked(x) \/ InHand(x))'
      BY DEF Remembered
    <3>1. CASE x = d
      BY <2>1, <3>1 DEF InHand
    <3>2. CASE x # d
      <4>1. x \in Device /\ dev'[x] = dev[x] /\ (Settled(dev[x]) \/ Asked(x) \/ InHand(x))
        BY <1>1, <1>2, <2>3, <3>2 DEF Remembered
      <4> QED
        BY <1>1, <1>8, <4>1 DEF Settled, Asked, InHand
    <3> QED
      BY <3>1, <3>2
  <2>9. AddressesFollow'
    <3> SUFFICES ASSUME NEW x \in known' \ (gone' \cup overtaken') PROVE Followed(x)'
      BY DEF AddressesFollow
    <3>1. x \in Device /\ addr[x] \in Nat /\ Followed(x) /\ addr[x] # 0
      BY <1>1, <1>2 DEF AddressesFollow, OnlyTheMet, Met
    <3>2. iv'.pc = "enqueue"
      BY <2>1
    <3>3. InOrder(joins, x, addr[x]) => InOrder(joins', x, addr[x])
      BY <1>7, <3>1
    <3>4. CASE x # d
      <4>1. dev'[x] = dev[x]
        BY <2>3, <3>1, <3>4
      <4>2. Head(joins) = Join(x, addr[x]) => d = x
        BY DEF Join
      <4>3. Behind(joins, x, addr[x], 0) => Behind(joins', x, addr[x], 0)
        BY <1>1, <1>2, <3>1, <3>4, <4>2, Taken
      <4> QED
        BY <1>1, <3>1, <3>2, <3>3, <4>1, <4>3 DEF Followed
    <3>5. CASE x = d
      <4>1. dev'[x].nwk = (IF n # 0 THEN n ELSE dev[x].nwk) /\ dev'[x].interview = "ready"
        BY <2>2, <2>3, <3>5
      <4>2. CASE n = addr[x]
        BY <1>1, <3>1, <3>2, <3>3, <4>1, <4>2 DEF Followed
      <4>3. CASE n \notin {0, addr[x]}
        <5>1. InOrder(joins, x, addr[x]) => Behind(joins', x, addr[x], 0)
          BY <1>1, <1>2, <3>1, <3>5, <4>3, Taken
        <5> QED
          BY <1>1, <3>1, <3>2, <3>3, <4>1, <5>1 DEF Followed
      <4>4. CASE n = 0
        <5>1. Head(joins) # Join(x, addr[x])
          BY <3>1, <4>4 DEF Join
        <5>2. Behind(joins, x, addr[x], 0) => Behind(joins', x, addr[x], 0)
          BY <1>1, <1>2, <3>1, <5>1, Taken
        <5> QED
          BY <1>1, <3>1, <3>2, <3>3, <4>1, <4>4, <5>2 DEF Followed
      <4> QED
        BY <4>2, <4>3, <4>4
    <3> QED
      BY <3>4, <3>5
  <2> QED
    BY <2>5, <2>6, <2>7, <2>8, <2>9
<1>10. CASE ~(d \in known /\ dev[d].interview = "ready")
  <2>1. dev' = dev /\ iv' = [pc |-> "attempt", dev |-> d, nwk |-> n, attempt |-> 1]
    BY <1>10 DEF Receive
  <2>2. iv' \in InIv
    BY <1>3, <2>1
  <2>3. Types'
    <3> HIDE DEF Records, Events, Names, InRx, InTrig, InIv, InId, InCf, Counts
    <3> QED
      BY <1>1, <1>3, <2>1, <2>2 DEF Types, PoolTypes, WorkTypes
  <2>4. OnlyTheMet'
    <3>1. iv'.dev = d
      BY <2>1
    <3> QED
      BY <1>1, <1>4, <1>5, <3>1 DEF OnlyTheMet, Met
  <2>5. NotStranded'
    <3> SUFFICES ASSUME NEW x \in known', dev'[x].interview = "none" PROVE (Expected(x) \/ x \in lost)'
      BY DEF NotStranded
    <3>1. x \in Device /\ (Expected(x) \/ x \in lost)
      BY <1>1, <1>2, <2>1 DEF NotStranded
    <3>2. CASE x = d
      BY <2>1, <3>2 DEF Expected
    <3>3. CASE x # d
      BY <1>1, <1>6, <1>8, <3>1, <3>3 DEF Expected, Waits
    <3> QED
      BY <3>2, <3>3
  <2>6. Remembered'
    BY <1>1, <2>1, WorkKept
  <2>7. AddressesFollow'
    <3> SUFFICES ASSUME NEW x \in known' \ (gone' \cup overtaken') PROVE Followed(x)'
      BY DEF AddressesFollow
    <3>1. x \in Device /\ addr[x] \in Nat /\ Followed(x) /\ x \in known
      BY <1>1, <1>2 DEF AddressesFollow
    <3>2. iv'.pc = "attempt" /\ iv'.dev = d
      BY <2>1
    <3>3. InOrder(joins, x, addr[x]) => InOrder(joins', x, addr[x])
      BY <1>7, <3>1
    <3>4. CASE x # d
      <4>1. Head(joins) = Join(x, addr[x]) => d = x
        BY DEF Join
      <4>2. Behind(joins, x, addr[x], 0) => Behind(joins', x, addr[x], 0)
        BY <1>1, <1>2, <3>1, <3>4, <4>1, Taken
      <4> QED
        BY <1>1, <2>1, <3>1, <3>2, <3>3, <3>4, <4>2 DEF Followed
    <3>5. CASE x = d
      <4>1. dev[x].nwk = addr[x]
        BY <1>10, <3>1, <3>5 DEF Followed
      <4> QED
        BY <1>1, <2>1, <3>1, <3>2, <3>3, <4>1 DEF Followed
    <3> QED
      BY <3>4, <3>5
  <2> QED
    BY <2>3, <2>4, <2>5, <2>6, <2>7
<1> QED
  BY <1>9, <1>10

LEMMA ReadNwkKeeps == IInv /\ ReadNwk => IInv'
<1> SUFFICES ASSUME IInv, ReadNwk PROVE IInv'
  OBVIOUS
<1> USE DEF IInv
<1>1. /\ iv.pc = "attempt"
      /\ iv' = [pc |-> "begin", dev |-> iv.dev, nwk |-> iv.nwk, attempt |-> iv.attempt,
                use |-> IF iv.dev \in known /\ dev[iv.dev].nwk # 0 THEN dev[iv.dev].nwk ELSE iv.nwk]
      /\ UNCHANGED <<known, dev, addr, rx, joins, trig, updates, id, configs, retries, cf, counts>>
      /\ UNCHANGED <<lost, lostCfg, gone, overtaken>>
  BY DEF ReadNwk, pool, past
<1>2. iv \in [pc : {"attempt", "ask", "failed", "sleep"}, dev : Device, nwk : Nat, attempt : Nat]
  <2>1. iv \in InIv
    BY DEF Types
  <2> QED
    BY <1>1, <2>1 DEF Idle
<1>3. dev \in [Device -> Records] /\ known \in SUBSET Device
  BY DEF Types, PoolTypes
<1>4. iv' \in [pc : {"begin"}, dev : Device, nwk : Nat, attempt : Nat, use : Nat]
  <2>1. (IF iv.dev \in known /\ dev[iv.dev].nwk # 0 THEN dev[iv.dev].nwk ELSE iv.nwk) \in Nat
    BY <1>2, <1>3
  <2> QED
    BY <1>1, <1>2, <2>1
<1>5. iv'.dev = iv.dev /\ iv'.pc = "begin" /\ iv' \in InIv
  BY <1>1, <1>4
<1>6. \A d \in known \ (gone \cup overtaken) : iv'.pc = "begin" /\ iv'.dev = d => iv'.use = addr[d]
  <2> SUFFICES ASSUME NEW d \in known \ (gone \cup overtaken), iv.dev = d PROVE iv'.use = addr[d]
    BY <1>5
  <2>1. Followed(d) /\ addr[d] # 0
    BY DEF AddressesFollow, OnlyTheMet, Met
  <2>2. dev[d].nwk = addr[d]
    BY <1>1, <2>1 DEF Followed
  <2> QED
    BY <1>1, <2>1, <2>2
<1>7. PoolTypes' /\ OnlyTheMet' /\ NotStranded' /\ AddressesFollow'
  BY <1>1, <1>3, <1>5, <1>6, ArrivalsKept
<1>8. Remembered'
  BY <1>1, WorkKept
<1>9. WorkTypes'
  BY <1>1 DEF Types, WorkTypes
<1> QED
  BY <1>5, <1>7, <1>8, <1>9 DEF Types

LEMMA BeginKeeps == IInv /\ Begin => IInv'
<1> SUFFICES ASSUME IInv, Begin PROVE IInv'
  OBVIOUS
<1> USE DEF IInv
<1> DEFINE d == iv.dev
           r == IF d \in known THEN dev[d] ELSE Fresh
           s == [r EXCEPT !.nwk = iv.use, !.interview = "none", !.configure = "pending", !.tries = 0]
<1>1. /\ iv.pc = "begin" /\ known' = known \cup {d} /\ dev' = [dev EXCEPT ![d] = s]
      /\ iv' = [pc |-> "ask", dev |-> d, nwk |-> iv.nwk, attempt |-> iv.attempt]
      /\ UNCHANGED <<addr, rx, joins, trig, updates, id, configs, retries, cf, counts, lost, lostCfg, gone, overtaken>>
  BY DEF Begin, past
<1>2. iv \in [pc : {"begin"}, dev : Device, nwk : Nat, attempt : Nat, use : Nat]
  <2>1. iv \in InIv
    BY DEF Types
  <2> QED
    BY <1>1, <2>1 DEF Idle
<1>3. dev \in [Device -> Records] /\ known \in SUBSET Device
  BY DEF Types, PoolTypes
<1>4. s \in Records /\ s.nwk = iv.use /\ s.interview = "none"
  <2>1. r \in Records
    BY <1>2, <1>3 DEF Fresh
  <2> HIDE DEF r
  <2> QED
    BY <1>2, <2>1
<1> HIDE DEF s
<1>5. dev' \in [Device -> Records] /\ dev'[d] = s /\ \A x \in Device \ {d} : dev'[x] = dev[x]
  <2> HIDE DEF Records
  <2> QED
    BY <1>1, <1>2, <1>3, <1>4
<1>6. iv' \in InIv /\ iv'.dev = d /\ iv'.pc = "ask"
  BY <1>1, <1>2
<1>7. Met(d) /\ d \in known \cup gone
  BY <1>1, <1>2 DEF OnlyTheMet, Idle
<1>8. Types'
  <2> HIDE DEF Records, Events, Names, InRx, InTrig, InIv, InId, InCf, Counts
  <2>1. known' \in SUBSET Device
    BY <1>1, <1>2, <1>3
  <2> QED
    BY <1>1, <1>5, <1>6, <2>1 DEF Types, PoolTypes, WorkTypes
<1>9. OnlyTheMet'
  BY <1>1, <1>6, <1>7 DEF OnlyTheMet, Met
<1>10. NotStranded'
  <2> SUFFICES ASSUME NEW x \in known', dev'[x].interview = "none", x # d PROVE (Expected(x) \/ x \in lost)'
    BY <1>6 DEF NotStranded, Expected
  <2>1. x \in known /\ dev'[x] = dev[x]
    BY <1>1, <1>3, <1>5
  <2> QED
    BY <1>1, <1>6, <2>1 DEF NotStranded, Expected
<1>11. Remembered'
  <2>1. \A x \in known' : dev'[x].interview \in {"pending", "ready"} => x \in known /\ dev'[x] = dev[x]
    BY <1>1, <1>3, <1>4, <1>5
  <2> QED
    BY <1>1, <2>1, WorkKept
<1>12. AddressesFollow'
  <2> SUFFICES ASSUME NEW x \in known' \ (gone' \cup overtaken') PROVE Followed(x)'
    BY DEF AddressesFollow
  <2>1. x \in known /\ x \in Device /\ Followed(x)
    BY <1>1, <1>3, <1>7 DEF AddressesFollow
  <2>2. CASE x = d
    <3>1. iv.use = addr[x]
      BY <1>1, <2>1, <2>2 DEF Followed
    <3> QED
      BY <1>1, <1>4, <1>5, <1>6, <2>1, <2>2, <3>1 DEF Followed
  <2>3. CASE x # d
    <3>1. dev'[x] = dev[x]
      BY <1>5, <2>1, <2>3
    <3> QED
      BY <1>1, <1>6, <2>1, <2>3, <3>1 DEF Followed
  <2> QED
    BY <2>2, <2>3
<1> QED
  BY <1>8, <1>9, <1>10, <1>11, <1>12

LEMMA AskKeeps == IInv /\ Ask => IInv'
<1> SUFFICES ASSUME IInv, Ask PROVE IInv'
  OBVIOUS
<1> USE DEF IInv
<1>1. /\ iv.pc = "ask"
      /\ UNCHANGED <<known, dev, addr, rx, joins, trig, updates, id, configs, retries, cf, counts>>
      /\ UNCHANGED <<lost, lostCfg, gone, overtaken>>
      /\ \/ iv' = [pc |-> "failed", dev |-> iv.dev, nwk |-> iv.nwk, attempt |-> iv.attempt]
         \/ \E a \in Answers : iv' = [pc |-> "commit", dev |-> iv.dev, got |-> a]
  BY DEF Ask, pool, past
<1>2. iv \in [pc : {"attempt", "ask", "failed", "sleep"}, dev : Device, nwk : Nat, attempt : Nat]
  <2>1. iv \in InIv
    BY DEF Types
  <2> QED
    BY <1>1, <2>1 DEF Idle
<1>3. iv' \in InIv /\ iv'.dev = iv.dev /\ iv'.pc \in {"failed", "commit"}
  BY <1>1, <1>2
<1>4. PoolTypes' /\ OnlyTheMet' /\ NotStranded' /\ AddressesFollow'
  <2>1. dev' \in [Device -> Records]
    BY <1>1 DEF Types, PoolTypes
  <2> QED
    BY <1>1, <1>3, <2>1, ArrivalsKept
<1>5. Remembered'
  BY <1>1, WorkKept
<1>6. WorkTypes'
  BY <1>1 DEF Types, WorkTypes
<1> QED
  BY <1>3, <1>4, <1>5, <1>6 DEF Types

LEMMA CommitKeeps == IInv /\ Commit => IInv'
<1> SUFFICES ASSUME IInv, Commit PROVE IInv'
  OBVIOUS
<1> USE DEF IInv
<1>1. /\ iv.pc = "commit"
      /\ UNCHANGED <<addr, rx, joins, trig, updates, id, configs, retries, cf, counts, lost, lostCfg, gone, overtaken>>
  BY DEF Commit, past
<1>2. iv \in [pc : {"commit"}, dev : Device, got : Answers]
  <2>1. iv \in InIv
    BY DEF Types
  <2> QED
    BY <1>1, <2>1 DEF Idle
<1>3. dev \in [Device -> Records] /\ known \in SUBSET Device
  BY DEF Types, PoolTypes
<1>4. WorkTypes'
  BY <1>1 DEF Types, WorkTypes
<1>5. CASE iv.dev \notin known
  <2>1. iv' = Idle /\ UNCHANGED <<known, dev>>
    BY <1>1, <1>5 DEF Commit, pool
  <2>2. iv' \in InIv /\ iv'.dev = Nobody /\ Nobody \notin Device /\ iv'.pc = "idle"
    BY <2>1 DEF Idle, LifecycleConstants
  <2>3. PoolTypes' /\ OnlyTheMet' /\ NotStranded' /\ AddressesFollow'
    BY <1>1, <1>3, <1>5, <2>1, <2>2, ArrivalsKept
  <2>4. Remembered'
    BY <1>1, <2>1, WorkKept
  <2> QED
    BY <1>4, <2>2, <2>3, <2>4 DEF Types
<1>6. CASE iv.dev \in known
  <2> DEFINE d == iv.dev
             r == Outcome(dev[d])
  <2>1. /\ dev' = [dev EXCEPT ![d] = r] /\ UNCHANGED known
        /\ iv' = IF dev'[d].support = "matched" /\ dev'[d].configure # "done" THEN [pc |-> "enqueue", dev |-> d] ELSE Idle
    BY <1>1, <1>6 DEF Commit, Committed
  <2>2. dev[d] \in Records /\ iv.got \in Answers
    BY <1>2, <1>3
  <2>3. r \in Records /\ r.nwk = dev[d].nwk /\ r.interview # "none"
    <3>1. CASE iv.got.interview = "pending" /\ dev[d].interview = "ready"
      <4>1. r = dev[d]
        BY <3>1 DEF Outcome
      <4> QED
        BY <2>2, <3>1, <4>1
    <3>2. CASE ~(iv.got.interview = "pending" /\ dev[d].interview = "ready")
      <4>1. PICK v \in {"matched", "unmatched"} :
               r = [dev[d] EXCEPT !.interview = iv.got.interview, !.name = iv.got.name, !.configure = "pending", !.tries = 0,
                                  !.support = v]
        BY <3>2 DEF Outcome
      <4>2. iv.got.interview \in {"failed", "pending", "ready"} /\ iv.got.name \in {"blank", "maker", "full"}
        BY <2>2 DEF Answers
      <4> HIDE DEF r
      <4> QED
        BY <2>2, <4>1, <4>2
    <3> QED
      BY <3>1, <3>2
  <2> HIDE DEF r
  <2>4. dev' \in [Device -> Records] /\ dev'[d] = r /\ \A x \in Device \ {d} : dev'[x] = dev[x]
    <3> HIDE DEF Records
    <3> QED
      BY <1>2, <1>3, <2>1, <2>3
  <2>5. /\ iv' \in InIv /\ iv'.dev \in {d, Nobody} /\ (iv'.dev \in Device => iv'.pc = "enqueue") /\ iv'.pc # "begin"
        /\ r.support = "matched" /\ r.configure # "done" => iv'.dev = d /\ iv'.pc = "enqueue"
    BY <1>2, <2>1, <2>4 DEF Idle
  <2>6. PoolTypes' /\ OnlyTheMet' /\ NotStranded' /\ AddressesFollow'
    <3>1. \A x \in known : dev'[x].nwk = dev[x].nwk
      BY <1>3, <2>3, <2>4
    <3>2. \A x \in known : dev'[x].interview = "none" => x # d /\ dev[x].interview = "none"
      BY <1>3, <2>3, <2>4
    <3>3. \A x \in known : dev[x].interview = "ready" => dev'[x].interview = "ready" \/ (iv.dev = x /\ iv.pc # "enqueue")
      BY <1>1, <1>3, <2>4
    <3> QED
      BY <1>1, <2>1, <2>4, <2>5, <3>1, <3>2, <3>3, ArrivalsKept
  <2>7. Remembered'
    <3> SUFFICES ASSUME NEW x \in known', dev'[x].interview \in {"pending", "ready"}
                 PROVE  (Settled(dev[x]) \/ Asked(x) \/ InHand(x))'
      BY DEF Remembered
    <3>1. CASE x = d
      BY <2>4, <2>5, <3>1 DEF InHand, Settled
    <3>2. CASE x # d
      <4>1. x \in Device /\ dev'[x] = dev[x] /\ (Settled(dev[x]) \/ Asked(x) \/ InHand(x))
        BY <1>3, <2>1, <2>4, <3>2 DEF Remembered
      <4> QED
        BY <1>1, <3>2, <4>1 DEF Settled, Asked, InHand
    <3> QED
      BY <3>1, <3>2
  <2> QED
    BY <1>4, <2>5, <2>6, <2>7 DEF Types
<1> QED
  BY <1>5, <1>6

LEMMA InterviewEnqueueKeeps == IInv /\ InterviewEnqueue => IInv'
<1> SUFFICES ASSUME IInv, InterviewEnqueue PROVE IInv'
  OBVIOUS
<1> USE DEF IInv
<1>1. /\ iv.pc = "enqueue" /\ EnqueueConfigure(iv.dev) /\ iv' = Idle
      /\ UNCHANGED <<known, dev, addr, rx, joins, trig, updates, id, cf, lost, gone, overtaken>>
  BY DEF InterviewEnqueue, pool
<1>2. PICK d \in Device : d = iv.dev
  BY <1>1, Holders
<1>3. /\ configs' \in Seq(Device) /\ retries' \in [Device -> Nat] /\ lostCfg' \in SUBSET Device /\ counts' \in Counts
      /\ Asked(d)' /\ \A x \in Device : Asked(x) => Asked(x)'
  BY <1>1, <1>2, Requests
<1>4. iv' \in InIv /\ iv'.dev = Nobody /\ Nobody \notin Device /\ iv'.pc = "idle"
  BY <1>1 DEF Idle, LifecycleConstants
<1>5. PoolTypes' /\ OnlyTheMet' /\ NotStranded' /\ AddressesFollow'
  <2>1. dev' \in [Device -> Records]
    BY <1>1 DEF Types, PoolTypes
  <2> QED
    BY <1>1, <1>4, <2>1, ArrivalsKept
<1>6. WorkTypes'
  BY <1>1, <1>3 DEF Types, WorkTypes
<1>7. Remembered'
  <2> SUFFICES ASSUME NEW x \in known', dev'[x].interview \in {"pending", "ready"}
               PROVE  (Settled(dev[x]) \/ Asked(x) \/ InHand(x))'
    BY DEF Remembered
  <2>1. x \in Device /\ (Settled(dev[x]) \/ Asked(x) \/ InHand(x))
    BY <1>1 DEF Remembered, Types, PoolTypes
  <2>2. CASE x = d
    BY <1>3, <2>2
  <2>3. CASE x # d
    BY <1>1, <1>2, <1>3, <2>1, <2>3 DEF Settled, InHand
  <2> QED
    BY <2>2, <2>3
<1> QED
  BY <1>4, <1>5, <1>6, <1>7 DEF Types

LEMMA AttemptFailedKeeps == IInv /\ AttemptFailed => IInv'
<1> SUFFICES ASSUME IInv, AttemptFailed PROVE IInv'
  OBVIOUS
<1> USE DEF IInv
<1>1. /\ iv.pc = "failed"
      /\ UNCHANGED <<known, addr, rx, joins, trig, updates, id, configs, retries, cf, counts, lost, lostCfg, gone, overtaken>>
  BY DEF AttemptFailed, past
<1>2. iv \in [pc : {"attempt", "ask", "failed", "sleep"}, dev : Device, nwk : Nat, attempt : Nat]
  <2>1. iv \in InIv
    BY DEF Types
  <2> QED
    BY <1>1, <2>1 DEF Idle
<1>3. dev \in [Device -> Records] /\ known \in SUBSET Device
  BY DEF Types, PoolTypes
<1>4. WorkTypes'
  BY <1>1 DEF Types, WorkTypes
<1>5. CASE iv.attempt < InterviewAttempts
  <2>1. iv' = [iv EXCEPT !.pc = "sleep"] /\ dev' = dev
    BY <1>5 DEF AttemptFailed
  <2>2. iv' \in InIv /\ iv'.dev = iv.dev /\ iv'.pc = "sleep"
    BY <1>2, <2>1
  <2>3. PoolTypes' /\ OnlyTheMet' /\ NotStranded' /\ AddressesFollow'
    BY <1>1, <1>3, <2>1, <2>2, ArrivalsKept
  <2>4. Remembered'
    BY <1>1, <2>1, WorkKept
  <2> QED
    BY <1>4, <2>2, <2>3, <2>4 DEF Types
<1>6. CASE ~(iv.attempt < InterviewAttempts)
  <2>1. iv' = Idle /\ dev' = IF StampFailed(iv.dev) THEN [dev EXCEPT ![iv.dev].interview = "failed"] ELSE dev
    BY <1>6 DEF AttemptFailed
  <2>2. iv' \in InIv /\ iv'.dev = Nobody /\ Nobody \notin Device /\ iv'.pc = "idle"
    BY <2>1 DEF Idle, LifecycleConstants
  <2>3. /\ dev' \in [Device -> Records] /\ \A x \in Device \ {iv.dev} : dev'[x] = dev[x]
        /\ dev'[iv.dev].nwk = dev[iv.dev].nwk
        /\ iv.dev \in known => dev'[iv.dev].interview \in {"failed", "ready"}
        /\ dev'[iv.dev].interview \in {"pending", "ready"} => dev'[iv.dev] = dev[iv.dev]
    <3>1. CASE StampFailed(iv.dev)
      BY <1>2, <1>3, <2>1, <3>1
    <3>2. CASE ~StampFailed(iv.dev)
      BY <1>2, <1>3, <2>1, <3>2 DEF StampFailed
    <3> QED
      BY <3>1, <3>2
  <2>4. PoolTypes' /\ OnlyTheMet' /\ NotStranded' /\ AddressesFollow'
    <3>1. \A x \in known : /\ dev'[x].nwk = dev[x].nwk
                           /\ dev'[x].interview = "none" => x # iv.dev /\ dev[x].interview = "none"
                           /\ dev[x].interview = "ready" => dev'[x].interview = "ready" \/ (iv.dev = x /\ iv.pc # "enqueue")
      BY <1>1, <1>3, <2>3
    <3> QED
      BY <1>1, <2>2, <2>3, <3>1, ArrivalsKept
  <2>5. Remembered'
    <3>1. \A x \in known' : dev'[x].interview \in {"pending", "ready"} => x \in known /\ dev'[x] = dev[x]
      BY <1>1, <1>3, <2>3
    <3> QED
      BY <1>1, <3>1, WorkKept
  <2> QED
    BY <1>4, <2>2, <2>4, <2>5 DEF Types
<1> QED
  BY <1>5, <1>6

LEMMA WakeKeeps == IInv /\ Wake => IInv'
<1> SUFFICES ASSUME IInv, Wake PROVE IInv'
  OBVIOUS
<1> USE DEF IInv
<1>1. /\ iv.pc = "sleep"
      /\ UNCHANGED <<known, dev, addr, rx, trig, updates, id, configs, retries, cf, counts, lostCfg, gone, overtaken>>
  BY DEF Wake, pool
<1>2. iv \in [pc : {"attempt", "ask", "failed", "sleep"}, dev : Device, nwk : Nat, attempt : Nat]
  <2>1. iv \in InIv
    BY DEF Types
  <2> QED
    BY <1>1, <2>1 DEF Idle
<1>3. WorkTypes'
  BY <1>1 DEF Types, WorkTypes
<1>4. Remembered'
  BY <1>1, WorkKept
<1>5. dev \in [Device -> Records] /\ joins \in Seq(Events) /\ lost \in SUBSET Device /\ addr \in [Device -> Nat]
      /\ known \in SUBSET Device
  BY DEF Types, PoolTypes
<1>6. CASE joins = <<>>
  <2>1. /\ UNCHANGED <<joins, lost>>
        /\ iv' = [pc |-> "attempt", dev |-> iv.dev, nwk |-> iv.nwk, attempt |-> iv.attempt + 1]
    BY <1>6 DEF Wake
  <2>2. iv' \in InIv /\ iv'.dev = iv.dev /\ iv'.pc = "attempt"
    BY <1>2, <2>1
  <2>3. PoolTypes' /\ OnlyTheMet' /\ NotStranded' /\ AddressesFollow'
    BY <1>1, <1>5, <2>1, <2>2, ArrivalsKept
  <2> QED
    BY <1>3, <1>4, <2>2, <2>3 DEF Types
<1>7. CASE joins # <<>>
  <2> DEFINE e == Join(iv.dev, 0)
  <2>1. Yield(iv.dev) /\ iv' = Idle
    BY <1>7 DEF Wake
  <2>2. iv' \in InIv /\ iv'.dev = Nobody /\ Nobody \notin Device /\ iv'.pc = "idle"
    BY <2>1 DEF Idle, LifecycleConstants
  <2>3. e \in Events /\ e.dev = iv.dev /\ e.nwk = 0 /\ Met(iv.dev)
    BY <1>1, <1>2 DEF Join, OnlyTheMet, Idle
  <2>4. CASE joins' = Append(joins, e) /\ UNCHANGED lost
    <3>1. /\ joins' \in Seq(Events) /\ DOMAIN joins' = 1..Len(joins') /\ Len(joins') = Len(joins) + 1
          /\ joins'[Len(joins) + 1] = e /\ \A i \in 1..Len(joins) : joins'[i] = joins[i]
      BY <1>5, <2>3, <2>4
    <3>2. Types'
      BY <1>1, <1>3, <2>2, <2>4, <3>1 DEF Types, PoolTypes
    <3>3. OnlyTheMet'
      <4>1. ASSUME NEW i \in 1..Len(joins') PROVE Met(joins'[i].dev)
        <5>1. CASE i \in 1..Len(joins)
          BY <3>1, <5>1 DEF OnlyTheMet
        <5>2. CASE i = Len(joins) + 1
          BY <2>3, <3>1, <5>2
        <5>3. Len(joins) \in Nat
          BY <1>5
        <5> QED
          BY <3>1, <5>1, <5>2, <5>3
      <4> QED
        BY <1>1, <2>1, <4>1 DEF OnlyTheMet, Met
    <3>4. \A x \in Device : Waits(joins', x) <=> Waits(joins, x) \/ x = iv.dev
      <4>1. \A x \in Device : Waits(Append(joins, e), x) <=> Waits(joins, x) \/ e.dev = x
        BY <1>5, <2>3, Appended
      <4> QED
        BY <2>3, <2>4, <4>1
    <3>5. NotStranded'
      <4> SUFFICES ASSUME NEW x \in known', dev'[x].interview = "none" PROVE (Expected(x) \/ x \in lost)'
        BY DEF NotStranded
      <4>1. x \in Device /\ (Expected(x) \/ x \in lost)
        BY <1>1, <1>5 DEF NotStranded
      <4> QED
        BY <1>1, <2>4, <3>4, <4>1 DEF Expected, Waits
    <3>6. AddressesFollow'
      <4> SUFFICES ASSUME NEW x \in known' \ (gone' \cup overtaken') PROVE Followed(x)'
        BY DEF AddressesFollow
      <4>1. x \in Device /\ addr[x] \in Nat /\ Followed(x)
        BY <1>1, <1>5 DEF AddressesFollow
      <4>2. InOrder(joins, x, addr[x]) => InOrder(joins', x, addr[x])
        BY <1>5, <2>3, <2>4, <4>1, Appended
      <4>3. Behind(joins, x, addr[x], 0) => Behind(joins', x, addr[x], 0)
        BY <1>5, <2>3, <2>4, <4>1, Appended
      <4> QED
        BY <1>1, <2>2, <2>4, <4>1, <4>2, <4>3 DEF Followed
    <3> QED
      BY <1>4, <3>2, <3>3, <3>5, <3>6
  <2>5. CASE joins' = joins /\ lost' = lost \cup {iv.dev}
    <3>1. Types'
      BY <1>1, <1>2, <1>3, <1>5, <2>2, <2>5 DEF Types, PoolTypes
    <3>2. OnlyTheMet'
      BY <1>1, <2>1, <2>5 DEF OnlyTheMet, Met
    <3>3. NotStranded'
      BY <1>1, <1>5, <2>5 DEF NotStranded, Expected
    <3>4. AddressesFollow'
      <4> SUFFICES ASSUME NEW x \in known' \ (gone' \cup overtaken') PROVE Followed(x)'
        BY DEF AddressesFollow
      <4>1. x \in Device /\ Followed(x)
        BY <1>1, <1>5 DEF AddressesFollow
      <4> QED
        BY <1>1, <2>2, <2>5, <4>1 DEF Followed
    <3> QED
      BY <1>4, <3>1, <3>2, <3>3, <3>4
  <2> QED
    BY <2>1, <2>4, <2>5 DEF Yield, Again
<1> QED
  BY <1>6, <1>7

-----------------------------------------------------------------------------
\* The identity task.
LEMMA ToldKeeps == IInv /\ (\E d \in Device, name \in {"maker", "full"} : Told(d, name)) => IInv'
<1> SUFFICES ASSUME IInv, (\E d \in Device, name \in {"maker", "full"} : Told(d, name)) PROVE IInv'
  OBVIOUS
<1> USE DEF IInv
<1>1. PICK d \in Device, name \in {"maker", "full"} : Told(d, name)
  OBVIOUS
<1>2. /\ updates' = IF Len(updates) < UpdateDepth THEN Append(updates, [nwk |-> addr[d], name |-> name]) ELSE updates
      /\ UNCHANGED <<known, dev, addr, rx, joins, iv, trig, id, configs, retries, cf, lost, lostCfg, gone, overtaken>>
  BY <1>1 DEF Told, pool, past
<1>3. counts' \in Counts
  <2>1. counts' = [counts EXCEPT !["updates"] = @ + 1]
    BY <1>1 DEF Told, Count
  <2>2. counts \in Counts
    BY DEF Types, WorkTypes
  <2> QED
    BY <2>1, <2>2
<1>4. updates' \in Seq(Names)
  <2>1. updates \in Seq(Names) /\ [nwk |-> addr[d], name |-> name] \in Names
    BY DEF Types, WorkTypes, PoolTypes
  <2> HIDE DEF Names
  <2> QED
    BY <1>2, <2>1, AppendProperties
<1>5. PoolTypes' /\ OnlyTheMet' /\ NotStranded' /\ AddressesFollow'
  <2>1. dev' \in [Device -> Records]
    BY <1>2 DEF Types, PoolTypes
  <2> QED
    BY <1>2, <2>1, InterviewKept
<1>6. Remembered'
  BY <1>2, WorkKept
<1>7. WorkTypes' /\ iv' \in InIv
  BY <1>2, <1>3, <1>4 DEF Types, WorkTypes
<1> QED
  BY <1>5, <1>6, <1>7 DEF Types

LEMMA ApplyKeeps == IInv /\ Apply => IInv'
<1> SUFFICES ASSUME IInv, Apply PROVE IInv'
  OBVIOUS
<1> USE DEF IInv
<1>1. /\ id.pc = "idle" /\ updates # <<>> /\ updates' = Tail(updates)
      /\ UNCHANGED <<known, addr, rx, joins, iv, trig, configs, retries, cf, counts>>
      /\ UNCHANGED <<lost, lostCfg, gone, overtaken>>
  BY DEF Apply, past
<1>2. dev \in [Device -> Records] /\ known \in SUBSET Device /\ id \in InId
  BY DEF Types, PoolTypes, WorkTypes
<1>3. updates' \in Seq(Names) /\ Head(updates).name \in {"maker", "full"}
  <2>1. updates \in Seq(Names)
    BY DEF Types, WorkTypes
  <2>2. Tail(updates) \in Seq(Names) /\ Head(updates) \in Names
    <3> HIDE DEF Names
    <3> QED
      BY <1>1, <2>1, HeadTailProperties
  <2> QED
    BY <1>1, <2>2
<1>4. CASE UNCHANGED <<dev, id>>
  <2>1. PoolTypes' /\ OnlyTheMet' /\ NotStranded' /\ AddressesFollow'
    BY <1>1, <1>2, <1>4, InterviewKept
  <2>2. Remembered'
    BY <1>1, <1>4, WorkKept
  <2>3. WorkTypes' /\ iv' \in InIv
    BY <1>1, <1>3, <1>4 DEF Types, WorkTypes
  <2> QED
    BY <2>1, <2>2, <2>3 DEF Types
<1>5. ASSUME NEW d \in known, NEW r, r = Applied(dev[d], Head(updates).name), dev' = [dev EXCEPT ![d] = r],
             id' = IF r # dev[d] /\ r.support # "matched" THEN [pc |-> "look", dev |-> d, support |-> r.support] ELSE Idle
      PROVE  IInv'
  <2>1. d \in Device /\ dev[d] \in Records
    BY <1>2
  <2>2. Named(dev[d].name, Head(updates).name) \in {"blank", "maker", "full"}
    BY <1>3, <2>1 DEF Named
  <2>3. /\ r \in Records /\ r.nwk = dev[d].nwk /\ r.support = dev[d].support /\ r.configure = dev[d].configure
        /\ r.tries = dev[d].tries /\ r.interview = IF dev[d].interview = "pending" THEN "ready" ELSE dev[d].interview
    BY <1>5, <2>1, <2>2 DEF Applied
  <2>4. dev' \in [Device -> Records] /\ dev'[d] = r /\ \A x \in Device \ {d} : dev'[x] = dev[x]
    <3> HIDE DEF Records
    <3> QED
      BY <1>2, <1>5, <2>1, <2>3
  <2>5. id' \in InId
    BY <1>5, <2>1, <2>3
  <2>6. PoolTypes' /\ OnlyTheMet' /\ NotStranded' /\ AddressesFollow'
    <3>1. \A x \in known : /\ dev'[x].nwk = dev[x].nwk
                           /\ dev'[x].interview = "none" => dev[x].interview = "none"
                           /\ dev[x].interview = "ready" => dev'[x].interview = "ready"
      BY <1>2, <2>3, <2>4
    <3> QED
      BY <1>1, <2>4, <3>1, InterviewKept
  <2>7. Remembered'
    <3>1. \A x \in known' : dev'[x].interview \in {"pending", "ready"} =>
             /\ x \in known /\ dev[x].interview \in {"pending", "ready"} /\ dev'[x].support = dev[x].support
             /\ dev'[x].configure = dev[x].configure /\ dev'[x].tries = dev[x].tries
      BY <1>1, <1>2, <2>3, <2>4
    <3> QED
      BY <1>1, <3>1, WorkKept
  <2>8. WorkTypes' /\ iv' \in InIv
    BY <1>1, <1>3, <2>5 DEF Types, WorkTypes
  <2> QED
    BY <2>6, <2>7, <2>8 DEF Types
<1> QED
  BY <1>4, <1>5 DEF Apply

LEMMA LookKeeps == IInv /\ Look => IInv'
<1> SUFFICES ASSUME IInv, Look PROVE IInv'
  OBVIOUS
<1> USE DEF IInv
<1>1. /\ id.pc = "look"
      /\ UNCHANGED <<known, dev, addr, rx, joins, iv, trig, updates, configs, retries, cf, counts>>
      /\ UNCHANGED <<lost, lostCfg, gone, overtaken>>
  BY DEF Look, pool, past
<1>2. id.dev \in Device /\ dev \in [Device -> Records]
  BY <1>1, Holders DEF Types, PoolTypes
<1>3. id' \in InId
  <2>1. id' = Idle \/ id' = [pc |-> "write", dev |-> id.dev, support |-> Verdict(id.dev)]
    BY DEF Look
  <2>2. Verdict(id.dev) \in {"matched", "unmatched"}
    BY DEF Verdict
  <2> QED
    BY <1>2, <2>1, <2>2
<1>4. PoolTypes' /\ OnlyTheMet' /\ NotStranded' /\ AddressesFollow'
  BY <1>1, <1>2, InterviewKept
<1>5. Remembered'
  BY <1>1, WorkKept
<1>6. WorkTypes' /\ iv' \in InIv
  BY <1>1, <1>3 DEF Types, WorkTypes
<1> QED
  BY <1>4, <1>5, <1>6 DEF Types

LEMMA WriteVerdictKeeps == IInv /\ WriteVerdict => IInv'
<1> SUFFICES ASSUME IInv, WriteVerdict PROVE IInv'
  OBVIOUS
<1> USE DEF IInv
<1>1. /\ id.pc = "write"
      /\ UNCHANGED <<known, addr, rx, joins, iv, trig, updates, configs, retries, cf, counts>>
      /\ UNCHANGED <<lost, lostCfg, gone, overtaken>>
  BY DEF WriteVerdict, past
<1>2. dev \in [Device -> Records] /\ known \in SUBSET Device
  BY DEF Types, PoolTypes
<1>3. id \in [pc : {"look", "write"}, dev : Device, support : {"unknown", "matched", "unmatched"}]
  <2>1. id \in InId
    BY DEF Types, WorkTypes
  <2> QED
    BY <1>1, <2>1 DEF Idle
<1>4. CASE id.dev \notin known
  <2>1. id' = Idle /\ dev' = dev
    BY <1>4 DEF WriteVerdict
  <2>2. PoolTypes' /\ OnlyTheMet' /\ NotStranded' /\ AddressesFollow'
    BY <1>1, <1>2, <2>1, InterviewKept
  <2>3. Remembered'
    BY <1>1, <2>1, WorkKept
  <2>4. WorkTypes' /\ iv' \in InIv
    BY <1>1, <2>1 DEF Types, WorkTypes
  <2> QED
    BY <2>2, <2>3, <2>4 DEF Types
<1>5. CASE id.dev \in known
  <2> DEFINE again == id.support = "unmatched" \/ dev[id.dev].configure # "done"
             r == Rematched(dev[id.dev], id.support, again)
  <2>1. PICK d \in Device : d = id.dev
    BY <1>3
  <2>0. /\ dev' = [dev EXCEPT ![id.dev] = r]
        /\ id' = IF again /\ id.support = "matched" THEN [pc |-> "enqueue", dev |-> id.dev] ELSE Idle
    BY <1>2, <1>3, <1>5 DEF WriteVerdict
  <2>2. /\ dev' = [dev EXCEPT ![d] = r]
        /\ id' = IF again /\ id.support = "matched" THEN [pc |-> "enqueue", dev |-> d] ELSE Idle
    BY <2>0, <2>1
  <2>3. /\ r \in Records /\ r.nwk = dev[d].nwk /\ r.interview = dev[d].interview
        /\ r.support = "matched" /\ r.configure # "done" => id'.dev = d /\ id'.pc = "enqueue"
    <3>1. dev[d] \in Records
      BY <1>2, <2>1
    <3>2. CASE again /\ id.support = "matched"
      BY <1>3, <2>1, <2>2, <3>1, <3>2 DEF Rematched
    <3>3. CASE again /\ id.support # "matched"
      BY <1>3, <2>1, <2>2, <3>1, <3>3 DEF Rematched
    <3>4. CASE ~again
      BY <1>3, <2>1, <2>2, <3>1, <3>4 DEF Rematched
    <3> QED
      BY <3>2, <3>3, <3>4
  <2>4. id' \in InId
    BY <2>1, <2>2
  <2> HIDE DEF r, again
  <2>5. dev' \in [Device -> Records] /\ dev'[d] = r /\ \A x \in Device \ {d} : dev'[x] = dev[x]
    <3> HIDE DEF Records
    <3> QED
      BY <1>2, <2>2, <2>3
  <2>6. PoolTypes' /\ OnlyTheMet' /\ NotStranded' /\ AddressesFollow'
    <3>1. \A x \in known : /\ dev'[x].nwk = dev[x].nwk
                           /\ dev'[x].interview = "none" => dev[x].interview = "none"
                           /\ dev[x].interview = "ready" => dev'[x].interview = "ready"
      BY <1>2, <2>3, <2>5
    <3> QED
      BY <1>1, <2>5, <3>1, InterviewKept
  <2>7. Remembered'
    <3> SUFFICES ASSUME NEW x \in known', dev'[x].interview \in {"pending", "ready"}
                 PROVE  (Settled(dev[x]) \/ Asked(x) \/ InHand(x))'
      BY DEF Remembered
    <3>1. CASE x = d
      BY <2>3, <2>5, <3>1 DEF InHand, Settled
    <3>2. CASE x # d
      <4>1. x \in Device /\ dev'[x] = dev[x] /\ (Settled(dev[x]) \/ Asked(x) \/ InHand(x))
        BY <1>1, <1>2, <2>5, <3>2 DEF Remembered
      <4> QED
        BY <1>1, <2>1, <3>2, <4>1 DEF Settled, Asked, InHand
    <3> QED
      BY <3>1, <3>2
  <2>8. WorkTypes' /\ iv' \in InIv
    BY <1>1, <2>4 DEF Types, WorkTypes
  <2> QED
    BY <2>6, <2>7, <2>8 DEF Types
<1> QED
  BY <1>4, <1>5

LEMMA IdentityEnqueueKeeps == IInv /\ IdentityEnqueue => IInv'
<1> SUFFICES ASSUME IInv, IdentityEnqueue PROVE IInv'
  OBVIOUS
<1> USE DEF IInv
<1>1. /\ id.pc = "enqueue" /\ EnqueueConfigure(id.dev) /\ id' = Idle
      /\ UNCHANGED <<known, dev, addr, rx, joins, iv, trig, updates, cf, lost, gone, overtaken>>
  BY DEF IdentityEnqueue, pool
<1>2. PICK d \in Device : d = id.dev
  BY <1>1, Holders
<1>3. /\ configs' \in Seq(Device) /\ retries' \in [Device -> Nat] /\ lostCfg' \in SUBSET Device /\ counts' \in Counts
      /\ Asked(d)' /\ \A x \in Device : Asked(x) => Asked(x)'
  BY <1>1, <1>2, Requests
<1>4. PoolTypes' /\ OnlyTheMet' /\ NotStranded' /\ AddressesFollow'
  <2>1. dev' \in [Device -> Records]
    BY <1>1 DEF Types, PoolTypes
  <2> QED
    BY <1>1, <2>1, InterviewKept
<1>5. Remembered'
  <2> SUFFICES ASSUME NEW x \in known', dev'[x].interview \in {"pending", "ready"}
               PROVE  (Settled(dev[x]) \/ Asked(x) \/ InHand(x))'
    BY DEF Remembered
  <2>1. x \in Device /\ (Settled(dev[x]) \/ Asked(x) \/ InHand(x))
    BY <1>1 DEF Remembered, Types, PoolTypes
  <2>2. CASE x = d
    BY <1>3, <2>2
  <2>3. CASE x # d
    BY <1>1, <1>2, <1>3, <2>1, <2>3 DEF Settled, InHand
  <2> QED
    BY <2>2, <2>3
<1>6. WorkTypes' /\ iv' \in InIv
  BY <1>1, <1>3 DEF Types, WorkTypes
<1> QED
  BY <1>4, <1>5, <1>6 DEF Types

-----------------------------------------------------------------------------
\* The configure worker and its timers.
LEMMA RetryFiresKeeps == IInv /\ (\E d \in Device : RetryFires(d)) => IInv'
<1> SUFFICES ASSUME IInv, (\E d \in Device : RetryFires(d)) PROVE IInv'
  OBVIOUS
<1> USE DEF IInv
<1>1. PICK d \in Device : RetryFires(d)
  OBVIOUS
<1>2. /\ retries[d] > 0 /\ retries' = [retries EXCEPT ![d] = @ - 1]
      /\ \/ configs' = Append(configs, d) /\ UNCHANGED lostCfg
         \/ configs' = configs /\ lostCfg' = lostCfg \cup {d}
      /\ UNCHANGED <<known, dev, addr, rx, joins, iv, trig, updates, id, cf, counts, lost, gone, overtaken>>
  BY <1>1 DEF RetryFires, pool
<1>3. configs \in Seq(Device) /\ retries \in [Device -> Nat] /\ lostCfg \in SUBSET Device
  BY DEF Types, WorkTypes
<1>4. retries' \in [Device -> Nat] /\ \A x \in Device \ {d} : retries'[x] = retries[x]
  <2>1. retries[d] - 1 \in Nat
    BY <1>2, <1>3
  <2> QED
    BY <1>2, <1>3, <2>1
<1>5. /\ configs' \in Seq(Device) /\ lostCfg' \in SUBSET Device /\ Asked(d)'
      /\ \A x \in Device : Asked(x) => Asked(x)'
  <2>1. CASE configs' = Append(configs, d) /\ UNCHANGED lostCfg
    <3>1. /\ configs' \in Seq(Device) /\ Len(configs') = Len(configs) + 1 /\ configs'[Len(configs) + 1] = d
          /\ Len(configs) \in Nat /\ \A i \in 1..Len(configs) : configs'[i] = configs[i]
      BY <1>3, <2>1, AppendProperties
    <3>2. Len(configs) + 1 \in 1..Len(configs') /\ 1..Len(configs) \subseteq 1..Len(configs')
      BY <3>1
    <3>3. Asked(d)'
      BY <3>1, <3>2 DEF Asked
    <3>4. ASSUME NEW x \in Device, x # d, Asked(x) PROVE Asked(x)'
      <4>1. CASE \E i \in 1..Len(configs) : configs[i] = x
        BY <3>1, <3>2, <4>1 DEF Asked
      <4>2. CASE retries[x] > 0 \/ x \in lostCfg
        BY <1>4, <2>1, <3>4, <4>2 DEF Asked
      <4> QED
        BY <3>4, <4>1, <4>2 DEF Asked
    <3> QED
      BY <1>3, <2>1, <3>1, <3>3, <3>4
  <2>2. CASE configs' = configs /\ lostCfg' = lostCfg \cup {d}
    BY <1>3, <1>4, <2>2 DEF Asked
  <2> QED
    BY <1>2, <2>1, <2>2
<1>6. PoolTypes' /\ OnlyTheMet' /\ NotStranded' /\ AddressesFollow'
  <2>1. dev' \in [Device -> Records]
    BY <1>2 DEF Types, PoolTypes
  <2> QED
    BY <1>2, <2>1, InterviewKept
<1>7. Remembered'
  <2> SUFFICES ASSUME NEW x \in known', dev'[x].interview \in {"pending", "ready"}
               PROVE  (Settled(dev[x]) \/ Asked(x) \/ InHand(x))'
    BY DEF Remembered
  <2>1. x \in Device /\ (Settled(dev[x]) \/ Asked(x) \/ InHand(x))
    BY <1>2 DEF Remembered, Types, PoolTypes
  <2> QED
    BY <1>2, <1>5, <2>1 DEF Settled, InHand
<1>8. WorkTypes' /\ iv' \in InIv
  BY <1>2, <1>4, <1>5 DEF Types, WorkTypes
<1> QED
  BY <1>6, <1>7, <1>8 DEF Types

LEMMA TakeKeeps == IInv /\ Take => IInv'
<1> SUFFICES ASSUME IInv, Take PROVE IInv'
  OBVIOUS
<1> USE DEF IInv
<1> DEFINE d == Head(configs)
<1>1. /\ cf.pc = "idle" /\ configs # <<>> /\ configs' = Tail(configs)
      /\ cf' = IF d \notin known \/ dev[d].configure = "done" \/ dev[d].support # "matched" THEN Idle
               ELSE [pc |-> IF HasDef(d, dev[d].name) THEN "mark" ELSE "downgrade", dev |-> d, tries |-> dev[d].tries]
      /\ UNCHANGED <<known, dev, addr, rx, joins, iv, trig, updates, id, retries, counts, lost, lostCfg, gone, overtaken>>
  BY DEF Take, pool, past
<1>2. dev \in [Device -> Records] /\ known \in SUBSET Device /\ configs \in Seq(Device) /\ cf \in InCf
  BY DEF Types, PoolTypes, WorkTypes
<1>3. /\ d \in Device /\ configs' \in Seq(Device) /\ Len(configs) = Len(configs') + 1 /\ Len(configs') \in Nat
      /\ d = configs[1] /\ \A i \in 1..Len(configs') : configs'[i] = configs[i + 1]
  BY <1>1, <1>2, HeadTailProperties
<1>4. cf' \in InCf
  <2>1. cf' = Idle \/ \E pc \in {"mark", "downgrade"} : cf' = [pc |-> pc, dev |-> d, tries |-> dev[d].tries]
    BY <1>1
  <2>2. dev[d].tries \in Nat
    BY <1>2, <1>3
  <2> QED
    BY <1>3, <2>1, <2>2
<1>5. cf.dev \notin Device
  <2>1. cf = Idle
    BY <1>1, <1>2
  <2> QED
    BY <2>1 DEF Idle, LifecycleConstants
<1>6. ASSUME NEW x \in Device, x # d, Asked(x) PROVE Asked(x)'
  <2>1. CASE \E i \in 1..Len(configs) : configs[i] = x
    <3>1. PICK i \in 1..Len(configs) : configs[i] = x
      BY <2>1
    <3>2. i # 1
      BY <1>3, <1>6, <3>1
    <3>3. i - 1 \in 1..Len(configs') /\ i = (i - 1) + 1
      BY <1>3, <3>1, <3>2
    <3>4. configs'[i - 1] = x
      BY <1>3, <3>1, <3>3
    <3> QED
      BY <3>3, <3>4 DEF Asked
  <2>2. CASE retries[x] > 0 \/ x \in lostCfg
    BY <1>1, <2>2 DEF Asked
  <2> QED
    BY <1>6, <2>1, <2>2 DEF Asked
<1>7. PoolTypes' /\ OnlyTheMet' /\ NotStranded' /\ AddressesFollow'
  BY <1>1, <1>2, InterviewKept
<1>8. Remembered'
  <2> SUFFICES ASSUME NEW x \in known', dev'[x].interview \in {"pending", "ready"}
               PROVE  (Settled(dev[x]) \/ Asked(x) \/ InHand(x))'
    BY DEF Remembered
  <2>1. x \in known /\ x \in Device /\ (Settled(dev[x]) \/ Asked(x) \/ InHand(x))
    BY <1>1, <1>2 DEF Remembered
  <2>2. CASE x = d
    <3>1. Settled(dev[x]) \/ cf'.dev = x
      BY <1>1, <2>1, <2>2 DEF Settled
    <3> QED
      BY <1>1, <3>1 DEF Settled, InHand
  <2>3. CASE x # d
    BY <1>1, <1>5, <1>6, <2>1, <2>3 DEF Settled, InHand
  <2> QED
    BY <2>2, <2>3
<1>9. WorkTypes' /\ iv' \in InIv
  BY <1>1, <1>3, <1>4 DEF Types, WorkTypes
<1> QED
  BY <1>7, <1>8, <1>9 DEF Types

LEMMA DowngradeKeeps == IInv /\ Downgrade => IInv'
<1> SUFFICES ASSUME IInv, Downgrade PROVE IInv'
  OBVIOUS
<1> USE DEF IInv
<1>1. /\ cf.pc = "downgrade" /\ cf' = Idle
      /\ UNCHANGED <<known, addr, rx, joins, iv, trig, updates, id, configs, retries, counts, lostCfg>>
      /\ UNCHANGED <<lost, gone, overtaken>>
  BY DEF Downgrade, pool, past
<1>2. dev \in [Device -> Records] /\ known \in SUBSET Device
  BY DEF Types, PoolTypes
<1>3. PICK d \in Device : d = cf.dev
  BY <1>1, Holders
<1>4. /\ dev' \in [Device -> Records] /\ \A x \in Device \ {d} : dev'[x] = dev[x]
      /\ d \in known => dev'[d].support = "unmatched" /\ dev'[d].nwk = dev[d].nwk /\ dev'[d].interview = dev[d].interview
  <2>1. CASE d \notin known
    <3>1. dev' = dev
      BY <1>3, <2>1 DEF Downgrade
    <3> QED
      BY <1>2, <2>1, <3>1
  <2>2. CASE d \in known
    <3> DEFINE r == [dev[d] EXCEPT !.support = "unmatched", !.configure = "pending"]
    <3>1. dev' = [dev EXCEPT ![d] = r]
      BY <1>2, <1>3, <2>2 DEF Downgrade
    <3>2. r \in Records /\ r.support = "unmatched" /\ r.nwk = dev[d].nwk /\ r.interview = dev[d].interview
      <4>1. dev[d] \in Records
        BY <1>2
      <4> QED
        BY <4>1
    <3> HIDE DEF r, Records
    <3> QED
      BY <1>2, <3>1, <3>2
  <2> QED
    BY <2>1, <2>2
<1>5. PoolTypes' /\ OnlyTheMet' /\ NotStranded' /\ AddressesFollow'
  <2>1. \A x \in known : /\ dev'[x].nwk = dev[x].nwk
                         /\ dev'[x].interview = "none" => dev[x].interview = "none"
                         /\ dev[x].interview = "ready" => dev'[x].interview = "ready"
    BY <1>2, <1>4
  <2> QED
    BY <1>1, <1>4, <2>1, InterviewKept
<1>6. Remembered'
  <2> SUFFICES ASSUME NEW x \in known', dev'[x].interview \in {"pending", "ready"}
               PROVE  (Settled(dev[x]) \/ Asked(x) \/ InHand(x))'
    BY DEF Remembered
  <2>1. CASE x = d
    BY <1>1, <1>4, <2>1 DEF Settled
  <2>2. CASE x # d
    <3>1. x \in Device /\ dev'[x] = dev[x] /\ (Settled(dev[x]) \/ Asked(x) \/ InHand(x))
      BY <1>1, <1>2, <1>4, <2>2 DEF Remembered
    <3> QED
      BY <1>1, <1>3, <2>2, <3>1 DEF Settled, Asked, InHand
  <2> QED
    BY <2>1, <2>2
<1>7. WorkTypes' /\ iv' \in InIv
  BY <1>1 DEF Types, WorkTypes
<1> QED
  BY <1>5, <1>6, <1>7 DEF Types

LEMMA MarkKeeps == IInv /\ Mark => IInv'
<1> SUFFICES ASSUME IInv, Mark PROVE IInv'
  OBVIOUS
<1> USE DEF IInv
<1>1. /\ cf.pc = "mark" /\ cf' = [cf EXCEPT !.pc = "run"]
      /\ UNCHANGED <<known, addr, rx, joins, iv, trig, updates, id, configs, retries, counts, lostCfg>>
      /\ UNCHANGED <<lost, gone, overtaken>>
  BY DEF Mark, pool, past
<1>2. dev \in [Device -> Records] /\ known \in SUBSET Device
  BY DEF Types, PoolTypes
<1>3. cf \in [pc : {"mark", "downgrade", "run", "retry"}, dev : Device, tries : Nat]
  <2>1. cf \in InCf
    BY DEF Types, WorkTypes
  <2> QED
    BY <1>1, <2>1 DEF Idle
<1>4. PICK d \in Device : d = cf.dev
  BY <1>3
<1>5. cf' \in InCf /\ cf'.dev = d
  BY <1>1, <1>3, <1>4
<1>6. /\ dev' \in [Device -> Records] /\ \A x \in Device \ {d} : dev'[x] = dev[x]
      /\ d \in known => dev'[d].nwk = dev[d].nwk /\ dev'[d].interview = dev[d].interview
  <2>1. CASE d \notin known
    <3>1. dev' = dev
      BY <1>4, <2>1 DEF Mark
    <3> QED
      BY <1>2, <2>1, <3>1
  <2>2. CASE d \in known
    <3> DEFINE r == [dev[d] EXCEPT !.configure = "progress"]
    <3>1. dev' = [dev EXCEPT ![d] = r]
      BY <1>2, <1>4, <2>2 DEF Mark
    <3>2. r \in Records /\ r.nwk = dev[d].nwk /\ r.interview = dev[d].interview
      <4>1. dev[d] \in Records
        BY <1>2
      <4> QED
        BY <4>1
    <3> HIDE DEF r, Records
    <3> QED
      BY <1>2, <3>1, <3>2
  <2> QED
    BY <2>1, <2>2
<1>7. PoolTypes' /\ OnlyTheMet' /\ NotStranded' /\ AddressesFollow'
  <2>1. \A x \in known : /\ dev'[x].nwk = dev[x].nwk
                         /\ dev'[x].interview = "none" => dev[x].interview = "none"
                         /\ dev[x].interview = "ready" => dev'[x].interview = "ready"
    BY <1>2, <1>6
  <2> QED
    BY <1>1, <1>6, <2>1, InterviewKept
<1>8. Remembered'
  <2> SUFFICES ASSUME NEW x \in known', dev'[x].interview \in {"pending", "ready"}
               PROVE  (Settled(dev[x]) \/ Asked(x) \/ InHand(x))'
    BY DEF Remembered
  <2>1. CASE x = d
    BY <1>5, <2>1 DEF InHand
  <2>2. CASE x # d
    <3>1. x \in Device /\ dev'[x] = dev[x] /\ (Settled(dev[x]) \/ Asked(x) \/ InHand(x))
      BY <1>1, <1>2, <1>6, <2>2 DEF Remembered
    <3> QED
      BY <1>1, <1>4, <1>5, <2>2, <3>1 DEF Settled, Asked, InHand
  <2> QED
    BY <2>1, <2>2
<1>9. WorkTypes' /\ iv' \in InIv
  BY <1>1, <1>5 DEF Types, WorkTypes
<1> QED
  BY <1>7, <1>8, <1>9 DEF Types

LEMMA FinishKeeps == IInv /\ (\E ok \in BOOLEAN : Finish(ok)) => IInv'
<1> SUFFICES ASSUME IInv, (\E ok \in BOOLEAN : Finish(ok)) PROVE IInv'
  OBVIOUS
<1> USE DEF IInv
<1>0. PICK ok \in BOOLEAN : Finish(ok)
  OBVIOUS
<1> DEFINE tries == IF ok THEN 0 ELSE cf.tries + 1
<1>1. /\ cf.pc = "run"
      /\ dev' = IF cf.dev \in known
                THEN [dev EXCEPT ![cf.dev].configure = IF ok THEN "done" ELSE "failed", ![cf.dev].tries = tries] ELSE dev
      /\ cf' = IF ok \/ GivesUp(tries) THEN Idle ELSE [pc |-> "retry", dev |-> cf.dev, tries |-> tries]
      /\ UNCHANGED <<known, addr, rx, joins, iv, trig, updates, id, configs, retries, counts>>
      /\ UNCHANGED <<lost, lostCfg, gone, overtaken>>
  BY <1>0 DEF Finish, past
<1>2. dev \in [Device -> Records] /\ known \in SUBSET Device
  BY DEF Types, PoolTypes
<1>3. cf \in [pc : {"mark", "downgrade", "run", "retry"}, dev : Device, tries : Nat]
  <2>1. cf \in InCf
    BY DEF Types, WorkTypes
  <2> QED
    BY <1>1, <2>1 DEF Idle
<1>4. PICK d \in Device : d = cf.dev
  BY <1>3
<1>5. tries \in Nat
  BY <1>3
<1> HIDE DEF tries
<1>6. cf' \in InCf
  BY <1>1, <1>3, <1>5
<1>7. /\ dev' \in [Device -> Records] /\ \A x \in Device \ {d} : dev'[x] = dev[x]
      /\ d \in known => /\ dev'[d].nwk = dev[d].nwk /\ dev'[d].interview = dev[d].interview
                        /\ dev'[d].tries = tries /\ dev'[d].configure = IF ok THEN "done" ELSE "failed"
  <2>1. CASE d \notin known
    <3>1. dev' = dev
      BY <1>1, <1>4, <2>1
    <3> QED
      BY <1>2, <2>1, <3>1
  <2>2. CASE d \in known
    <3> DEFINE r == [dev[d] EXCEPT !.configure = IF ok THEN "done" ELSE "failed", !.tries = tries]
    <3>1. dev' = [dev EXCEPT ![d] = r]
      BY <1>1, <1>2, <1>4, <2>2
    <3>2. /\ r \in Records /\ r.nwk = dev[d].nwk /\ r.interview = dev[d].interview
          /\ r.tries = tries /\ r.configure = IF ok THEN "done" ELSE "failed"
      <4>1. dev[d] \in Records
        BY <1>2
      <4> QED
        BY <1>5, <4>1
    <3> HIDE DEF r, Records
    <3> QED
      BY <1>2, <3>1, <3>2
  <2> QED
    BY <2>1, <2>2
<1>8. PoolTypes' /\ OnlyTheMet' /\ NotStranded' /\ AddressesFollow'
  <2>1. \A x \in known : /\ dev'[x].nwk = dev[x].nwk
                         /\ dev'[x].interview = "none" => dev[x].interview = "none"
                         /\ dev[x].interview = "ready" => dev'[x].interview = "ready"
    BY <1>2, <1>7
  <2> QED
    BY <1>1, <1>7, <2>1, InterviewKept
<1>9. Remembered'
  <2> SUFFICES ASSUME NEW x \in known', dev'[x].interview \in {"pending", "ready"}
               PROVE  (Settled(dev[x]) \/ Asked(x) \/ InHand(x))'
    BY DEF Remembered
  <2>1. CASE x = d
    <3>1. CASE ok \/ GivesUp(tries)
      BY <1>1, <1>7, <2>1, <3>1 DEF Settled, GivesUp
    <3>2. CASE ~(ok \/ GivesUp(tries))
      <4>1. cf'.dev = d
        BY <1>1, <1>4, <3>2
      <4> QED
        BY <2>1, <4>1 DEF InHand
    <3> QED
      BY <3>1, <3>2
  <2>2. CASE x # d
    <3>1. x \in Device /\ dev'[x] = dev[x] /\ (Settled(dev[x]) \/ Asked(x) \/ InHand(x))
      BY <1>1, <1>2, <1>7, <2>2 DEF Remembered
    <3> QED
      BY <1>1, <1>4, <2>2, <3>1 DEF Settled, Asked, InHand
  <2> QED
    BY <2>1, <2>2
<1>10. WorkTypes' /\ iv' \in InIv
  BY <1>1, <1>6 DEF Types, WorkTypes
<1> QED
  BY <1>8, <1>9, <1>10 DEF Types

LEMMA RetryKeeps == IInv /\ Retry => IInv'
<1> SUFFICES ASSUME IInv, Retry PROVE IInv'
  OBVIOUS
<1> USE DEF IInv
<1>1. /\ cf.pc = "retry" /\ ScheduleRetry(cf.dev) /\ cf' = Idle
      /\ UNCHANGED <<known, dev, addr, rx, joins, iv, trig, updates, id, lost, gone, overtaken>>
  BY DEF Retry, pool
<1>2. PICK d \in Device : d = cf.dev
  BY <1>1, Holders
<1>3. /\ configs' \in Seq(Device) /\ retries' \in [Device -> Nat] /\ lostCfg' \in SUBSET Device /\ counts' \in Counts
      /\ Asked(d)' /\ \A x \in Device : Asked(x) => Asked(x)'
  BY <1>1, <1>2, Requests
<1>4. PoolTypes' /\ OnlyTheMet' /\ NotStranded' /\ AddressesFollow'
  <2>1. dev' \in [Device -> Records]
    BY <1>1 DEF Types, PoolTypes
  <2> QED
    BY <1>1, <2>1, InterviewKept
<1>5. Remembered'
  <2> SUFFICES ASSUME NEW x \in known', dev'[x].interview \in {"pending", "ready"}
               PROVE  (Settled(dev[x]) \/ Asked(x) \/ InHand(x))'
    BY DEF Remembered
  <2>1. x \in Device /\ (Settled(dev[x]) \/ Asked(x) \/ InHand(x))
    BY <1>1 DEF Remembered, Types, PoolTypes
  <2>2. CASE x = d
    BY <1>3, <2>2
  <2>3. CASE x # d
    BY <1>1, <1>2, <1>3, <2>1, <2>3 DEF Settled, InHand
  <2> QED
    BY <2>2, <2>3
<1>6. WorkTypes' /\ iv' \in InIv
  BY <1>1, <1>3 DEF Types, WorkTypes
<1> QED
  BY <1>4, <1>5, <1>6 DEF Types

-----------------------------------------------------------------------------
\* The theorems.
LEMMA InitKeeps == Init => IInv
<1> SUFFICES ASSUME Init PROVE IInv
  OBVIOUS
<1>1. Fresh \in Records
  BY DEF Fresh
<1>2. Types
  <2>1. /\ known = {} /\ dev = [d \in Device |-> Fresh] /\ addr = [d \in Device |-> 0]
        /\ rx = Idle /\ joins = <<>> /\ iv = Idle /\ trig = Idle
        /\ updates = <<>> /\ id = Idle
        /\ configs = <<>> /\ retries = [d \in Device |-> 0] /\ cf = Idle
        /\ counts = [announces |-> 0, updates |-> 0, upsets |-> 0]
        /\ lost = {} /\ lostCfg = {} /\ gone = {} /\ overtaken = {}
    BY DEF Init
  <2>2. counts \in Counts
    BY <2>1
  <2>3. rx \in InRx /\ trig \in InTrig /\ iv \in InIv /\ id \in InId /\ cf \in InCf
    BY <2>1
  <2>4. dev \in [Device -> Records]
    <3> HIDE DEF Records
    <3> QED
      BY <1>1, <2>1
  <2>5. joins \in Seq(Events) /\ updates \in Seq(Names) /\ configs \in Seq(Device)
    BY <2>1
  <2>6. addr \in [Device -> Nat] /\ retries \in [Device -> Nat]
    BY <2>1
  <2> HIDE DEF Records, Events, Names, InRx, InTrig, InIv, InId, InCf, Counts
  <2> QED
    BY <2>1, <2>2, <2>3, <2>4, <2>5, <2>6 DEF Types, PoolTypes, WorkTypes
<1>3. OnlyTheMet
  BY DEF Init, OnlyTheMet, Met, Idle
<1>4. NotStranded /\ Remembered /\ AddressesFollow
  BY DEF Init, NotStranded, Remembered, AddressesFollow
<1> QED
  BY <1>2, <1>3, <1>4 DEF IInv

LEMMA NextKeeps == IInv /\ [Next]_vars => IInv'
<1> SUFFICES ASSUME IInv, [Next]_vars PROVE IInv'
  OBVIOUS
<1>1. CASE \E d \in Device : \/ \E n \in 1..MaxAddress : Announced(d, n)
                             \/ HardRemove(d) \/ Heard(d) \/ Requested(d) \/ RetryFires(d)
                             \/ \E name \in {"maker", "full"} : Told(d, name)
  <2>1. PICK d \in Device : \/ \E n \in 1..MaxAddress : Announced(d, n)
                            \/ HardRemove(d) \/ Heard(d) \/ Requested(d) \/ RetryFires(d)
                            \/ \E name \in {"maker", "full"} : Told(d, name)
    BY <1>1
  <2> QED
    BY <2>1, AnnouncedKeeps, HardRemoveKeeps, HeardKeeps, RequestedKeeps, RetryFiresKeeps, ToldKeeps
<1>2. CASE QueueJoin \/ DropOldest \/ QueueAgain \/ FlushJoins \/ TriggerRead \/ TriggerSend
  BY <1>2, QueueJoinKeeps, DropOldestKeeps, QueueAgainKeeps, FlushJoinsKeeps, TriggerReadKeeps, TriggerSendKeeps
<1>3. CASE Receive \/ ReadNwk \/ Begin \/ Ask \/ Commit \/ InterviewEnqueue \/ AttemptFailed \/ Wake
  BY <1>3, ReceiveKeeps, ReadNwkKeeps, BeginKeeps, AskKeeps, CommitKeeps, InterviewEnqueueKeeps, AttemptFailedKeeps,
     WakeKeeps
<1>4. CASE Apply \/ Look \/ WriteVerdict \/ IdentityEnqueue
  BY <1>4, ApplyKeeps, LookKeeps, WriteVerdictKeeps, IdentityEnqueueKeeps
<1>5. CASE Take \/ Downgrade \/ Mark \/ (\E ok \in BOOLEAN : Finish(ok)) \/ Retry
  BY <1>5, TakeKeeps, DowngradeKeeps, MarkKeeps, FinishKeeps, RetryKeeps
<1>6. CASE UNCHANGED vars
  <2>1. UNCHANGED <<known, dev, addr, rx, joins, iv, trig, updates, id, configs, retries, cf, counts>>
        /\ UNCHANGED <<lost, lostCfg, gone, overtaken>>
    BY <1>6 DEF vars, pool, tasks, past
  <2>2. dev \in [Device -> Records]
    BY DEF IInv, Types, PoolTypes
  <2>3. PoolTypes' /\ OnlyTheMet' /\ NotStranded' /\ AddressesFollow'
    BY <2>1, <2>2, InterviewKept
  <2>4. Remembered'
    BY <2>1, WorkKept
  <2>5. WorkTypes' /\ iv' \in InIv
    BY <2>1 DEF IInv, Types, WorkTypes
  <2> QED
    BY <2>3, <2>4, <2>5 DEF IInv, Types
<1> QED
  BY <1>1, <1>2, <1>3, <1>4, <1>5, <1>6 DEF Next

\* The inductive invariant of the life of a device holds in every state the four tasks, the timers and the users
\* reach together.
THEOREM Inductive == Spec => []IInv
<1> QED
  BY InitKeeps, NextKeeps, PTL DEF Spec

\* No device is forgotten: one that was announced and not interviewed has its join event in the queue or in a task's
\* hands (zigbee_interview.cpp), and one that is matched and not configured has a request in the queue, a timer or a
\* task that is about to ask (zigbee_configure.cpp), unless a full queue dropped it.
THEOREM NothingIsDropped == Spec => []NothingDropped
<1>1. IInv => NothingDropped
  <2> SUFFICES ASSUME IInv PROVE NothingDropped
    OBVIOUS
  <2>1. DOMAIN configs = 1..Len(configs)
    BY DEF IInv, Types, WorkTypes
  <2>2. ConfigureNotForgotten
    <3> SUFFICES ASSUME NEW d \in known, dev[d].interview = "ready", ~Settled(dev[d])
                 PROVE  \/ retries[d] > 0 \/ (\E i \in DOMAIN configs : configs[i] = d) \/ d \in lostCfg
                        \/ cf.dev = d \/ (iv.dev = d /\ iv.pc = "enqueue") \/ (id.dev = d /\ id.pc = "enqueue")
      BY DEF ConfigureNotForgotten, Settled
    <3>1. Asked(d) \/ InHand(d)
      BY DEF IInv, Remembered
    <3> QED
      BY <2>1, <3>1 DEF Asked, InHand
  <2> QED
    BY <2>2 DEF IInv, NothingDropped
<1> QED
  BY <1>1, Inductive, PTL

\* The pool has the address a device announced last, or the event that brings it is still to be served: whatever the
\* tasks hold and queue meanwhile, none moves a device back to an address it has left, but for a task that read that
\* address before the device took another one (overtaken).
THEOREM AddressesStayFresh == Spec => []AddressFresh
<1>1. IInv => AddressFresh
  <2> SUFFICES ASSUME IInv, NEW d \in known \ gone, d \notin lost, d \notin overtaken
               PROVE  dev[d].nwk = addr[d] \/ rx.dev = d \/ \E i \in DOMAIN joins : joins[i] = Join(d, addr[d])
    BY DEF AddressFresh
  <2>1. DOMAIN joins = 1..Len(joins)
    BY DEF IInv, Types, PoolTypes
  <2>2. dev[d].nwk = addr[d] \/ rx.dev = d \/ Behind(joins, d, addr[d], 0)
    BY DEF IInv, AddressesFollow, Followed
  <2> QED
    BY <2>1, <2>2 DEF Behind
<1> QED
  BY <1>1, Inductive, PTL

=============================================================================
