------------------------- MODULE ShadowFlashProofs -------------------------
(***************************************************************************)
(* Theorems about ShadowFlash, for any devices, values, settings and tasks *)
(* of the API.                                                             *)
(***************************************************************************)
EXTENDS ShadowFlash, FiniteSetTheorems, SequenceTheorems, TLAPS

\* The types of the variables.
Entries == [val : Val, held : BOOLEAN, dirty : BOOLEAN, force : BOOLEAN, crc : Val \cup {NoKey},
            cfg : Cfg, cfgCrc : Cfg \cup {NoKey}]
Jobs    == {Idle} \cup [do : {"attrs", "retry"}, dev : Device, blob : Val]
                  \cup [do : {"config", "book"}, dev : Device, blob : Cfg]
                  \cup [do : {"clear", "forget", "forgetConfig"}, dev : Device]
Places  == [sweep : Nat, flush : Nat]

SetTypes ==
    /\ pool \in SUBSET Device /\ bridged \in SUBSET Device /\ leaving \in SUBSET Device
    /\ unmarked \in SUBSET Device /\ cut \in SUBSET Device /\ unsure \in SUBSET Device /\ owed \in SUBSET Device

Types ==
    /\ SetTypes
    /\ table \in Seq(Device) /\ IsInjective(table)
    /\ entry \in [Device -> Entries]
    /\ attrKey \in [Device -> Val \cup {NoKey}] /\ cfgKey \in [Device -> Cfg \cup {NoKey}]
    /\ job \in [Writer -> Jobs] /\ pos \in Places

\* One writer at a time, who deals with an entry, but for one who erases the keys of a removed one.
OneWriter == \A w, x \in Writer : job[w] # Idle /\ job[x] # Idle => w = x

Erases(w) == job[w].do \in {"forget", "forgetConfig"}

Writers ==
    \A w \in Writer : /\ job[w] # Idle => job[w].dev \in Known \/ Erases(w)
                      /\ Erases(w) => w \in Task

\* A writer is at one of these steps for device d.
Doing(d, steps) == \E w \in Writer : job[w] # Idle /\ job[w].dev = d /\ job[w].do \in steps

\* Device d without an entry: the cache has a fresh one for it, flash has nothing, or a writer who erases it.
Absent(d) ==
    /\ entry[d] = Fresh
    /\ d \notin cut => /\ attrKey[d] = NoKey \/ Doing(d, {"forget"})
                       /\ cfgKey[d] = NoKey \/ Doing(d, {"forget", "forgetConfig"})

\* The CRC booked is that of the key, unless a writer is about to write it or found that it could not.
Booked(d) ==
    /\ entry[d].crc # NoKey => attrKey[d] = entry[d].crc \/ Doing(d, {"attrs", "retry"})
    /\ entry[d].cfgCrc # NoKey => cfgKey[d] = entry[d].cfgCrc \/ Doing(d, {"config", "book"}) \/ d \in unsure

\* A clean entry is on flash, or a writer of it is at work.
Clean(d) ==
    d \in cut \cup unmarked \/ entry[d].dirty \/ entry[d].val = LoadedVal(d)
    \/ Doing(d, {"attrs", "retry", "clear", "forget"})

\* Settings are on flash, or a writer will have them there.
InForce(d) == d \in cut \cup unsure \/ entry[d].cfg = LoadedCfg(d) \/ Doing(d, {"config", "forget", "forgetConfig"})

Sound(d) ==
    /\ d \notin Known => Absent(d)
    /\ Booked(d)
    /\ d \in Known => Clean(d) /\ InForce(d)

\* What a writer has for a device is what the cache booked or emptied.
InWrite(w) ==
    LET d == job[w].dev
    IN  /\ job[w].do = "attrs" =>
              entry[d].crc = job[w].blob /\ (entry[d].dirty \/ d \in unmarked \/ entry[d].val = job[w].blob)
        /\ job[w].do = "config" => entry[d].cfg = job[w].blob
        /\ job[w].do = "book" => entry[d].cfg = job[w].blob /\ cfgKey[d] = job[w].blob /\ d \notin unsure
        /\ job[w].do \in {"clear", "forget", "forgetConfig"} =>
              entry[d].crc = NoKey /\ (entry[d].dirty \/ d \in unmarked \/ entry[d].val = Empty)
        /\ Erases(w) => entry[d].cfg = Default /\ entry[d].cfgCrc = NoKey

\* What flush_now owes is before it in the table, and marked or being written.
Ahead(d) == \E i \in 1..Len(table) : pos.flush <= i /\ table[i] = d

Owing ==
    /\ \A d \in owed : Ahead(d) /\ (entry[d].dirty \/ Doing(d, {"attrs", "retry"}))
    /\ job["flush"].do \in {"attrs", "retry"} => pos.flush \in 1..Len(table) /\ table[pos.flush] = job["flush"].dev

IInv ==
    /\ Types /\ OneWriter /\ Writers
    /\ \A d \in Device : Sound(d)
    /\ \A w \in Writer : job[w] # Idle => InWrite(w)
    /\ Owing
-----------------------------------------------------------------------------
\* The table.

USE ShadowConstants

LEMMA TableAppended ==
    ASSUME NEW s \in Seq(Device), IsInjective(s), NEW d \in Device, d \notin ToSet(s)
    PROVE  /\ Append(s, d) \in Seq(Device) /\ IsInjective(Append(s, d)) /\ ToSet(Append(s, d)) = ToSet(s) \cup {d}
           /\ Len(Append(s, d)) = Len(s) + 1 /\ \A i \in 1..Len(s) : Append(s, d)[i] = s[i]
<1> DEFINE t == Append(s, d)
<1>1. /\ t \in Seq(Device) /\ Len(t) = Len(s) + 1 /\ t[Len(s) + 1] = d /\ Len(s) \in Nat
      /\ \A i \in 1..Len(s) : t[i] = s[i]
  BY AppendProperties
<1>2. DOMAIN t = 1..Len(t) /\ DOMAIN s = 1..Len(s)
  BY <1>1
<1> HIDE DEF t
<1>3. IsInjective(t)
  <2> SUFFICES ASSUME NEW i \in 1..Len(t), NEW j \in 1..Len(t), t[i] = t[j] PROVE i = j
    BY <1>2 DEF IsInjective
  <2>1. \A k \in 1..Len(s) : s[k] # d
    BY <1>2 DEF ToSet
  <2>2. CASE i \in 1..Len(s) /\ j \in 1..Len(s)
    BY <1>1, <1>2, <2>2 DEF IsInjective
  <2>3. CASE i \notin 1..Len(s) \/ j \notin 1..Len(s)
    BY <1>1, <2>1, <2>3
  <2> QED
    BY <2>2, <2>3
<1>4. ToSet(t) = ToSet(s) \cup {d}
  <2>1. Len(s) + 1 \in 1..Len(t) /\ 1..Len(s) \subseteq 1..Len(t)
    BY <1>1
  <2>2. ASSUME NEW x \in ToSet(t) PROVE x \in ToSet(s) \cup {d}
    <3>1. PICK i \in 1..Len(t) : x = t[i]
      BY <1>2 DEF ToSet
    <3>2. CASE i \in 1..Len(s)
      BY <1>1, <1>2, <3>1, <3>2 DEF ToSet
    <3>3. CASE i \notin 1..Len(s)
      BY <1>1, <3>1, <3>3
    <3> QED
      BY <3>2, <3>3
  <2>3. ASSUME NEW x \in ToSet(s) PROVE x \in ToSet(t)
    <3>1. PICK i \in 1..Len(s) : x = s[i]
      BY <1>2 DEF ToSet
    <3> QED
      BY <1>1, <1>2, <2>1, <3>1 DEF ToSet
  <2>4. d \in ToSet(t)
    BY <1>1, <1>2, <2>1 DEF ToSet
  <2> QED
    BY <2>2, <2>3, <2>4
<1> QED
  BY <1>1, <1>3, <1>4 DEF t

LEMMA TableShifted ==
    ASSUME table \in Seq(Device), IsInjective(table), NEW d \in Known
    PROVE  /\ Shifted(d) \in Seq(Device) /\ IsInjective(Shifted(d)) /\ ToSet(Shifted(d)) = Known \ {d}
           /\ \A x \in Device, n \in Nat :
                 (\E i \in 1..Len(table) : n <= i /\ table[i] = x) /\ x # d
                 /\ ~(\E k \in 1..(Len(table) - 1) : table[k] = d /\ k < n /\ x = Last(table))
                 => \E i \in 1..Len(Shifted(d)) : n <= i /\ Shifted(d)[i] = x
<1> DEFINE N == Len(table)
           t == Shifted(d)
<1>1. N \in Nat /\ DOMAIN table = 1..N /\ \A i \in 1..N : table[i] \in Device
  OBVIOUS
<1>2. PICK k \in 1..N : table[k] = d
  BY <1>1 DEF Known, ToSet
<1>3. N - 1 \in Nat /\ N \in 1..N /\ Last(table) = table[N]
  BY <1>1, <1>2 DEF Last
<1>4. \A i \in 1..(N - 1) : t[i] = IF i = k THEN table[N] ELSE table[i]
  BY <1>1, <1>2, <1>3 DEF Shifted, IsInjective
<1>5. t \in Seq(Device) /\ Len(t) = N - 1 /\ DOMAIN t = 1..(N - 1)
  <2>1. t = [i \in 1..(N - 1) |-> IF table[i] = d THEN table[N] ELSE table[i]]
    BY <1>3 DEF Shifted
  <2>2. \A i \in 1..(N - 1) : (IF table[i] = d THEN table[N] ELSE table[i]) \in Device
    BY <1>1, <1>3
  <2> QED
    BY <1>3, <2>1, <2>2
<1> HIDE DEF t, N
<1>6. \A i, j \in 1..N : table[i] = table[j] => i = j
  BY <1>1 DEF IsInjective
<1>7. IsInjective(t)
  <2> SUFFICES ASSUME NEW i \in 1..(N - 1), NEW j \in 1..(N - 1), t[i] = t[j] PROVE i = j
    BY <1>5 DEF IsInjective
  <2> QED
    BY <1>1, <1>3, <1>4, <1>6
<1>8. ToSet(t) = Known \ {d}
  <2>1. ASSUME NEW x \in ToSet(t) PROVE x \in Known \ {d}
    <3>1. PICK i \in 1..(N - 1) : x = t[i]
      BY <1>5 DEF ToSet
    <3>2. CASE i = k
      <4>1. x = table[N] /\ k # N
        BY <1>1, <1>4, <3>1, <3>2
      <4> QED
        BY <1>1, <1>2, <1>3, <1>6, <4>1 DEF Known, ToSet
    <3>3. CASE i # k
      <4>1. x = table[i] /\ i \in 1..N
        BY <1>1, <1>4, <3>1, <3>3
      <4> QED
        BY <1>1, <1>2, <1>6, <3>3, <4>1 DEF Known, ToSet
    <3> QED
      BY <3>2, <3>3
  <2>2. ASSUME NEW x \in Known \ {d} PROVE x \in ToSet(t)
    <3>1. PICK i \in 1..N : x = table[i]
      BY <1>1 DEF Known, ToSet
    <3>2. CASE i = N
      <4>1. k \in 1..(N - 1) /\ t[k] = x
        BY <1>1, <1>2, <1>4, <3>1, <3>2
      <4> QED
        BY <1>5, <4>1 DEF ToSet
    <3>3. CASE i # N
      <4>1. i \in 1..(N - 1) /\ t[i] = x
        BY <1>1, <1>2, <1>4, <3>1, <3>3
      <4> QED
        BY <1>5, <4>1 DEF ToSet
    <3> QED
      BY <3>2, <3>3
  <2> QED
    BY <2>1, <2>2
<1>9. ASSUME NEW x \in Device, NEW n \in Nat, NEW i \in 1..N, n <= i, table[i] = x, x # d,
             ~(\E j \in 1..(N - 1) : table[j] = d /\ j < n /\ x = Last(table))
      PROVE  \E j \in 1..(N - 1) : n <= j /\ t[j] = x
  <2>1. CASE i = N
    <3>1. k \in 1..(N - 1) /\ t[k] = x /\ x = Last(table)
      BY <1>1, <1>2, <1>3, <1>4, <1>9, <2>1
    <3>2. ~(k < n)
      BY <1>2, <1>9, <3>1
    <3> QED
      BY <1>1, <3>1, <3>2
  <2>2. CASE i # N
    <3>1. i \in 1..(N - 1) /\ t[i] = x
      BY <1>1, <1>2, <1>4, <1>9, <2>2
    <3> QED
      BY <1>9, <3>1
  <2> QED
    BY <2>1, <2>2
<1> QED
  BY <1>5, <1>7, <1>8, <1>9 DEF t, N

LEMMA TableLoaded ==
    ASSUME pool \in SUBSET Device
    PROVE  /\ SetToSeq(pool) \in Seq(Device) /\ IsInjective(SetToSeq(pool)) /\ ToSet(SetToSeq(pool)) = pool
<1> DEFINE n == Cardinality(pool)
           s == SetToSeq(pool)
<1>1. IsFiniteSet(pool)
  BY FS_Subset
<1>2. n \in Nat /\ ExistsBijection(1..n, pool)
  BY <1>1, FS_CardinalityType
<1>3. \E f \in [1..n -> pool] : IsInjective(f)
  BY <1>2 DEF ExistsBijection, Bijection, Injection
<1>4. s \in [1..n -> pool] /\ IsInjective(s)
  BY <1>3 DEF SetToSeq
<1>5. IsFiniteSet(1..n) /\ Cardinality(1..n) = n
  BY <1>2, FS_Interval
<1> HIDE DEF s
<1>6. s \in Surjection(1..n, pool)
  <2>1. s \in Injection(1..n, pool)
    BY <1>4 DEF Injection
  <2> QED
    BY <1>1, <1>5, <2>1, FS_Injection
<1>7. ToSet(s) = pool
  BY <1>4, <1>6 DEF Surjection, ToSet
<1>8. s \in Seq(Device)
  BY <1>2, <1>4
<1> QED
  BY <1>4, <1>7, <1>8 DEF s

-----------------------------------------------------------------------------
\* What changes of an entry, a job or the table leave as it is.

LEMMA JobOf ==
    ASSUME IInv, NEW w \in Writer, job[w] # Idle
    PROVE  /\ job[w] \in Jobs /\ job[w].dev \in Device
           /\ job[w].do \in {"attrs", "retry"} => job[w].blob \in Val
           /\ job[w].do \in {"config", "book"} => job[w].blob \in Cfg
           /\ job[w].do \in {"attrs", "retry", "config", "book", "clear", "forget", "forgetConfig"}
           /\ InWrite(w) /\ Sound(job[w].dev)
           /\ job[w].do \notin {"forget", "forgetConfig"} => job[w].dev \in Known
<1>1. job[w] \in Jobs
  BY DEF IInv, Types
<1>2. /\ job[w].dev \in Device
      /\ job[w].do \in {"attrs", "retry"} => job[w].blob \in Val
      /\ job[w].do \in {"config", "book"} => job[w].blob \in Cfg
      /\ job[w].do \in {"attrs", "retry", "config", "book", "clear", "forget", "forgetConfig"}
  BY <1>1 DEF Jobs
<1> QED
  BY <1>1, <1>2 DEF IInv, Writers, Erases

LEMMA Handover ==
    ASSUME IInv, NEW w \in Writer, FlashOrder \/ job[w] # Idle, NEW j \in Jobs, job' = [job EXCEPT ![w] = j]
    PROVE  /\ job' \in [Writer -> Jobs] /\ OneWriter' /\ job'[w] = j
           /\ \A x \in Writer : x # w => job[x] = Idle /\ job'[x] = Idle
           /\ \A d, S : Doing(d, S) <=> job[w] # Idle /\ job[w].dev = d /\ job[w].do \in S
           /\ \A d, S : Doing(d, S)' <=> j # Idle /\ j.dev = d /\ j.do \in S
<1>1. job \in [Writer -> Jobs]
  BY DEF IInv, Types
<1>2. \A x \in Writer : x # w => job[x] = Idle
  BY DEF IInv, OneWriter, FlashOrder
<1>3. job' \in [Writer -> Jobs] /\ job'[w] = j /\ \A x \in Writer : x # w => job'[x] = Idle
  BY <1>1, <1>2
<1>4. OneWriter'
  BY <1>3 DEF OneWriter
<1>5. \A d, S : Doing(d, S) <=> job[w] # Idle /\ job[w].dev = d /\ job[w].do \in S
  BY <1>2 DEF Doing
<1>6. \A d, S : Doing(d, S)' <=> j # Idle /\ j.dev = d /\ j.do \in S
  BY <1>3 DEF Doing
<1> QED
  BY <1>2, <1>3, <1>4, <1>5, <1>6

LEMMA NoneDoing ==
    ASSUME FlashOrder PROVE \A d, S : ~Doing(d, S)
BY DEF FlashOrder, Doing

LEMMA Elsewhere ==
    ASSUME NEW d \in Device, Sound(d), entry'[d] = entry[d], attrKey'[d] = attrKey[d], cfgKey'[d] = cfgKey[d],
           d \in Known' <=> d \in Known, d \in cut' <=> d \in cut, d \in unmarked' <=> d \in unmarked,
           d \in unsure' <=> d \in unsure, \A S : Doing(d, S) => Doing(d, S)'
    PROVE  Sound(d)'
<1>1. LoadedVal(d)' = LoadedVal(d) /\ LoadedCfg(d)' = LoadedCfg(d)
  BY DEF LoadedVal, LoadedCfg
<1>2. Absent(d) => Absent(d)'
  BY DEF Absent, Fresh
<1>3. Booked(d) => Booked(d)'
  BY DEF Booked
<1>4. Clean(d) => Clean(d)'
  BY <1>1 DEF Clean
<1>5. InForce(d) => InForce(d)'
  BY <1>1 DEF InForce
<1> QED
  BY <1>2, <1>3, <1>4, <1>5 DEF Sound

\* Nothing but the sets, the places and what flush_now owes changes.
LEMMA Still ==
    ASSUME IInv, UNCHANGED <<table, entry, attrKey, cfgKey, job, unmarked, cut, unsure>>, SetTypes', pos' \in Places, Owing'
    PROVE  IInv'
<1>1. Types'
  BY DEF IInv, Types, SetTypes
<1>2. Known' = Known
  BY DEF Known
<1>3. \A d, S : Doing(d, S)' <=> Doing(d, S)
  BY DEF Doing
<1>4. \A d \in Device : Sound(d)'
  BY <1>2, <1>3, Elsewhere DEF IInv
<1>5. OneWriter' /\ Writers' /\ \A w \in Writer : job'[w] # Idle => InWrite(w)'
  BY <1>2 DEF IInv, OneWriter, Writers, InWrite, Erases
<1> QED
  BY <1>1, <1>4, <1>5 DEF IInv

LEMMA AppendedTable ==
    ASSUME IInv, NEW d \in Device, table' = Appended(d)
    PROVE  /\ table' \in Seq(Device) /\ IsInjective(table') /\ Known' = Known \cup {d}
           /\ Len(table) <= Len(table') /\ Len(table) \in Nat /\ Len(table') \in Nat
           /\ \A i \in 1..Len(table) : table'[i] = table[i]
<1>1. table \in Seq(Device) /\ IsInjective(table)
  BY DEF IInv, Types
<1>2. CASE d \in Known
  BY <1>1, <1>2 DEF Appended, Known
<1>3. CASE d \notin Known
  BY <1>1, <1>3, TableAppended DEF Appended, Known
<1> QED
  BY <1>2, <1>3

\* What flush_now owes is still before it when the table grows and no mark goes.
LEMMA OwedStill ==
    ASSUME IInv, NEW d \in Device, table' = Appended(d), UNCHANGED <<pos, owed>>,
           \A x \in owed : (entry[x].dirty => entry'[x].dirty) /\ (Doing(x, {"attrs", "retry"}) => Doing(x, {"attrs", "retry"})'),
           job'["flush"].do \in {"attrs", "retry"} => job["flush"] = job'["flush"]
    PROVE  Owing'
<1>1. \A x : Ahead(x) => Ahead(x)'
  BY AppendedTable DEF Ahead
<1>2. pos.flush \in 1..Len(table) => pos.flush \in 1..Len(table') /\ table'[pos.flush] = table[pos.flush]
  BY AppendedTable
<1> QED
  BY <1>1, <1>2 DEF IInv, Owing

Same(e, f) == f.crc = e.crc /\ f.cfg = e.cfg /\ f.cfgCrc = e.cfgCrc /\ (e.dirty => f.dirty)

\* An entry changes in RAM: it is marked, or noted as changed without a mark, or keeps its value.
LEMMA InRam ==
    ASSUME IInv, NEW d \in Device, NEW e \in Entries, entry' = [entry EXCEPT ![d] = e], Same(entry[d], e),
           table' = Appended(d), UNCHANGED <<job, attrKey, cfgKey, cut, unsure, owed>>,
           SetTypes', pos' \in Places, pos'.flush = pos.flush,
           unmarked \subseteq unmarked', unmarked' \subseteq unmarked \cup {d},
           e.dirty \/ d \in unmarked' \/ e.val = entry[d].val
    PROVE  IInv'
<1>1. /\ table \in Seq(Device) /\ IsInjective(table) /\ entry \in [Device -> Entries] /\ job \in [Writer -> Jobs]
      /\ attrKey \in [Device -> Val \cup {NoKey}] /\ cfgKey \in [Device -> Cfg \cup {NoKey}]
  BY DEF IInv, Types
<1>2. /\ table' \in Seq(Device) /\ IsInjective(table') /\ Known' = Known \cup {d}
      /\ Len(table) <= Len(table') /\ Len(table) \in Nat /\ Len(table') \in Nat
      /\ \A i \in 1..Len(table) : table'[i] = table[i]
  BY AppendedTable
<1>3. entry' \in [Device -> Entries] /\ entry'[d] = e /\ \A x \in Device \ {d} : entry'[x] = entry[x]
  <2> HIDE DEF Entries
  <2> QED
    BY <1>1
<1>4. Types'
  BY <1>1, <1>2, <1>3 DEF Types
<1>5. \A x, S : Doing(x, S)' <=> Doing(x, S)
  BY DEF Doing
<1>6. OneWriter' /\ Writers'
  BY <1>2 DEF IInv, OneWriter, Writers, Erases
<1>7. \A x \in Device \ {d} : Sound(x)'
  BY <1>2, <1>3, <1>5, Elsewhere DEF IInv
<1>8. Sound(d)'
  <2>1. Sound(d) /\ d \in Known'
    BY <1>2 DEF IInv
  <2>2. Booked(d)'
    BY <1>3, <1>5, <2>1 DEF Sound, Booked, Same
  <2>3. LoadedVal(d)' = LoadedVal(d) /\ LoadedCfg(d)' = LoadedCfg(d)
    BY DEF LoadedVal, LoadedCfg
  <2>4. CASE d \in Known
    <3>1. Clean(d)'
      BY <1>3, <1>5, <2>1, <2>3, <2>4 DEF Sound, Clean, Same
    <3>2. InForce(d)'
      BY <1>3, <1>5, <2>1, <2>3, <2>4 DEF Sound, InForce, Same
    <3> QED
      BY <2>1, <2>2, <3>1, <3>2 DEF Sound
  <2>5. CASE d \notin Known
    <3>1. Absent(d)
      BY <2>1, <2>5 DEF Sound
    <3>2. Clean(d)'
      <4>1. entry[d].val = Empty
        BY <3>1 DEF Absent, Fresh
      <4>2. d \in cut \/ attrKey[d] = NoKey \/ Doing(d, {"forget"})
        BY <3>1 DEF Absent
      <4>3. attrKey[d] = NoKey => LoadedVal(d)' = Empty
        BY DEF LoadedVal
      <4>4. Doing(d, {"forget"})' => Doing(d, {"attrs", "retry", "clear", "forget"})'
        BY DEF Doing
      <4>5. d \in cut' \cup unmarked' \/ entry'[d].dirty \/ (entry'[d].val = Empty /\ attrKey[d] = NoKey) \/ Doing(d, {"forget"})'
        BY <1>3, <1>5, <4>1, <4>2
      <4> QED
        BY <4>3, <4>4, <4>5 DEF Clean
    <3>3. InForce(d)'
      <4>1. entry'[d].cfg = Default
        BY <1>3, <3>1 DEF Absent, Fresh, Same
      <4>2. d \in cut' \/ cfgKey[d] = NoKey \/ Doing(d, {"forget", "forgetConfig"})'
        BY <1>5, <3>1 DEF Absent
      <4>3. cfgKey[d] = NoKey => LoadedCfg(d)' = Default
        BY DEF LoadedCfg
      <4>4. Doing(d, {"forget", "forgetConfig"})' => Doing(d, {"config", "forget", "forgetConfig"})'
        BY DEF Doing
      <4> QED
        BY <4>1, <4>2, <4>3, <4>4 DEF InForce
    <3> QED
      BY <2>1, <2>2, <3>2, <3>3 DEF Sound
  <2> QED
    BY <2>4, <2>5
<1>9. ASSUME NEW w \in Writer, job'[w] # Idle PROVE InWrite(w)'
  <2>1. InWrite(w) /\ job'[w] = job[w]
    BY <1>9 DEF IInv
  <2>2. CASE job[w].dev = d
    BY <1>3, <2>1, <2>2 DEF InWrite, Same, Erases
  <2>3. CASE job[w].dev # d
    <3>1. entry'[job[w].dev] = entry[job[w].dev]
      BY <1>3, <1>9, <2>1, <2>3, JobOf
    <3> QED
      BY <2>1, <3>1 DEF InWrite, Erases
  <2> QED
    BY <2>2, <2>3
<1>10. Owing'
  <2>1. \A x : Ahead(x) => Ahead(x)'
    BY <1>2 DEF Ahead
  <2>2. pos.flush \in 1..Len(table) => pos'.flush \in 1..Len(table') /\ table'[pos'.flush] = table[pos.flush]
    BY <1>2
  <2>3. \A x \in owed : entry[x].dirty => entry'[x].dirty
    BY <1>3 DEF IInv, Types, SetTypes, Same
  <2> QED
    BY <1>5, <2>1, <2>2, <2>3 DEF IInv, Owing
<1> QED
  BY <1>4, <1>6, <1>7, <1>8, <1>9, <1>10 DEF IInv

LEMMA Changes ==
    ASSUME NEW e \in Entries
    PROVE  /\ \A f \in Upserted(e) : f \in Entries /\ Same(e, f)
           /\ \A f \in Stored(e) : f \in Entries /\ Same(e, f) /\ f.dirty
           /\ \A f \in Released(e) : f \in Entries /\ Same(e, f) /\ (f.dirty \/ f = e)
<1>1. \A f \in Upserted(e) : f \in Entries /\ Same(e, f)
  BY DEF Upserted, Entries, Same
<1>2. \A f \in Stored(e) : f \in Entries /\ Same(e, f) /\ f.dirty
  BY <1>1 DEF Stored, MarkDirty, Entries, Same
<1>3. \A f \in Released(e) : f \in Entries /\ Same(e, f) /\ (f.dirty \/ f = e)
  <2>1. \A f \in Stored(e) : LET g == [f EXCEPT !.held = FALSE] IN g \in Entries /\ Same(e, g) /\ g.dirty
    BY <1>2 DEF Entries, Same
  <2> QED
    BY <2>1 DEF Released, Same
<1> QED
  BY <1>1, <1>2, <1>3

\* What is held back is not among the things that flash follows, nor is it the mark.
LEMMA KeptIsSame ==
    ASSUME NEW d, NEW S, \A e \in S : e \in Entries /\ Same(entry[d], e)
    PROVE  /\ \A f \in Kept(d, S) : f \in Entries /\ Same(entry[d], f)
           /\ (\A e \in S : e.dirty) => \A f \in Kept(d, S) : f.dirty
<1>1. \A e \in S, h \in BOOLEAN :
         LET f == [e EXCEPT !.held = h] IN f \in Entries /\ Same(entry[d], f) /\ f.dirty = e.dirty
  BY DEF Entries, Same
<1>2. ASSUME NEW f \in Kept(d, S)
      PROVE  f \in Entries /\ Same(entry[d], f) /\ \E e \in S : f.dirty = e.dirty
  <2>1. PICK e \in S, h \in BOOLEAN : f = [e EXCEPT !.held = h]
    BY DEF Kept
  <2> QED
    BY <1>1, <2>1
<1>3. ASSUME \A e \in S : e.dirty, NEW f \in Kept(d, S) PROVE f.dirty
  BY <1>2, <1>3
<1> QED
  BY <1>2, <1>3

-----------------------------------------------------------------------------
\* The steps in RAM.

LEMMA BecomesKeeps ==
    ASSUME IInv, NEW d \in Device, NEW S, Becomes(d, S), table' = Appended(d), bridged' \in SUBSET Device,
           \A e \in S : e \in Entries /\ Same(entry[d], e),
           \/ NoMark(d)
           \/ UNCHANGED unmarked /\ \A e \in S : e.dirty \/ e = entry[d]
    PROVE  IInv'
<1>1. /\ UNCHANGED <<pool, leaving, job, pos, cut, unsure, owed>> /\ UNCHANGED <<attrKey, cfgKey>>
      /\ \E e \in S : entry' = [entry EXCEPT ![d] = e]
  BY DEF Becomes, flash
<1>2. PICK e \in S : entry' = [entry EXCEPT ![d] = e]
  BY <1>1
<1>3. e \in Entries /\ Same(entry[d], e) /\ entry'[d] = e
  <2>1. entry \in [Device -> Entries]
    BY DEF IInv, Types
  <2> HIDE DEF Entries
  <2> QED
    BY <1>2, <2>1
<1>4. unmarked \subseteq unmarked' /\ unmarked' \subseteq unmarked \cup {d} /\ unmarked' \in SUBSET Device
  BY DEF NoMark, IInv, Types, SetTypes
<1>5. e.dirty \/ d \in unmarked' \/ e.val = entry[d].val
  BY <1>3 DEF NoMark
<1>6. SetTypes' /\ pos' \in Places
  BY <1>1, <1>4 DEF IInv, Types, SetTypes
<1> QED
  BY <1>1, <1>2, <1>3, <1>4, <1>5, <1>6, InRam

LEMMA KnownTable == ASSUME IInv, NEW d \in Known PROVE d \in Device /\ (UNCHANGED table => table' = Appended(d))
<1>1. table \in Seq(Device)
  BY DEF IInv, Types
<1> QED
  BY <1>1 DEF Known, ToSet, Appended

LEMMA ChangeKeeps == ASSUME IInv, NEW d \in Device, Change(d) \/ WindowCloses(d) PROVE IInv'
<1>1. entry[d] \in Entries /\ bridged \in SUBSET Device
  BY DEF IInv, Types, SetTypes
<1>2. CASE Report(d)
  <2>1. table' = Appended(d) /\ bridged' = {}
    BY <1>2 DEF Report
  <2>2. CASE Becomes(d, Kept(d, Stored(entry[d]))) /\ UNCHANGED unmarked
    <3>1. \A f \in Kept(d, Stored(entry[d])) : f \in Entries /\ Same(entry[d], f) /\ f.dirty
      BY <1>1, KeptIsSame, Changes
    <3> QED
      BY <2>1, <2>2, <3>1, BecomesKeeps
  <2>3. CASE Becomes(d, Kept(d, Upserted(entry[d]))) /\ NoMark(d)
    <3>1. \A f \in Kept(d, Upserted(entry[d])) : f \in Entries /\ Same(entry[d], f)
      BY <1>1, KeptIsSame, Changes
    <3> QED
      BY <2>1, <2>3, <3>1, BecomesKeeps
  <2> QED
    BY <1>2, <2>2, <2>3 DEF Report
<1>3. CASE Optimistic(d)
  BY <1>1, <1>3, BecomesKeeps, Changes, KnownTable DEF Optimistic
<1>4. CASE RemoveAttr(d)
  <2>1. \A f \in {MarkDirty([entry[d] EXCEPT !.val = v]) : v \in Val \ {entry[d].val}} :
           f \in Entries /\ Same(entry[d], f) /\ f.dirty
    BY <1>1 DEF MarkDirty, Entries, Same
  <2> QED
    BY <1>1, <1>4, <2>1, BecomesKeeps, KnownTable DEF RemoveAttr
<1>5. CASE TimesOut(d)
  BY <1>1, <1>5, BecomesKeeps, Changes, KnownTable DEF TimesOut
<1>6. CASE WindowCloses(d)
  BY <1>1, <1>6, BecomesKeeps, Changes, KnownTable DEF WindowCloses
<1> QED
  BY <1>2, <1>3, <1>4, <1>5, <1>6 DEF Change

LEMMA OwingSame ==
    ASSUME IInv, UNCHANGED <<table, entry, job, owed>>, pos'.flush = pos.flush PROVE Owing'
BY DEF IInv, Owing, Ahead, Doing

LEMMA ComeKeeps == ASSUME IInv, NEW d \in Device, Come(d) \/ Bridged(d) PROVE IInv'
<1>1. CASE Touch(d)
  <2>1. /\ table' = Appended(d) /\ UNCHANGED <<pool, bridged, leaving, entry, attrKey, cfgKey, job, pos>>
        /\ UNCHANGED <<unmarked, cut, unsure, owed>>
    BY <1>1 DEF Touch, Appended, homes, flash, past
  <2>2. entry' = [entry EXCEPT ![d] = entry[d]] /\ entry[d] \in Entries /\ SetTypes' /\ pos' \in Places
    BY <2>1 DEF IInv, Types, SetTypes
  <2>3. Same(entry[d], entry[d])
    BY DEF Same
  <2> QED
    BY <2>1, <2>2, <2>3, InRam
<1>2. CASE Pair(d) \/ LeavePool(d) \/ Bridged(d)
  <2>1. UNCHANGED <<table, entry, attrKey, cfgKey, job, pos, unmarked, cut, unsure, owed>>
    BY <1>2 DEF Pair, LeavePool, Bridged, flash, past
  <2>2. SetTypes'
    <3>1. pool' \in SUBSET Device /\ bridged' \in SUBSET Device /\ leaving' \in SUBSET Device
      BY <1>2 DEF Pair, LeavePool, Bridged, IInv, Types, SetTypes
    <3> QED
      BY <2>1, <3>1 DEF IInv, Types, SetTypes
  <2>3. Owing' /\ pos' \in Places
    BY <2>1, OwingSame DEF IInv, Types
  <2> QED
    BY <2>1, <2>2, <2>3, Still
<1> QED
  BY <1>1, <1>2 DEF Come

-----------------------------------------------------------------------------
\* The sweep and flush_now.

LEMMA Advance ==
    ASSUME IInv, NEW w \in {"sweep", "flush"}, pos' = [pos EXCEPT ![w] = @ + 1]
    PROVE  /\ pos' \in Places /\ pos.flush \in Nat /\ pos.sweep \in Nat
           /\ w = "flush" => pos'.flush = pos.flush + 1
           /\ w = "sweep" => pos'.flush = pos.flush
<1>1. pos \in Places
  BY DEF IInv, Types
<1>2. CASE w = "flush"
  BY <1>1, <1>2 DEF Places
<1>3. CASE w = "sweep"
  BY <1>1, <1>3 DEF Places
<1> QED
  BY <1>2, <1>3

\* One who passes the place of d leaves what else is owed before it.
LEMMA AheadStill ==
    ASSUME IInv, NEW w \in {"sweep", "flush"}, pos' = [pos EXCEPT ![w] = @ + 1], UNCHANGED table, NEW d,
           w = "flush" => table[pos.flush] = d
    PROVE  \A x : x # d /\ Ahead(x) => Ahead(x)'
<1> SUFFICES ASSUME NEW x, x # d, NEW i \in 1..Len(table), pos.flush <= i, table[i] = x PROVE Ahead(x)'
  BY DEF Ahead
<1>1. pos'.flush <= i
  <2>1. pos.flush \in Nat /\ i \in Nat
    <3>1. pos \in Places /\ table \in Seq(Device)
      BY DEF IInv, Types
    <3> QED
      BY <3>1 DEF Places
  <2>2. CASE w = "flush"
    BY <2>1, <2>2, Advance
  <2>3. CASE w = "sweep"
    BY <2>3, Advance
  <2> QED
    BY <2>2, <2>3
<1> QED
  BY <1>1 DEF Ahead

LEMMA PassKeeps ==
    ASSUME IInv, FlashOrder, NEW w \in {"sweep", "flush"}, pos[w] \in 1..Len(table), NEW e \in Entries, Same(entry[At(w)], e),
           e.dirty \/ e = entry[At(w)], w = "flush" => ~entry[At(w)].dirty /\ e = entry[At(w)], Pass(w, At(w), e)
    PROVE  IInv'
<1> DEFINE d == At(w)
<1>1. /\ pos' = [pos EXCEPT ![w] = @ + 1] /\ entry' = [entry EXCEPT ![d] = e]
      /\ UNCHANGED <<pool, bridged, leaving, table, attrKey, cfgKey, job, unmarked, cut, unsure, owed>>
  BY DEF Pass, homes, flash, past
<1>2. d \in Known
  BY DEF At, Known, ToSet, IInv, Types
<1>3. SetTypes' /\ pos' \in Places /\ entry \in [Device -> Entries]
  BY <1>1, Advance DEF IInv, Types, SetTypes
<1>4. d \in Device /\ table' = Appended(d)
  BY <1>1, <1>2, KnownTable
<1> HIDE DEF d
<1>5. CASE w = "sweep"
  <2>1. pos'.flush = pos.flush
    BY <1>1, <1>5, Advance
  <2>2. Same(entry[d], e) /\ (e.dirty \/ e = entry[d])
    BY DEF d
  <2> QED
    BY <1>1, <1>3, <1>4, <2>1, <2>2, InRam
<1>6. CASE w = "flush"
  <2>1. entry' = entry /\ ~entry[d].dirty
    BY <1>1, <1>3, <1>4, <1>6 DEF d
  <2>2. table[pos.flush] = d
    BY <1>6 DEF d, At
  <2>3. Owing'
    <3>1. \A x \in owed : Ahead(x) /\ entry[x].dirty
      BY NoneDoing DEF IInv, Owing
    <3>2. \A x \in owed : Ahead(x)'
      BY <1>1, <1>6, <2>1, <2>2, <3>1, AheadStill
    <3>3. job["flush"] = Idle
      BY DEF FlashOrder, Writer
    <3> QED
      BY <1>1, <2>1, <3>1, <3>2, <3>3 DEF Owing, Idle
  <2> QED
    BY <1>1, <1>3, <2>1, <2>3, Still
<1> QED
  BY <1>5, <1>6

\* The jobs a step leaves hold nothing but the one of writer w.
LEMMA Alone ==
    ASSUME IInv, NEW w \in Writer, FlashOrder \/ job[w] # Idle, NEW j \in Jobs, job' = [job EXCEPT ![w] = j],
           j # Idle => InWrite(w)' /\ (j.dev \in Known' \/ Erases(w)') /\ (Erases(w)' => w \in Task)
    PROVE  /\ job' \in [Writer -> Jobs] /\ OneWriter' /\ Writers'
           /\ \A x \in Writer : job'[x] # Idle => InWrite(x)'
<1>1. /\ job' \in [Writer -> Jobs] /\ OneWriter' /\ job'[w] = j
      /\ \A x \in Writer : x # w => job[x] = Idle /\ job'[x] = Idle
  BY Handover
<1>2. Writers'
  BY <1>1 DEF Writers, Erases, Idle
<1>3. \A x \in Writer : job'[x] # Idle => InWrite(x)'
  BY <1>1
<1> QED
  BY <1>1, <1>2, <1>3

LEMMA CopiedKeeps ==
    ASSUME IInv, FlashOrder, NEW w \in {"sweep", "flush"}, pos[w] \in 1..Len(table), NEW e \in Entries, Same(entry[At(w)], e),
           Copied(w, At(w), e)
    PROVE  IInv'
<1>0. At(w) \in Known
  BY DEF At, Known, ToSet, IInv, Types
<1> PICK d \in Device : d = At(w)
  BY <1>0, KnownTable
<1> DEFINE f == [e EXCEPT !.dirty = FALSE, !.force = FALSE, !.crc = e.val]
<1>1. /\ entry' = [entry EXCEPT ![d] = f] /\ unmarked' = unmarked \ {d}
      /\ UNCHANGED <<pool, bridged, leaving, table, attrKey, cfgKey, cut, unsure>>
      /\ IF e.crc = e.val
         THEN pos' = [pos EXCEPT ![w] = @ + 1] /\ owed' = owed \ {d} /\ UNCHANGED job
         ELSE job' = [job EXCEPT ![w] = [do |-> "attrs", dev |-> d, blob |-> e.val]] /\ UNCHANGED <<pos, owed>>
  BY DEF Copied, homes, flash
<1>2. d \in Known
  BY <1>0
<1>3. d \in Device /\ Sound(d) /\ w \in Writer
  BY <1>2 DEF IInv, Writer
<1>4. /\ entry \in [Device -> Entries] /\ job \in [Writer -> Jobs] /\ table \in Seq(Device) /\ IsInjective(table)
      /\ attrKey \in [Device -> Val \cup {NoKey}] /\ cfgKey \in [Device -> Cfg \cup {NoKey}] /\ pos \in Places
  BY DEF IInv, Types
<1>5. /\ f \in Entries /\ ~f.dirty /\ f.crc = e.val /\ f.val = e.val /\ f.cfg = entry[d].cfg /\ f.cfgCrc = entry[d].cfgCrc
      /\ e.crc = entry[d].crc /\ e.val \in Val
  BY DEF Entries, Same
<1> HIDE DEF f
<1>6. entry' \in [Device -> Entries] /\ entry'[d] = f /\ \A x \in Device \ {d} : entry'[x] = entry[x]
  <2> HIDE DEF Entries
  <2> QED
    BY <1>1, <1>3, <1>4, <1>5
<1>7. \A x, S : ~Doing(x, S)
  BY NoneDoing
<1>8. \A x \in Device \ {d} : Sound(x)'
  BY <1>1, <1>6, <1>7, Elsewhere DEF IInv, Known
<1>9. pos' \in Places /\ SetTypes'
  BY <1>1, <1>4, Advance DEF IInv, Types, SetTypes
<1>10. Known' = Known /\ LoadedVal(d)' = LoadedVal(d) /\ LoadedCfg(d)' = LoadedCfg(d)
  BY <1>1 DEF Known, LoadedVal, LoadedCfg
<1>11. InForce(d) /\ Booked(d)
  BY <1>2, <1>3 DEF Sound
<1>12. \A x \in owed : Ahead(x) /\ entry[x].dirty /\ x \in Device
  BY <1>7 DEF IInv, Owing, Types, SetTypes
<1>13. w = "flush" => table[pos.flush] = d /\ pos.flush \in 1..Len(table)
  BY DEF At
<1>14. job["flush"] = Idle /\ job["sweep"] = Idle /\ \A x \in Writer : job[x] = Idle
  BY DEF FlashOrder, Writer
<1>15. CASE e.crc = e.val
  <2>1. pos' = [pos EXCEPT ![w] = @ + 1] /\ owed' = owed \ {d} /\ job' = job
    BY <1>1, <1>15
  <2>2. \A x, S : ~Doing(x, S)'
    BY <1>7, <2>1 DEF Doing
  <2>3. entry[d].crc = e.val /\ e.val # NoKey
    BY <1>5, <1>15
  <2>4. attrKey[d] = e.val
    BY <1>7, <1>11, <2>3 DEF Booked
  <2>5. Sound(d)'
    <3>1. Booked(d)'
      BY <1>1, <1>5, <1>6, <1>7, <1>11, <2>2, <2>4 DEF Booked
    <3>2. LoadedVal(d)' = e.val
      BY <1>10, <2>3, <2>4 DEF LoadedVal
    <3>3. Clean(d)'
      BY <1>5, <1>6, <3>2 DEF Clean
    <3>4. InForce(d)'
      BY <1>1, <1>5, <1>6, <1>7, <1>10, <1>11 DEF InForce
    <3> QED
      BY <1>2, <1>10, <3>1, <3>3, <3>4 DEF Sound
  <2>6. Owing'
    <3>1. \A x \in owed' : Ahead(x)'
      BY <1>1, <1>12, <1>13, <2>1, AheadStill
    <3>2. \A x \in owed' : entry'[x].dirty
      BY <1>6, <1>12, <2>1
    <3>3. job'["flush"].do \notin {"attrs", "retry"}
      BY <1>14, <2>1 DEF Idle
    <3> QED
      BY <3>1, <3>2, <3>3 DEF Owing
  <2>7. OneWriter' /\ Writers' /\ \A x \in Writer : job'[x] # Idle => InWrite(x)'
    BY <1>14, <2>1 DEF OneWriter, Writers, Erases, Idle
  <2>8. Types'
    BY <1>1, <1>4, <1>6, <1>9, <2>1 DEF Types
  <2> QED
    BY <1>8, <2>5, <2>6, <2>7, <2>8 DEF IInv
<1>16. CASE e.crc # e.val
  <2> DEFINE j == [do |-> "attrs", dev |-> d, blob |-> e.val]
  <2>1. job' = [job EXCEPT ![w] = j] /\ pos' = pos /\ owed' = owed
    BY <1>1, <1>16
  <2>2. j \in Jobs /\ j # Idle /\ j.do = "attrs" /\ j.dev = d /\ j.blob = e.val
    BY <1>3, <1>5 DEF Jobs, Idle
  <2> HIDE DEF j
  <2>3. \A x, S : Doing(x, S)' <=> j # Idle /\ j.dev = x /\ j.do \in S
    BY <1>3, <2>1, <2>2, Handover
  <2>4. Doing(d, {"attrs", "retry", "clear", "forget"})' /\ Doing(d, {"attrs", "retry"})'
    BY <2>2, <2>3
  <2>5. Sound(d)'
    <3>1. Booked(d)'
      BY <1>1, <1>5, <1>6, <1>7, <1>11, <2>4 DEF Booked
    <3>2. Clean(d)'
      BY <1>5, <1>6, <2>4 DEF Clean
    <3>3. InForce(d)'
      BY <1>1, <1>5, <1>6, <1>7, <1>10, <1>11 DEF InForce
    <3> QED
      BY <1>2, <1>10, <3>1, <3>2, <3>3 DEF Sound
  <2>6. job'[w] = j
    BY <1>3, <1>4, <2>1
  <2>7. InWrite(w)' /\ ~Erases(w)'
    BY <1>5, <1>6, <2>2, <2>6 DEF InWrite, Erases
  <2>8. job' \in [Writer -> Jobs] /\ OneWriter' /\ Writers' /\ \A x \in Writer : job'[x] # Idle => InWrite(x)'
    BY <1>2, <1>3, <1>10, <2>1, <2>2, <2>7, Alone
  <2>9. Owing'
    <3>1. \A x \in owed' : Ahead(x)'
      BY <1>1, <1>12, <2>1 DEF Ahead
    <3>2. \A x \in owed' : entry'[x].dirty \/ Doing(x, {"attrs", "retry"})'
      BY <1>6, <1>12, <2>1, <2>4
    <3>3. job'["flush"].do \in {"attrs", "retry"} => pos'.flush \in 1..Len(table') /\ table'[pos'.flush] = job'["flush"].dev
      <4>1. CASE w = "flush"
        BY <1>1, <1>13, <2>1, <2>2, <2>6, <4>1
      <4>2. CASE w # "flush"
        BY <1>4, <1>14, <2>1, <4>2 DEF Idle, Writer
      <4> QED
        BY <4>1, <4>2
    <3> QED
      BY <3>1, <3>2, <3>3 DEF Owing
  <2>10. Types'
    BY <1>1, <1>4, <1>6, <1>9, <2>8 DEF Types
  <2> QED
    BY <1>8, <2>5, <2>8, <2>9, <2>10 DEF IInv
<1> QED
  BY <1>15, <1>16

LEMMA SweepEntryKeeps == IInv /\ SweepEntry => IInv'
<1> SUFFICES ASSUME IInv, SweepEntry PROVE IInv'
  OBVIOUS
<1>1. FlashOrder /\ pos["sweep"] \in 1..Len(table)
  BY DEF SweepEntry
<1>2. At("sweep") \in Known
  BY <1>1 DEF At, Known, ToSet, IInv, Types
<1>3. entry[At("sweep")] \in Entries
  BY <1>2, KnownTable DEF IInv, Types
<1>4. PICK e \in {entry[At("sweep")]} \cup Released(entry[At("sweep")]) :
         \/ e.dirty /\ Copied("sweep", At("sweep"), e)
         \/ ~(e.dirty /\ e.force) /\ Pass("sweep", At("sweep"), e)
  BY DEF SweepEntry
<1>5. e \in Entries /\ Same(entry[At("sweep")], e) /\ (e.dirty \/ e = entry[At("sweep")])
  BY <1>3, Changes DEF Same
<1> QED
  BY <1>1, <1>4, <1>5, CopiedKeeps, PassKeeps

LEMMA FlushEntryKeeps == IInv /\ FlushEntry => IInv'
<1> SUFFICES ASSUME IInv, FlushEntry PROVE IInv'
  OBVIOUS
<1>1. FlashOrder /\ pos["flush"] \in 1..Len(table)
  BY DEF FlushEntry
<1>2. At("flush") \in Known
  BY <1>1 DEF At, Known, ToSet, IInv, Types
<1>3. entry[At("flush")] \in Entries /\ Same(entry[At("flush")], entry[At("flush")])
  BY <1>2, KnownTable DEF IInv, Types, Same
<1> QED
  BY <1>1, <1>3, CopiedKeeps, PassKeeps DEF FlushEntry

LEMMA PassesKeep == IInv /\ (SweepAgain \/ FlushNow \/ FlushEnd) => IInv'
<1> SUFFICES ASSUME IInv, SweepAgain \/ FlushNow \/ FlushEnd PROVE IInv'
  OBVIOUS
<1>1. /\ UNCHANGED <<pool, bridged, leaving, table, entry, attrKey, cfgKey, job, unmarked, cut, unsure>>
      /\ owed' \in SUBSET Device /\ pos' \in Places
  <2>1. UNCHANGED <<pool, bridged, leaving, table, entry, attrKey, cfgKey, job, unmarked, cut, unsure>>
    BY DEF SweepAgain, FlushNow, FlushEnd, homes, flash, past
  <2>2. Known \subseteq Device
    BY DEF IInv, Types, Known, ToSet
  <2>3. owed' \in SUBSET Device
    BY <2>2 DEF SweepAgain, FlushNow, FlushEnd, past, IInv, Types, SetTypes
  <2>4. pos' \in Places
    BY DEF SweepAgain, FlushNow, FlushEnd, IInv, Types, Places
  <2> QED
    BY <2>1, <2>3, <2>4
<1>2. SetTypes'
  BY <1>1 DEF IInv, Types, SetTypes
<1>3. pos \in Places
  BY DEF IInv, Types
<1>4. Owing'
  <2>1. CASE SweepAgain
    <3>1. pos'.flush = pos.flush /\ owed' = owed
      BY <1>3, <2>1 DEF SweepAgain, Places, past
    <3> QED
      BY <1>1, <3>1, OwingSame
  <2>2. CASE FlushNow
    <3>1. pos'.flush = 1 /\ owed' = {d \in Known : entry[d].dirty} /\ pos.flush = 0
      BY <1>3, <2>2 DEF FlushNow, Places
    <3>2. job'["flush"].do \notin {"attrs", "retry"}
      BY <1>1, <3>1 DEF IInv, Owing
    <3>3. \A d \in owed' : Ahead(d)' /\ entry'[d].dirty
      BY <1>1, <3>1 DEF Ahead, Known, ToSet, IInv, Types
    <3> QED
      BY <3>2, <3>3 DEF Owing
  <2>3. CASE FlushEnd
    BY <1>1, <2>3 DEF FlushEnd, Owing, FlashOrder, Writer, Idle
  <2> QED
    BY <2>1, <2>2, <2>3
<1> QED
  BY <1>1, <1>2, <1>4, Still

\* A step of writer w with the job of d: the others hold nothing, so devices other than d are as they were.
LEMMA StepOf ==
    ASSUME IInv, NEW w \in Writer, job[w] # Idle, NEW d \in Device, d = job[w].dev, NEW j \in Jobs,
           job' = [job EXCEPT ![w] = j], j # Idle => j.dev = d
    PROVE  /\ \A S : Doing(d, S) <=> job[w].do \in S
           /\ \A S : Doing(d, S)' <=> j # Idle /\ j.do \in S
           /\ \A x, S : x # d => ~Doing(x, S) /\ ~Doing(x, S)'
BY Handover

LEMMA WriteAttrsKeeps == ASSUME IInv, NEW w \in {"sweep", "flush"}, WriteAttrs(w) PROVE IInv'
<1>1. /\ job[w].do = "attrs" /\ attrKey' = [attrKey EXCEPT ![job[w].dev] = job[w].blob]
      /\ job' = [job EXCEPT ![w] = Idle] /\ pos' = [pos EXCEPT ![w] = @ + 1] /\ owed' = owed \ {job[w].dev}
      /\ UNCHANGED <<pool, bridged, leaving, table, entry, cfgKey, unmarked, cut, unsure>>
  BY DEF WriteAttrs, homes
<1>2. w \in Writer /\ job[w] # Idle /\ Idle \in Jobs
  BY <1>1 DEF Writer, Idle, Jobs
<1>3. /\ job[w].dev \in Device /\ job[w].blob \in Val /\ job[w].dev \in Known /\ Sound(job[w].dev)
      /\ entry[job[w].dev].crc = job[w].blob
      /\ entry[job[w].dev].dirty \/ job[w].dev \in unmarked \/ entry[job[w].dev].val = job[w].blob
  BY <1>1, <1>2, JobOf DEF InWrite
<1> PICK d \in Device : d = job[w].dev
  BY <1>3
<1>4. /\ \A S : Doing(d, S) <=> job[w].do \in S
      /\ \A S : ~Doing(d, S)'
      /\ \A x, S : x # d => ~Doing(x, S) /\ ~Doing(x, S)'
  BY <1>1, <1>2, StepOf
<1>5. /\ entry \in [Device -> Entries] /\ table \in Seq(Device) /\ IsInjective(table)
      /\ attrKey \in [Device -> Val \cup {NoKey}] /\ cfgKey \in [Device -> Cfg \cup {NoKey}]
  BY DEF IInv, Types
<1>6. attrKey' \in [Device -> Val \cup {NoKey}] /\ attrKey'[d] = entry[d].crc /\ \A x \in Device \ {d} : attrKey'[x] = attrKey[x]
  BY <1>1, <1>3, <1>5
<1>7. Known' = Known
  BY <1>1 DEF Known
<1>8. \A x \in Device \ {d} : Sound(x)'
  BY <1>1, <1>4, <1>6, <1>7, Elsewhere DEF IInv
<1>9. Sound(d)'
  <2>1. Booked(d) /\ Clean(d) /\ InForce(d)
    BY <1>3 DEF Sound
  <2>2. Booked(d)'
    BY <1>1, <1>4, <1>6, <2>1 DEF Booked
  <2>3. LoadedVal(d)' = entry[d].crc /\ LoadedCfg(d)' = LoadedCfg(d)
    BY <1>1, <1>3, <1>6 DEF LoadedVal, LoadedCfg
  <2>5. Clean(d)'
    BY <1>1, <1>3, <2>3 DEF Clean
  <2>6. InForce(d)'
    BY <1>1, <1>4, <2>1, <2>3 DEF InForce
  <2> QED
    BY <1>3, <1>7, <2>2, <2>5, <2>6 DEF Sound
<1>10. job' \in [Writer -> Jobs] /\ OneWriter' /\ Writers' /\ \A x \in Writer : job'[x] # Idle => InWrite(x)'
  BY <1>1, <1>2, Alone
<1>11. pos' \in Places
  BY <1>1, Advance
<1>12. Types'
  BY <1>1, <1>5, <1>6, <1>10, <1>11 DEF Types, SetTypes, IInv
<1>13. Owing'
  <2>1. w = "flush" => table[pos.flush] = d
    BY <1>1 DEF IInv, Owing
  <2>2. \A x \in owed' : Ahead(x)'
    BY <1>1, <2>1, AheadStill DEF IInv, Owing
  <2>3. \A x \in owed' : entry'[x].dirty
    BY <1>1, <1>4 DEF IInv, Owing
  <2>4. job'["flush"] = Idle
    BY <1>1, <1>2, Handover DEF Writer
  <2> QED
    BY <2>2, <2>3, <2>4 DEF Owing, Idle
<1> QED
  BY <1>8, <1>9, <1>10, <1>12, <1>13 DEF IInv

LEMMA WriteFailsKeeps == ASSUME IInv, NEW w \in {"sweep", "flush"}, WriteFails(w) PROVE IInv'
<1>1. /\ job[w].do = "attrs" /\ job' = [job EXCEPT ![w].do = "retry"]
      /\ \E b \in {attrKey[job[w].dev], job[w].blob} : attrKey' = [attrKey EXCEPT ![job[w].dev] = b]
      /\ UNCHANGED <<pool, bridged, leaving, table, entry, cfgKey, pos, unmarked, cut, unsure, owed>>
  BY DEF WriteFails, homes, past
<1>2. w \in Writer /\ job[w] # Idle
  BY <1>1 DEF Writer, Idle
<1>3. job[w].dev \in Device /\ job[w].blob \in Val /\ job[w].dev \in Known /\ Sound(job[w].dev) /\ job[w] \in Jobs
  BY <1>1, <1>2, JobOf
<1> PICK d \in Device : d = job[w].dev
  BY <1>3
<1> DEFINE j == [job[w] EXCEPT !.do = "retry"]
<1>4. job' = [job EXCEPT ![w] = j] /\ j \in Jobs /\ j # Idle /\ j.do = "retry" /\ j.dev = d
  <2>1. job[w] \in [do : {"attrs", "retry"}, dev : Device, blob : Val]
    BY <1>1, <1>3 DEF Jobs, Idle
  <2>2. j \in [do : {"attrs", "retry"}, dev : Device, blob : Val] /\ j.do = "retry" /\ j.dev = d
    BY <2>1
  <2>3. j \in Jobs /\ j # Idle
    BY <2>2 DEF Jobs, Idle
  <2> QED
    BY <1>1, <2>2, <2>3
<1> PICK k \in Jobs : k = j
  BY <1>4
<1>40. job' = [job EXCEPT ![w] = k] /\ k # Idle /\ k.do = "retry" /\ k.dev = d
  BY <1>4
<1> HIDE DEF j
<1>5. /\ \A S : Doing(d, S) <=> job[w].do \in S
      /\ \A S : Doing(d, S)' <=> k # Idle /\ k.do \in S
      /\ \A x, S : x # d => ~Doing(x, S) /\ ~Doing(x, S)'
  BY <1>2, <1>40, StepOf
<1>6. /\ entry \in [Device -> Entries] /\ table \in Seq(Device) /\ IsInjective(table)
      /\ attrKey \in [Device -> Val \cup {NoKey}] /\ cfgKey \in [Device -> Cfg \cup {NoKey}] /\ pos \in Places
  BY DEF IInv, Types
<1>7. attrKey' \in [Device -> Val \cup {NoKey}] /\ \A x \in Device \ {d} : attrKey'[x] = attrKey[x]
  <2>1. PICK b \in {attrKey[d], job[w].blob} : attrKey' = [attrKey EXCEPT ![d] = b]
    BY <1>1
  <2> QED
    BY <1>3, <1>6, <2>1
<1>8. Known' = Known /\ LoadedCfg(d)' = LoadedCfg(d)
  BY <1>1 DEF Known, LoadedCfg
<1>9. \A x \in Device \ {d} : Sound(x)'
  BY <1>1, <1>5, <1>7, <1>8, Elsewhere DEF IInv
<1>10. Doing(d, {"attrs", "retry"})' /\ Doing(d, {"attrs", "retry", "clear", "forget"})'
  BY <1>40, <1>5
<1>11. Sound(d)'
  <2>1. Booked(d) /\ InForce(d)
    BY <1>3 DEF Sound
  <2>2. Booked(d)'
    BY <1>1, <1>5, <1>10, <2>1 DEF Booked
  <2>3. Clean(d)'
    BY <1>10 DEF Clean
  <2>4. InForce(d)'
    BY <1>1, <1>5, <1>8, <2>1 DEF InForce
  <2> QED
    BY <1>3, <1>8, <2>2, <2>3, <2>4 DEF Sound
<1>12. job'[w] = k
  BY <1>2, <1>40, Handover
<1>13. InWrite(w)' /\ ~Erases(w)'
  BY <1>40, <1>12 DEF InWrite, Erases
<1>14. job' \in [Writer -> Jobs] /\ OneWriter' /\ Writers' /\ \A x \in Writer : job'[x] # Idle => InWrite(x)'
  BY <1>2, <1>3, <1>40, <1>8, <1>13, Alone
<1>15. Types'
  BY <1>1, <1>6, <1>7, <1>14 DEF Types, SetTypes, IInv
<1>16. Owing'
  <2>1. \A x \in owed' : Ahead(x)'
    BY <1>1 DEF IInv, Owing, Ahead
  <2>2. \A x \in owed' : entry'[x].dirty \/ Doing(x, {"attrs", "retry"})'
    BY <1>1, <1>5, <1>10 DEF IInv, Owing
  <2>3. job'["flush"].do \in {"attrs", "retry"} => pos'.flush \in 1..Len(table') /\ table'[pos'.flush] = job'["flush"].dev
    <3>1. CASE w = "flush"
      BY <1>1, <1>40, <1>12, <3>1 DEF IInv, Owing
    <3>2. CASE w # "flush"
      <4>1. "flush" \in Writer /\ "flush" # w
        BY <3>2 DEF Writer
      <4>2. job'["flush"] = Idle
        BY <1>2, <1>40, <4>1, Handover
      <4> QED
        BY <4>2 DEF Idle
    <3> QED
      BY <3>1, <3>2
  <2> QED
    BY <2>1, <2>2, <2>3 DEF Owing
<1> QED
  BY <1>9, <1>11, <1>14, <1>15, <1>16 DEF IInv

LEMMA MarkAgainKeeps == ASSUME IInv, NEW w \in {"sweep", "flush"}, MarkAgain(w) PROVE IInv'
<1>1. /\ job[w].do = "retry" /\ job' = [job EXCEPT ![w] = Idle] /\ pos' = [pos EXCEPT ![w] = @ + 1]
      /\ owed' = owed \ {job[w].dev}
      /\ UNCHANGED <<pool, bridged, leaving, table, attrKey, cfgKey, unmarked, cut, unsure>>
  BY DEF MarkAgain, homes, flash
<1>2. w \in Writer /\ job[w] # Idle /\ Idle \in Jobs
  BY <1>1 DEF Writer, Idle, Jobs
<1>3. job[w].dev \in Device /\ job[w].dev \in Known /\ Sound(job[w].dev)
  BY <1>1, <1>2, JobOf
<1> PICK d \in Device : d = job[w].dev
  BY <1>3
<1>4. /\ \A S : Doing(d, S) <=> job[w].do \in S
      /\ \A S : ~Doing(d, S)'
      /\ \A x, S : x # d => ~Doing(x, S) /\ ~Doing(x, S)'
  BY <1>1, <1>2, StepOf
<1>5. /\ entry \in [Device -> Entries] /\ table \in Seq(Device) /\ IsInjective(table)
      /\ attrKey \in [Device -> Val \cup {NoKey}] /\ cfgKey \in [Device -> Cfg \cup {NoKey}]
  BY DEF IInv, Types
<1> DEFINE f == Remarked(entry[d])
<1>6. f \in Entries /\ f.dirty /\ f.crc = NoKey /\ f.cfg = entry[d].cfg /\ f.cfgCrc = entry[d].cfgCrc
  <2>1. entry[d] \in Entries
    BY <1>5
  <2> QED
    BY <2>1 DEF Remarked, Entries
<1>7. entry' = [entry EXCEPT ![d] = f]
  BY <1>3 DEF MarkAgain
<1> HIDE DEF f
<1>8. entry' \in [Device -> Entries] /\ entry'[d] = f /\ \A x \in Device \ {d} : entry'[x] = entry[x]
  <2> HIDE DEF Entries
  <2> QED
    BY <1>5, <1>6, <1>7
<1>9. Known' = Known /\ LoadedCfg(d)' = LoadedCfg(d)
  BY <1>1 DEF Known, LoadedCfg
<1>10. \A x \in Device \ {d} : Sound(x)'
  BY <1>1, <1>4, <1>8, <1>9, Elsewhere DEF IInv
<1>11. Sound(d)'
  <2>1. Booked(d) /\ InForce(d)
    BY <1>3 DEF Sound
  <2>2. Booked(d)'
    BY <1>1, <1>4, <1>6, <1>8, <2>1 DEF Booked
  <2>3. Clean(d)'
    BY <1>6, <1>8 DEF Clean
  <2>4. InForce(d)'
    BY <1>1, <1>4, <1>6, <1>8, <1>9, <2>1 DEF InForce
  <2> QED
    BY <1>3, <1>9, <2>2, <2>3, <2>4 DEF Sound
<1>12. job' \in [Writer -> Jobs] /\ OneWriter' /\ Writers' /\ \A x \in Writer : job'[x] # Idle => InWrite(x)'
  BY <1>1, <1>2, Alone
<1>13. pos' \in Places
  BY <1>1, Advance
<1>14. Types'
  BY <1>1, <1>5, <1>8, <1>12, <1>13 DEF Types, SetTypes, IInv
<1>15. Owing'
  <2>1. w = "flush" => table[pos.flush] = d
    BY <1>1 DEF IInv, Owing
  <2>2. \A x \in owed' : Ahead(x)'
    BY <1>1, <2>1, AheadStill DEF IInv, Owing
  <2>3. \A x \in owed' : x \in Device /\ x # d /\ entry[x].dirty
    BY <1>1, <1>4 DEF IInv, Owing, Types, SetTypes
  <2>4. \A x \in owed' : entry'[x].dirty
    BY <1>8, <2>3
  <2>5. job'["flush"] = Idle
    BY <1>1, <1>2, Handover DEF Writer
  <2> QED
    BY <2>2, <2>4, <2>5 DEF Owing, Idle
<1> QED
  BY <1>10, <1>11, <1>12, <1>14, <1>15 DEF IInv

-----------------------------------------------------------------------------
\* The API.

LEMMA Quiet ==
    ASSUME IInv, FlashOrder, NEW d \in Device
    PROVE  /\ d \in cut \cup unmarked \/ entry[d].dirty \/ entry[d].val = LoadedVal(d)
           /\ entry[d].crc # NoKey => attrKey[d] = entry[d].crc
           /\ entry[d].cfgCrc # NoKey => cfgKey[d] = entry[d].cfgCrc \/ d \in unsure
<1>1. Sound(d) /\ \A S : ~Doing(d, S)
  BY NoneDoing DEF IInv
<1>2. d \in cut \cup unmarked \/ entry[d].dirty \/ entry[d].val = LoadedVal(d)
  <2>1. CASE d \in Known
    BY <1>1, <2>1 DEF Sound, Clean
  <2>2. CASE d \notin Known
    <3>1. entry[d].val = Empty /\ (d \in cut \/ attrKey[d] = NoKey)
      BY <1>1, <2>2 DEF Sound, Absent, Fresh
    <3> QED
      BY <3>1 DEF LoadedVal
  <2> QED
    BY <2>1, <2>2
<1> QED
  BY <1>1, <1>2 DEF Sound, Booked

LEMMA SetKeeps ==
    ASSUME IInv, FlashOrder, NEW t \in Task, NEW d \in Device, NEW e \in Entries, Same(entry[d], e),
           e.dirty \/ e.val = entry[d].val, table' = Appended(d), Set(t, d, e)
    PROVE  IInv'
<1>1. PICK c \in Cfg : /\ entry' = [entry EXCEPT ![d] = [e EXCEPT !.cfg = c]] /\ job' = Prepared(t, d, c)
                       /\ UNCHANGED <<pool, bridged, leaving, attrKey, cfgKey, pos, unmarked, cut, unsure, owed>>
  BY DEF Set, homes, flash, past
<1>2. /\ entry \in [Device -> Entries] /\ table \in Seq(Device) /\ IsInjective(table) /\ job \in [Writer -> Jobs]
      /\ attrKey \in [Device -> Val \cup {NoKey}] /\ cfgKey \in [Device -> Cfg \cup {NoKey}] /\ pos \in Places
  BY DEF IInv, Types
<1> DEFINE f == [e EXCEPT !.cfg = c]
<1>3. /\ f \in Entries /\ f.cfg = c /\ f.crc = entry[d].crc /\ f.cfgCrc = entry[d].cfgCrc
      /\ entry[d].dirty => f.dirty /\ f.dirty = e.dirty
      /\ f.dirty \/ f.val = entry[d].val
  BY DEF Entries, Same
<1>4. entry' = [entry EXCEPT ![d] = f]
  BY <1>1
<1> HIDE DEF f
<1>5. entry' \in [Device -> Entries] /\ entry'[d] = f /\ \A x \in Device \ {d} : entry'[x] = entry[x]
  <2> HIDE DEF Entries
  <2> QED
    BY <1>2, <1>3, <1>4
<1>6. /\ table' \in Seq(Device) /\ IsInjective(table') /\ Known' = Known \cup {d}
      /\ Len(table) <= Len(table') /\ Len(table) \in Nat /\ Len(table') \in Nat
      /\ \A i \in 1..Len(table) : table'[i] = table[i]
  BY AppendedTable
<1>7. \A x, S : ~Doing(x, S)
  BY NoneDoing
<1>8. \A x \in Device \ {d} : Sound(x)'
  BY <1>1, <1>5, <1>6, <1>7, Elsewhere DEF IInv
<1>9. LoadedVal(d)' = LoadedVal(d) /\ LoadedCfg(d)' = LoadedCfg(d)
  BY <1>1 DEF LoadedVal, LoadedCfg
<1>10. Booked(d)' /\ Clean(d)'
  <2>1. Booked(d)'
    BY <1>1, <1>3, <1>5, Quiet DEF Booked
  <2>2. Clean(d)'
    BY <1>1, <1>3, <1>5, <1>9, Quiet DEF Clean
  <2> QED
    BY <2>1, <2>2
<1>11. \A x \in owed : Ahead(x)' /\ entry'[x].dirty
  <2>1. \A x \in owed : Ahead(x) /\ entry[x].dirty /\ x \in Device
    BY <1>7 DEF IInv, Owing, Types, SetTypes
  <2>2. \A x : Ahead(x) => Ahead(x)'
    BY <1>1, <1>6 DEF Ahead
  <2> QED
    BY <1>3, <1>5, <2>1, <2>2
<1>12. \A x \in Writer : job[x] = Idle
  BY DEF FlashOrder
<1>13. CASE entry[d].cfgCrc = c
  <2>1. job' = job
    BY <1>1, <1>13 DEF Prepared
  <2>2. InForce(d)'
    <3>1. cfgKey[d] = c \/ d \in unsure
      BY <1>13, Quiet
    <3>2. cfgKey[d] = c => LoadedCfg(d) = c
      BY DEF LoadedCfg
    <3> QED
      BY <1>1, <1>3, <1>5, <1>9, <3>1, <3>2 DEF InForce
  <2>3. Sound(d)'
    BY <1>6, <1>10, <2>2 DEF Sound
  <2>4. OneWriter' /\ Writers' /\ \A x \in Writer : job'[x] # Idle => InWrite(x)'
    BY <1>12, <2>1 DEF OneWriter, Writers, Erases, Idle
  <2>5. Owing'
    BY <1>1, <1>11, <1>12, <2>1 DEF Owing, Writer, Idle
  <2>6. Types'
    BY <1>1, <1>2, <1>5, <1>6, <2>1 DEF Types, SetTypes, IInv
  <2> QED
    BY <1>8, <2>3, <2>4, <2>5, <2>6 DEF IInv
<1>14. CASE entry[d].cfgCrc # c
  <2> DEFINE j == [do |-> "config", dev |-> d, blob |-> c]
  <2>1. job' = [job EXCEPT ![t] = j] /\ t \in Writer
    BY <1>1, <1>14 DEF Prepared, Writer
  <2>2. j \in Jobs /\ j # Idle /\ j.do = "config" /\ j.dev = d /\ j.blob = c
    BY DEF Jobs, Idle
  <2> HIDE DEF j
  <2>3. \A x, S : Doing(x, S)' <=> j # Idle /\ j.dev = x /\ j.do \in S
    BY <2>1, <2>2, Handover
  <2>4. InForce(d)'
    BY <2>2, <2>3 DEF InForce
  <2>5. Sound(d)'
    BY <1>6, <1>10, <2>4 DEF Sound
  <2>6. job'[t] = j
    BY <1>2, <2>1
  <2>7. InWrite(t)' /\ ~Erases(t)'
    BY <1>3, <1>5, <2>2, <2>6 DEF InWrite, Erases
  <2>8. job' \in [Writer -> Jobs] /\ OneWriter' /\ Writers' /\ \A x \in Writer : job'[x] # Idle => InWrite(x)'
    BY <1>6, <2>1, <2>2, <2>7, Alone
  <2>9. job'["flush"].do \notin {"attrs", "retry"}
    <3>1. job'["flush"] = j \/ job'["flush"] = Idle
      BY <1>2, <1>12, <2>1 DEF Writer
    <3> QED
      BY <2>2, <3>1 DEF Idle
  <2>10. Owing'
    BY <1>1, <1>11, <2>9 DEF Owing
  <2>11. Types'
    BY <1>1, <1>2, <1>5, <1>6, <2>8 DEF Types, SetTypes, IInv
  <2> QED
    BY <1>8, <2>5, <2>8, <2>10, <2>11 DEF IInv
<1> QED
  BY <1>13, <1>14

LEMMA SettersKeep ==
    ASSUME IInv, NEW t \in Task, NEW d \in Device, SetConfig(t, d) \/ SetDebounce(t, d) \/ SetThrottle(t, d) \/ SetTimeout(t, d)
    PROVE  IInv'
<1>1. entry[d] \in Entries /\ Same(entry[d], entry[d])
  BY DEF IInv, Types, Same
<1>2. \A e \in Released(entry[d]) :
         /\ e \in Entries /\ Same(entry[d], e) /\ (e.dirty \/ e.val = entry[d].val)
         /\ Forced(e) \in Entries /\ Same(entry[d], Forced(e)) /\ (Forced(e).dirty \/ Forced(e).val = entry[d].val)
  <2> SUFFICES ASSUME NEW e \in Released(entry[d])
               PROVE  /\ e \in Entries /\ Same(entry[d], e) /\ (e.dirty \/ e.val = entry[d].val)
                      /\ Forced(e) \in Entries /\ Same(entry[d], Forced(e))
                      /\ Forced(e).dirty \/ Forced(e).val = entry[d].val
    OBVIOUS
  <2>1. e \in Entries /\ Same(entry[d], e) /\ (e.dirty \/ e.val = entry[d].val)
    BY <1>1, Changes
  <2>2. /\ Forced(e) \in Entries /\ Forced(e).dirty = e.dirty /\ Forced(e).val = e.val /\ Forced(e).crc = e.crc
        /\ Forced(e).cfg = e.cfg /\ Forced(e).cfgCrc = e.cfgCrc
    BY <2>1 DEF Forced, Entries
  <2> QED
    BY <2>1, <2>2 DEF Same
<1>3. CASE SetConfig(t, d)
  BY <1>2, <1>3, SetKeeps DEF SetConfig
<1>4. CASE SetDebounce(t, d)
  BY <1>2, <1>4, SetKeeps DEF SetDebounce
<1>5. CASE SetThrottle(t, d)
  BY <1>1, <1>5, SetKeeps DEF SetThrottle
<1>6. CASE SetTimeout(t, d)
  BY <1>1, <1>6, SetKeeps, KnownTable DEF SetTimeout
<1> QED
  BY <1>3, <1>4, <1>5, <1>6

\* A task's step with the job of d, in which nothing of another device changes.
LEMMA StepKeeps ==
    ASSUME IInv, NEW t \in Task, job[t].do \in {"config", "book", "clear", "forget", "forgetConfig"},
           NEW d \in Device, d = job[t].dev, NEW k \in Jobs, job' = [job EXCEPT ![t] = k],
           k # Idle => k.dev = d /\ k.do \notin {"attrs", "retry"} /\ InWrite(t)' /\ (d \in Known \/ Erases(t)'),
           UNCHANGED <<table, pos, owed>>, Types',
           entry'[d].dirty = entry[d].dirty,
           \A x \in Device \ {d} :
              /\ entry'[x] = entry[x] /\ attrKey'[x] = attrKey[x] /\ cfgKey'[x] = cfgKey[x]
              /\ (x \in cut' <=> x \in cut) /\ (x \in unmarked' <=> x \in unmarked) /\ (x \in unsure' <=> x \in unsure),
           Sound(d)'
    PROVE  IInv'
<1>1. t \in Writer /\ job[t] # Idle
  BY DEF Writer, Idle
<1>2. /\ \A S : Doing(d, S) <=> job[t].do \in S
      /\ \A x, S : x # d => ~Doing(x, S) /\ ~Doing(x, S)'
  <2>1. k # Idle => k.dev = d
    OBVIOUS
  <2> QED
    BY <1>1, <2>1, StepOf
<1>3. Known' = Known
  BY DEF Known
<1>4. \A x \in Device \ {d} : Sound(x)'
  BY <1>2, <1>3, Elsewhere DEF IInv
<1>5. OneWriter' /\ Writers' /\ \A x \in Writer : job'[x] # Idle => InWrite(x)'
  BY <1>1, <1>3, Alone
<1>6. Owing'
  <2>1. \A x \in owed : Ahead(x) /\ entry[x].dirty /\ x \in Device
    BY <1>2 DEF IInv, Owing, Types, SetTypes
  <2>2. \A x \in owed : Ahead(x)' /\ entry'[x].dirty
    BY <2>1 DEF Ahead
  <2>3. job'["flush"].do \notin {"attrs", "retry"}
    <3>1. "flush" \in Writer
      BY DEF Writer
    <3>2. CASE t = "flush"
      <4>1. job'["flush"] = k
        BY <1>1, <3>2, Handover
      <4> QED
        BY <4>1 DEF Idle
    <3>3. CASE t # "flush"
      <4>1. job'["flush"] = Idle
        BY <1>1, <3>1, <3>3, Handover
      <4> QED
        BY <4>1 DEF Idle
    <3> QED
      BY <3>2, <3>3
  <2> QED
    BY <2>2, <2>3 DEF Owing
<1> QED
  BY <1>4, <1>5, <1>6 DEF IInv

\* The types, of a step of a task that leaves the table.
LEMMA StepTypes ==
    ASSUME IInv, NEW t \in Task, NEW k \in Jobs, job' = [job EXCEPT ![t] = k],
           UNCHANGED <<pool, bridged, leaving, table, pos, owed>>,
           entry' \in [Device -> Entries], attrKey' \in [Device -> Val \cup {NoKey}], cfgKey' \in [Device -> Cfg \cup {NoKey}],
           unmarked' \in SUBSET Device, cut' \in SUBSET Device, unsure' \in SUBSET Device
    PROVE  Types'
<1>1. job' \in [Writer -> Jobs] /\ pos' \in Places /\ table' \in Seq(Device) /\ IsInjective(table')
  BY DEF IInv, Types
<1> QED
  BY <1>1 DEF IInv, Types, SetTypes

LEMMA SaveConfigKeeps == ASSUME IInv, NEW t \in Task, SaveConfig(t) PROVE IInv'
<1>1. /\ job[t].do = "config" /\ job' = [job EXCEPT ![t].do = "book"]
      /\ cfgKey' = [cfgKey EXCEPT ![job[t].dev] = job[t].blob] /\ unsure' = unsure \ {job[t].dev}
      /\ UNCHANGED <<pool, bridged, leaving, table, entry, attrKey, pos, unmarked, cut, owed>>
  BY DEF SaveConfig, homes
<1>2. t \in Writer /\ job[t] # Idle
  BY <1>1 DEF Writer, Idle
<1>3. /\ job[t].dev \in Device /\ job[t].blob \in Cfg /\ job[t].dev \in Known /\ Sound(job[t].dev) /\ job[t] \in Jobs
      /\ entry[job[t].dev].cfg = job[t].blob
  BY <1>1, <1>2, JobOf DEF InWrite
<1> PICK d \in Device : d = job[t].dev
  BY <1>3
<1> DEFINE j == [job[t] EXCEPT !.do = "book"]
<1>4. job' = [job EXCEPT ![t] = j] /\ j \in Jobs /\ j # Idle /\ j.do = "book" /\ j.dev = d /\ j.blob = job[t].blob
  <2>1. job[t] \in [do : {"config", "book"}, dev : Device, blob : Cfg]
    BY <1>1, <1>3 DEF Jobs, Idle
  <2>2. j \in [do : {"config", "book"}, dev : Device, blob : Cfg] /\ j.do = "book" /\ j.dev = d /\ j.blob = job[t].blob
    BY <2>1
  <2>3. j \in Jobs /\ j # Idle
    BY <2>2 DEF Jobs, Idle
  <2> QED
    BY <1>1, <2>2, <2>3
<1> PICK k \in Jobs : k = j
  BY <1>4
<1>5. job' = [job EXCEPT ![t] = k] /\ k # Idle /\ k.do = "book" /\ k.dev = d /\ k.blob = job[t].blob
  BY <1>4
<1> HIDE DEF j
<1>6. /\ \A S : Doing(d, S) <=> job[t].do \in S
      /\ \A S : Doing(d, S)' <=> k # Idle /\ k.do \in S
  BY <1>2, <1>5, StepOf
<1>7. /\ cfgKey \in [Device -> Cfg \cup {NoKey}] /\ attrKey \in [Device -> Val \cup {NoKey}] /\ entry \in [Device -> Entries]
      /\ unmarked \in SUBSET Device /\ cut \in SUBSET Device /\ unsure \in SUBSET Device /\ job \in [Writer -> Jobs]
  BY DEF IInv, Types, SetTypes
<1>8. cfgKey' \in [Device -> Cfg \cup {NoKey}] /\ cfgKey'[d] = k.blob /\ \A x \in Device \ {d} : cfgKey'[x] = cfgKey[x]
  BY <1>1, <1>3, <1>5, <1>7
<1>9. Types'
  <2>1. /\ UNCHANGED <<pool, bridged, leaving, table, pos, owed>>
        /\ entry' \in [Device -> Entries] /\ attrKey' \in [Device -> Val \cup {NoKey}]
        /\ unmarked' \in SUBSET Device /\ cut' \in SUBSET Device /\ unsure' \in SUBSET Device
    BY <1>1, <1>7
  <2> QED
    BY <1>5, <1>8, <2>1, StepTypes
<1>10. job'[t] = k
  BY <1>2, <1>5, <1>7
<1>11. InWrite(t)'
  BY <1>1, <1>3, <1>5, <1>8, <1>10 DEF InWrite, Erases
<1>12. Sound(d)'
  <2>1. Booked(d) /\ Clean(d)
    BY <1>3 DEF Sound
  <2>2. Doing(d, {"config", "book"})' /\ ~Doing(d, {"attrs", "retry"}) /\ ~Doing(d, {"attrs", "retry", "clear", "forget"})
    BY <1>1, <1>5, <1>6
  <2>3. Booked(d)'
    BY <1>1, <2>1, <2>2 DEF Booked
  <2>4. Clean(d)'
    BY <1>1, <2>1, <2>2 DEF Clean, LoadedVal
  <2>5. LoadedCfg(d)' = k.blob /\ entry'[d].cfg = k.blob
    BY <1>1, <1>3, <1>5, <1>8 DEF LoadedCfg
  <2>6. InForce(d)' /\ Known' = Known
    BY <1>1, <2>5 DEF InForce, Known
  <2> QED
    BY <1>3, <2>3, <2>4, <2>6 DEF Sound
<1>13. /\ UNCHANGED <<table, pos, owed>> /\ entry' = entry /\ attrKey' = attrKey /\ cut' = cut /\ unmarked' = unmarked
       /\ \A x \in Device \ {d} : x \in unsure' <=> x \in unsure
  BY <1>1
<1>14. job[t].do \in {"config", "book", "clear", "forget", "forgetConfig"} /\ k.do \notin {"attrs", "retry"} /\ d \in Known
  BY <1>1, <1>3, <1>5
<1> QED
  BY <1>5, <1>8, <1>9, <1>11, <1>12, <1>13, <1>14, StepKeeps

LEMMA SaveFailsKeeps == ASSUME IInv, NEW t \in Task, SaveFails(t) PROVE IInv'
<1>1. /\ job[t].do = "config" /\ job' = [job EXCEPT ![t] = Idle]
      /\ \E b \in {cfgKey[job[t].dev], job[t].blob} : cfgKey' = [cfgKey EXCEPT ![job[t].dev] = b]
      /\ unsure' = unsure \cup {job[t].dev}
      /\ UNCHANGED <<pool, bridged, leaving, table, entry, attrKey, pos, unmarked, cut, owed>>
  BY DEF SaveFails, homes
<1>2. t \in Writer /\ job[t] # Idle /\ Idle \in Jobs
  BY <1>1 DEF Writer, Idle, Jobs
<1>3. job[t].dev \in Device /\ job[t].blob \in Cfg /\ job[t].dev \in Known /\ Sound(job[t].dev)
  BY <1>1, <1>2, JobOf
<1> PICK d \in Device : d = job[t].dev
  BY <1>3
<1>4. /\ \A S : Doing(d, S) <=> job[t].do \in S
  BY <1>1, <1>2, StepOf
<1>5. /\ cfgKey \in [Device -> Cfg \cup {NoKey}] /\ attrKey \in [Device -> Val \cup {NoKey}] /\ entry \in [Device -> Entries]
      /\ unmarked \in SUBSET Device /\ cut \in SUBSET Device /\ unsure \in SUBSET Device
  BY DEF IInv, Types, SetTypes
<1>6. cfgKey' \in [Device -> Cfg \cup {NoKey}] /\ \A x \in Device \ {d} : cfgKey'[x] = cfgKey[x]
  <2>1. PICK b \in {cfgKey[d], job[t].blob} : cfgKey' = [cfgKey EXCEPT ![d] = b]
    BY <1>1
  <2> QED
    BY <1>3, <1>5, <2>1
<1>7. Types'
  BY <1>1, <1>2, <1>5, <1>6, StepTypes
<1>8. Sound(d)'
  <2>1. Booked(d) /\ Clean(d)
    BY <1>3 DEF Sound
  <2>2. ~Doing(d, {"attrs", "retry"}) /\ ~Doing(d, {"attrs", "retry", "clear", "forget"}) /\ d \in unsure'
    BY <1>1, <1>4
  <2>3. Booked(d)'
    BY <1>1, <2>1, <2>2 DEF Booked
  <2>4. Clean(d)'
    BY <1>1, <2>1, <2>2 DEF Clean, LoadedVal
  <2>5. InForce(d)' /\ Known' = Known
    BY <1>1, <2>2 DEF InForce, Known
  <2> QED
    BY <1>3, <2>3, <2>4, <2>5 DEF Sound
<1> QED
  BY <1>1, <1>2, <1>3, <1>6, <1>7, <1>8, StepKeeps

LEMMA BookConfigKeeps == ASSUME IInv, NEW t \in Task, BookConfig(t) PROVE IInv'
<1>1. /\ job[t].do = "book" /\ job' = [job EXCEPT ![t] = Idle]
      /\ UNCHANGED <<pool, bridged, leaving, table, attrKey, cfgKey, pos, unmarked, cut, unsure, owed>>
  BY DEF BookConfig, homes, flash, past
<1>2. t \in Writer /\ job[t] # Idle /\ Idle \in Jobs
  BY <1>1 DEF Writer, Idle, Jobs
<1>3. /\ job[t].dev \in Device /\ job[t].blob \in Cfg /\ job[t].dev \in Known /\ Sound(job[t].dev)
      /\ entry[job[t].dev].cfg = job[t].blob /\ cfgKey[job[t].dev] = job[t].blob
  BY <1>1, <1>2, JobOf DEF InWrite
<1> PICK d \in Device : d = job[t].dev
  BY <1>3
<1>4. /\ \A S : Doing(d, S) <=> job[t].do \in S
  BY <1>1, <1>2, StepOf
<1>5. /\ cfgKey \in [Device -> Cfg \cup {NoKey}] /\ attrKey \in [Device -> Val \cup {NoKey}] /\ entry \in [Device -> Entries]
      /\ unmarked \in SUBSET Device /\ cut \in SUBSET Device /\ unsure \in SUBSET Device
  BY DEF IInv, Types, SetTypes
<1> DEFINE f == [entry[d] EXCEPT !.cfgCrc = job[t].blob]
<1>6. /\ f \in Entries /\ f.dirty = entry[d].dirty /\ f.cfg = entry[d].cfg /\ f.crc = entry[d].crc /\ f.val = entry[d].val
      /\ f.cfgCrc = cfgKey[d]
  <2>1. entry[d] \in Entries
    BY <1>5
  <2> QED
    BY <1>3, <2>1 DEF Entries
<1>7. entry' = [entry EXCEPT ![d] = f]
  BY <1>3 DEF BookConfig
<1> HIDE DEF f
<1>8. entry' \in [Device -> Entries] /\ entry'[d] = f /\ \A x \in Device \ {d} : entry'[x] = entry[x]
  <2> HIDE DEF Entries
  <2> QED
    BY <1>5, <1>6, <1>7
<1>9. Types'
  BY <1>1, <1>2, <1>5, <1>8, StepTypes
<1>10. Sound(d)'
  <2>1. Booked(d) /\ Clean(d)
    BY <1>3 DEF Sound
  <2>2. ~Doing(d, {"attrs", "retry"}) /\ ~Doing(d, {"attrs", "retry", "clear", "forget"})
    BY <1>1, <1>4
  <2>3. Booked(d)'
    BY <1>1, <1>6, <1>8, <2>1, <2>2 DEF Booked
  <2>4. Clean(d)'
    BY <1>1, <1>6, <1>8, <2>1, <2>2 DEF Clean, LoadedVal
  <2>5. LoadedCfg(d)' = entry'[d].cfg
    BY <1>1, <1>3, <1>6, <1>8 DEF LoadedCfg
  <2>6. InForce(d)' /\ Known' = Known
    BY <1>1, <2>5 DEF InForce, Known
  <2> QED
    BY <1>3, <2>3, <2>4, <2>6 DEF Sound
<1> QED
  BY <1>1, <1>2, <1>6, <1>8, <1>9, <1>10, StepKeeps

\* A task takes FlashOrder to erase keys of d.
LEMMA StartKeeps ==
    ASSUME IInv, FlashOrder, NEW t \in Task, NEW d \in Device, NEW k \in Jobs, job' = [job EXCEPT ![t] = k],
           k # Idle, k.dev = d, k.do \notin {"attrs", "retry"}, InWrite(t)', d \in Known' \/ Erases(t)', Types',
           \A x \in Device \ {d} :
              /\ entry'[x] = entry[x] /\ attrKey'[x] = attrKey[x] /\ cfgKey'[x] = cfgKey[x] /\ (x \in Known' <=> x \in Known)
              /\ (x \in cut' <=> x \in cut) /\ (x \in unmarked' <=> x \in unmarked) /\ (x \in unsure' <=> x \in unsure),
           Sound(d)', \A x \in owed' : Ahead(x)' /\ entry'[x].dirty
    PROVE  IInv'
<1>1. t \in Writer /\ \A x, S : ~Doing(x, S)
  BY NoneDoing DEF Writer
<1>2. \A x \in Device \ {d} : Sound(x)'
  BY <1>1, Elsewhere DEF IInv
<1>3. OneWriter' /\ Writers' /\ \A x \in Writer : job'[x] # Idle => InWrite(x)'
  BY <1>1, Alone
<1>4. job'["flush"].do \notin {"attrs", "retry"}
  <2>1. job'["flush"] = k \/ job'["flush"] = Idle
    BY <1>1 DEF IInv, Types, FlashOrder, Writer
  <2> QED
    BY <2>1 DEF Idle
<1>5. Owing'
  BY <1>4 DEF Owing
<1> QED
  BY <1>2, <1>3, <1>5 DEF IInv

LEMMA ClearAttrsKeeps == ASSUME IInv, NEW t \in Task, NEW d \in Device, ClearAttrs(t, d) PROVE IInv'
<1> DEFINE k == [do |-> "clear", dev |-> d]
           f == Cleared(entry[d])
<1>1. /\ FlashOrder /\ d \in Known /\ entry' = [entry EXCEPT ![d] = f] /\ job' = [job EXCEPT ![t] = k]
      /\ unmarked' = unmarked \ {d} /\ owed' = owed \ {d}
      /\ UNCHANGED <<pool, bridged, leaving, table, attrKey, cfgKey, pos, cut, unsure>>
  BY DEF ClearAttrs, homes, flash
<1>2. /\ entry \in [Device -> Entries] /\ job \in [Writer -> Jobs] /\ table \in Seq(Device) /\ IsInjective(table)
      /\ attrKey \in [Device -> Val \cup {NoKey}] /\ cfgKey \in [Device -> Cfg \cup {NoKey}] /\ pos \in Places /\ SetTypes
  BY DEF IInv, Types
<1>3. k \in Jobs /\ k # Idle /\ k.dev = d /\ k.do = "clear" /\ t \in Writer
  BY DEF Jobs, Idle, Writer
<1>4. f \in Entries /\ f.val = Empty /\ f.crc = NoKey /\ f.cfg = entry[d].cfg /\ f.cfgCrc = entry[d].cfgCrc
  <2>1. entry[d] \in Entries
    BY <1>2
  <2> QED
    BY <2>1 DEF Cleared, Entries
<1> HIDE DEF k, f
<1>5. entry' \in [Device -> Entries] /\ entry'[d] = f /\ \A x \in Device \ {d} : entry'[x] = entry[x]
  <2> HIDE DEF Entries
  <2> QED
    BY <1>1, <1>2, <1>4
<1>6. job' \in [Writer -> Jobs] /\ job'[t] = k
  BY <1>1, <1>2, <1>3
<1>7. SetTypes' /\ Types'
  BY <1>1, <1>2, <1>5, <1>6 DEF Types, SetTypes
<1>8. Known' = Known /\ Sound(d)
  BY <1>1 DEF Known, IInv
<1>9. InWrite(t)'
  BY <1>3, <1>4, <1>5, <1>6 DEF InWrite, Erases
<1>10. Doing(d, {"attrs", "retry", "clear", "forget"})' /\ \A x, S : ~Doing(x, S)
  <2>1. \A x, S : Doing(x, S)' <=> k # Idle /\ k.dev = x /\ k.do \in S
    BY <1>1, <1>3, Handover
  <2> QED
    BY <1>1, <1>3, <2>1, NoneDoing
<1>11. Sound(d)'
  <2>1. Booked(d)'
    BY <1>1, <1>4, <1>5, Quiet DEF Booked
  <2>2. Clean(d)'
    BY <1>10 DEF Clean
  <2>3. InForce(d)'
    BY <1>1, <1>4, <1>5, <1>8, <1>10 DEF Sound, InForce, LoadedCfg
  <2> QED
    BY <1>1, <1>8, <2>1, <2>2, <2>3 DEF Sound
<1>12. \A x \in owed' : Ahead(x)' /\ entry'[x].dirty
  <2>1. \A x \in owed' : x \in Device \ {d} /\ Ahead(x) /\ entry[x].dirty
    BY <1>1, <1>2, <1>10 DEF IInv, Owing, SetTypes
  <2> QED
    BY <1>1, <1>5, <2>1 DEF Ahead
<1> QED
  BY <1>1, <1>3, <1>5, <1>7, <1>8, <1>9, <1>11, <1>12, StartKeeps

LEMMA RemoveEntryKeeps == ASSUME IInv, NEW t \in Task, NEW d \in Device, RemoveEntry(t, d) PROVE IInv'
<1> DEFINE k == [do |-> "forget", dev |-> d]
<1>1. /\ entry \in [Device -> Entries] /\ job \in [Writer -> Jobs] /\ table \in Seq(Device) /\ IsInjective(table)
      /\ attrKey \in [Device -> Val \cup {NoKey}] /\ cfgKey \in [Device -> Cfg \cup {NoKey}] /\ pos \in Places /\ SetTypes
  BY DEF IInv, Types
<1>2. CASE d \notin Known
  <2>1. /\ UNCHANGED <<pool, bridged, table, entry, attrKey, cfgKey, job, pos, unmarked, cut, unsure, owed>>
        /\ leaving' = leaving \ {d}
    BY <1>2 DEF RemoveEntry, flash
  <2>2. SetTypes' /\ pos' \in Places
    BY <1>1, <2>1 DEF SetTypes
  <2> QED
    BY <2>1, <2>2, OwingSame, Still
<1>3. CASE d \in Known
  <2>1. /\ FlashOrder /\ leaving' = leaving \ {d} /\ table' = Shifted(d) /\ entry' = [entry EXCEPT ![d] = Fresh]
        /\ job' = [job EXCEPT ![t] = k] /\ unmarked' = unmarked \ {d} /\ owed' = owed \ ({d} \cup MovedPast(d))
        /\ unsure' = unsure \ {d} /\ UNCHANGED <<pool, bridged, attrKey, cfgKey, pos, cut>>
    BY <1>3 DEF RemoveEntry, flash
  <2>2. k \in Jobs /\ k # Idle /\ k.dev = d /\ k.do = "forget" /\ t \in Writer
    BY DEF Jobs, Idle, Writer
  <2>3. Fresh \in Entries
    BY DEF Fresh, Entries
  <2> HIDE DEF k
  <2>4. entry' \in [Device -> Entries] /\ entry'[d] = Fresh /\ \A x \in Device \ {d} : entry'[x] = entry[x]
    <3> HIDE DEF Entries
    <3> QED
      BY <1>1, <2>1, <2>3
  <2>5. job' \in [Writer -> Jobs] /\ job'[t] = k
    BY <1>1, <2>1, <2>2
  <2>6. /\ table' \in Seq(Device) /\ IsInjective(table') /\ Known' = Known \ {d}
        /\ \A x \in Device : Ahead(x) /\ x # d /\ x \notin MovedPast(d) => Ahead(x)'
    <3>1. pos.flush \in Nat
      BY <1>1 DEF Places
    <3>2. /\ Shifted(d) \in Seq(Device) /\ IsInjective(Shifted(d)) /\ ToSet(Shifted(d)) = Known \ {d}
          /\ \A x \in Device, n \in Nat :
                (\E i \in 1..Len(table) : n <= i /\ table[i] = x) /\ x # d
                /\ ~(\E m \in 1..(Len(table) - 1) : table[m] = d /\ m < n /\ x = Last(table))
                => \E i \in 1..Len(Shifted(d)) : n <= i /\ Shifted(d)[i] = x
      BY <1>1, <1>3, TableShifted
    <3>3. Known' = Known \ {d}
      BY <2>1, <3>2 DEF Known
    <3>4. ASSUME NEW x \in Device, Ahead(x), x # d, x \notin MovedPast(d) PROVE Ahead(x)'
      <4>1. ~(\E m \in 1..(Len(table) - 1) : table[m] = d /\ m < pos.flush /\ x = Last(table))
        BY <3>4 DEF MovedPast
      <4>2. \E i \in 1..Len(table) : pos.flush <= i /\ table[i] = x
        BY <3>4 DEF Ahead
      <4>3. \E i \in 1..Len(Shifted(d)) : pos.flush <= i /\ Shifted(d)[i] = x
        BY <3>1, <3>2, <3>4, <4>1, <4>2
      <4> QED
        BY <2>1, <4>3 DEF Ahead
    <3> QED
      BY <2>1, <3>2, <3>3, <3>4
  <2>7. SetTypes' /\ Types'
    BY <1>1, <2>1, <2>4, <2>5, <2>6 DEF Types, SetTypes
  <2>8. InWrite(t)' /\ Erases(t)'
    BY <2>2, <2>4, <2>5 DEF InWrite, Erases, Fresh
  <2>9. Doing(d, {"forget"})' /\ Doing(d, {"forget", "forgetConfig"})' /\ \A x, S : ~Doing(x, S)
    <3>1. \A x, S : Doing(x, S)' <=> k # Idle /\ k.dev = x /\ k.do \in S
      BY <2>1, <2>2, Handover
    <3> QED
      BY <2>1, <2>2, <3>1, NoneDoing
  <2>10. Sound(d)'
    <3>1. Absent(d)'
      BY <2>4, <2>9 DEF Absent, Fresh
    <3>2. Booked(d)'
      BY <2>4 DEF Booked, Fresh
    <3> QED
      BY <2>6, <3>1, <3>2 DEF Sound
  <2>11. \A x \in owed' : Ahead(x)' /\ entry'[x].dirty
    <3>1. \A x \in owed' : x \in Device \ {d} /\ x \notin MovedPast(d) /\ Ahead(x) /\ entry[x].dirty
      BY <1>1, <2>1, <2>9 DEF IInv, Owing, SetTypes
    <3> QED
      BY <2>4, <2>6, <3>1
  <2> QED
    BY <2>1, <2>2, <2>4, <2>6, <2>7, <2>8, <2>10, <2>11, StartKeeps
<1> QED
  BY <1>2, <1>3

\* A key is erased, or not: the next one, or the end.
LEMMA ThenNext ==
    ASSUME IInv, NEW t \in Task, job[t].do \in {"clear", "forget", "forgetConfig"}, NEW n \in {"idle", "forgetConfig"}, Then(t, n)
    PROVE  \E k \in Jobs : /\ job' = [job EXCEPT ![t] = k] /\ job'[t] = k /\ t \in Writer /\ job[t] # Idle
                           /\ n = "idle" => k = Idle
                           /\ n # "idle" => k # Idle /\ k.do = n /\ k.dev = job[t].dev
<1>1. t \in Writer /\ job[t] # Idle /\ job \in [Writer -> Jobs]
  BY DEF Writer, Idle, IInv, Types
<1>2. CASE n = "idle"
  <2>1. job' = [job EXCEPT ![t] = Idle] /\ Idle \in Jobs
    BY <1>2 DEF Then, Jobs
  <2> QED
    BY <1>1, <1>2, <2>1
<1>3. CASE n = "forgetConfig"
  <2> DEFINE j == [job[t] EXCEPT !.do = n]
  <2>1. job' = [job EXCEPT ![t] = j]
    BY <1>3 DEF Then
  <2>2. job[t] \in [do : {"clear", "forget", "forgetConfig"}, dev : Device]
    BY <1>1 DEF Jobs, Idle
  <2>3. j \in [do : {"clear", "forget", "forgetConfig"}, dev : Device] /\ j.do = n /\ j.dev = job[t].dev
    BY <1>3, <2>2
  <2>4. j \in Jobs /\ j # Idle
    BY <2>3 DEF Jobs, Idle
  <2> HIDE DEF j
  <2>5. job'[t] = j
    BY <1>1, <2>1
  <2> QED
    BY <1>1, <1>3, <2>1, <2>3, <2>4, <2>5
<1> QED
  BY <1>2, <1>3

LEMMA EraseAttrsKeeps == ASSUME IInv, NEW t \in Task, EraseAttrs(t) PROVE IInv'
<1>1. /\ job[t].do \in {"clear", "forget"} /\ attrKey' = [attrKey EXCEPT ![job[t].dev] = NoKey]
      /\ UNCHANGED <<pool, bridged, leaving, table, entry, cfgKey, pos, unmarked, cut, unsure, owed>>
  BY DEF EraseAttrs, homes, past
<1>2. PICK k \in Jobs : /\ job' = [job EXCEPT ![t] = k] /\ job'[t] = k /\ t \in Writer /\ job[t] # Idle
                        /\ job[t].do = "clear" => k = Idle
                        /\ job[t].do = "forget" => k # Idle /\ k.do = "forgetConfig" /\ k.dev = job[t].dev
  <2>1. Then(t, NextKey(job[t].do)) /\ NextKey(job[t].do) \in {"idle", "forgetConfig"}
    BY DEF EraseAttrs, NextKey
  <2>2. (job[t].do = "clear" => NextKey(job[t].do) = "idle") /\ (job[t].do = "forget" => NextKey(job[t].do) = "forgetConfig")
    BY DEF NextKey
  <2> QED
    BY <1>1, <2>1, <2>2, ThenNext
<1>3. job[t].dev \in Device /\ InWrite(t) /\ Sound(job[t].dev) /\ (job[t].do = "clear" => job[t].dev \in Known)
  BY <1>1, <1>2, JobOf
<1> PICK d \in Device : d = job[t].dev
  BY <1>3
<1>4. /\ \A S : Doing(d, S) <=> job[t].do \in S
      /\ \A S : Doing(d, S)' <=> k # Idle /\ k.do \in S
  <2>1. k # Idle => k.dev = d
    BY <1>1, <1>2
  <2> QED
    BY <1>2, <2>1, StepOf
<1>5. /\ entry \in [Device -> Entries] /\ attrKey \in [Device -> Val \cup {NoKey}] /\ cfgKey \in [Device -> Cfg \cup {NoKey}]
      /\ unmarked \in SUBSET Device /\ cut \in SUBSET Device /\ unsure \in SUBSET Device
  BY DEF IInv, Types, SetTypes
<1>6. attrKey' \in [Device -> Val \cup {NoKey}] /\ attrKey'[d] = NoKey /\ \A x \in Device \ {d} : attrKey'[x] = attrKey[x]
  BY <1>1, <1>5
<1>7. Types'
  <2>1. /\ UNCHANGED <<pool, bridged, leaving, table, pos, owed>> /\ entry' \in [Device -> Entries]
        /\ cfgKey' \in [Device -> Cfg \cup {NoKey}]
        /\ unmarked' \in SUBSET Device /\ cut' \in SUBSET Device /\ unsure' \in SUBSET Device
    BY <1>1, <1>5
  <2> QED
    BY <1>2, <1>6, <2>1, StepTypes
<1>8. /\ entry[d].crc = NoKey /\ (entry[d].dirty \/ d \in unmarked \/ entry[d].val = Empty)
      /\ job[t].do = "forget" => entry[d].cfg = Default /\ entry[d].cfgCrc = NoKey
  BY <1>1, <1>3 DEF InWrite, Erases
<1>9. k # Idle => k.do = "forgetConfig" /\ k.dev = d /\ job[t].do = "forget"
  BY <1>1, <1>2
<1>10. k # Idle => InWrite(t)' /\ Erases(t)'
  BY <1>1, <1>2, <1>8, <1>9 DEF InWrite, Erases
<1>11. Sound(d)'
  <2>0. Known' = Known /\ LoadedVal(d)' = Empty /\ LoadedCfg(d)' = LoadedCfg(d)
    BY <1>1, <1>6 DEF Known, LoadedVal, LoadedCfg
  <2>1. CASE job[t].do = "clear"
    <3>1. d \in Known /\ Booked(d) /\ InForce(d)
      BY <1>3, <2>1 DEF Sound
    <3>2. ~Doing(d, {"config", "book"}) /\ ~Doing(d, {"config", "forget", "forgetConfig"})
      BY <1>4, <2>1
    <3>3. Booked(d)'
      BY <1>1, <1>8, <3>1, <3>2 DEF Booked
    <3>4. Clean(d)'
      BY <1>1, <1>8, <2>0 DEF Clean
    <3>5. InForce(d)'
      BY <1>1, <2>0, <3>1, <3>2 DEF InForce
    <3> QED
      BY <2>0, <3>1, <3>3, <3>4, <3>5 DEF Sound
  <2>2. CASE job[t].do = "forget"
    <3>1. Doing(d, {"forget", "forgetConfig"})' /\ Doing(d, {"config", "forget", "forgetConfig"})'
      BY <1>2, <1>4, <2>2
    <3>2. d \notin Known => Absent(d)'
      BY <1>1, <1>3, <1>6, <3>1 DEF Sound, Absent, Fresh
    <3>3. Booked(d)'
      BY <1>1, <1>8, <2>2 DEF Booked
    <3>4. Clean(d)'
      BY <1>1, <1>8, <2>0 DEF Clean
    <3>5. InForce(d)'
      BY <3>1 DEF InForce
    <3> QED
      BY <2>0, <3>2, <3>3, <3>4, <3>5 DEF Sound
  <2> QED
    BY <1>1, <2>1, <2>2
<1>12. /\ UNCHANGED <<table, pos, owed>> /\ entry' = entry /\ cfgKey' = cfgKey
       /\ cut' = cut /\ unmarked' = unmarked /\ unsure' = unsure
       /\ job[t].do \in {"config", "book", "clear", "forget", "forgetConfig"} /\ (k # Idle => k.do \notin {"attrs", "retry"})
  BY <1>1, <1>9
<1> QED
  BY <1>2, <1>6, <1>7, <1>9, <1>10, <1>11, <1>12, StepKeeps

LEMMA EraseConfigKeeps == ASSUME IInv, NEW t \in Task, EraseConfig(t) PROVE IInv'
<1>1. /\ job[t].do = "forgetConfig" /\ cfgKey' = [cfgKey EXCEPT ![job[t].dev] = NoKey]
      /\ cut' = IF attrKey[job[t].dev] = NoKey THEN cut \ {job[t].dev} ELSE cut
      /\ UNCHANGED <<pool, bridged, leaving, table, entry, attrKey, pos, unmarked, unsure, owed>>
  BY DEF EraseConfig, homes
<1>2. job' = [job EXCEPT ![t] = Idle] /\ Idle \in Jobs /\ t \in Writer /\ job[t] # Idle
  <2>1. Then(t, "idle")
    BY DEF EraseConfig
  <2> QED
    BY <1>1, <2>1 DEF Then, Jobs, Idle, Writer
<1>3. job[t].dev \in Device /\ InWrite(t) /\ Sound(job[t].dev)
  BY <1>1, <1>2, JobOf
<1> PICK d \in Device : d = job[t].dev
  BY <1>3
<1>4. \A S : Doing(d, S) <=> job[t].do \in S
  BY <1>2, StepOf
<1>5. /\ entry \in [Device -> Entries] /\ attrKey \in [Device -> Val \cup {NoKey}] /\ cfgKey \in [Device -> Cfg \cup {NoKey}]
      /\ unmarked \in SUBSET Device /\ cut \in SUBSET Device /\ unsure \in SUBSET Device
  BY DEF IInv, Types, SetTypes
<1>6. /\ cfgKey' \in [Device -> Cfg \cup {NoKey}] /\ cfgKey'[d] = NoKey
      /\ \A x \in Device \ {d} : cfgKey'[x] = cfgKey[x] /\ (x \in cut' <=> x \in cut)
      /\ cut' \in SUBSET Device
  BY <1>1, <1>5
<1>7. Types'
  BY <1>1, <1>2, <1>5, <1>6, StepTypes
<1>8. /\ entry[d].crc = NoKey /\ (entry[d].dirty \/ d \in unmarked \/ entry[d].val = Empty)
      /\ entry[d].cfg = Default /\ entry[d].cfgCrc = NoKey
  BY <1>1, <1>3 DEF InWrite, Erases
<1>9. d \notin cut' => attrKey[d] = NoKey \/ d \notin cut
  BY <1>1
<1>10. Sound(d)'
  <2>1. Known' = Known /\ LoadedVal(d)' = LoadedVal(d) /\ LoadedCfg(d)' = Default
    BY <1>1, <1>6 DEF Known, LoadedVal, LoadedCfg
  <2>2. ~Doing(d, {"forget"}) /\ ~Doing(d, {"attrs", "retry", "clear", "forget"})
    BY <1>1, <1>4
  <2>3. d \notin Known => Absent(d)'
    <3>1. d \notin Known => entry[d] = Fresh /\ (d \notin cut => attrKey[d] = NoKey)
      BY <1>3, <2>2 DEF Sound, Absent
    <3> QED
      BY <1>1, <1>6, <1>9, <3>1 DEF Absent, Fresh
  <2>4. Booked(d)'
    BY <1>1, <1>8 DEF Booked
  <2>5. d \in Known => Clean(d)'
    <3>1. d \in Known => d \in cut \cup unmarked \/ entry[d].dirty \/ entry[d].val = LoadedVal(d)
      BY <1>3, <2>2 DEF Sound, Clean
    <3>2. attrKey[d] = NoKey => LoadedVal(d) = Empty
      BY DEF LoadedVal
    <3> QED
      BY <1>1, <1>8, <1>9, <2>1, <3>1, <3>2 DEF Clean
  <2>6. InForce(d)'
    BY <1>1, <1>8, <2>1 DEF InForce
  <2> QED
    BY <2>1, <2>3, <2>4, <2>5, <2>6 DEF Sound
<1>11. /\ UNCHANGED <<table, pos, owed>> /\ entry' = entry /\ attrKey' = attrKey /\ unmarked' = unmarked /\ unsure' = unsure
       /\ job[t].do \in {"config", "book", "clear", "forget", "forgetConfig"}
  BY <1>1
<1> QED
  BY <1>2, <1>6, <1>7, <1>10, <1>11, StepKeeps

LEMMA EraseFailsKeeps == ASSUME IInv, NEW t \in Task, EraseFails(t) PROVE IInv'
<1>1. /\ job[t].do \in {"clear", "forget", "forgetConfig"} /\ cut' = cut \cup {job[t].dev}
      /\ UNCHANGED <<pool, bridged, leaving, table, entry, attrKey, cfgKey, pos, unmarked, unsure, owed>>
  BY DEF EraseFails, homes, flash
<1>2. PICK k \in Jobs : /\ job' = [job EXCEPT ![t] = k] /\ job'[t] = k /\ t \in Writer /\ job[t] # Idle
                        /\ k # Idle => k.do = "forgetConfig" /\ k.dev = job[t].dev /\ job[t].do = "forget"
  <2>1. Then(t, NextKey(job[t].do)) /\ NextKey(job[t].do) \in {"idle", "forgetConfig"}
    BY DEF EraseFails, NextKey
  <2>2. NextKey(job[t].do) # "idle" => NextKey(job[t].do) = "forgetConfig" /\ job[t].do = "forget"
    BY DEF NextKey
  <2> QED
    BY <1>1, <2>1, <2>2, ThenNext
<1>3. job[t].dev \in Device /\ InWrite(t) /\ Sound(job[t].dev)
  BY <1>1, <1>2, JobOf
<1> PICK d \in Device : d = job[t].dev
  BY <1>3
<1>4. \A S : Doing(d, S) <=> job[t].do \in S
  <2>1. k # Idle => k.dev = d
    BY <1>2
  <2> QED
    BY <1>2, <2>1, StepOf
<1>5. /\ entry \in [Device -> Entries] /\ attrKey \in [Device -> Val \cup {NoKey}] /\ cfgKey \in [Device -> Cfg \cup {NoKey}]
      /\ unmarked \in SUBSET Device /\ cut \in SUBSET Device /\ unsure \in SUBSET Device
  BY DEF IInv, Types, SetTypes
<1>6. Types'
  <2>1. /\ UNCHANGED <<pool, bridged, leaving, table, pos, owed>> /\ entry' \in [Device -> Entries]
        /\ attrKey' \in [Device -> Val \cup {NoKey}] /\ cfgKey' \in [Device -> Cfg \cup {NoKey}]
        /\ unmarked' \in SUBSET Device /\ cut' \in SUBSET Device /\ unsure' \in SUBSET Device
    BY <1>1, <1>5
  <2> QED
    BY <1>2, <2>1, StepTypes
<1>7. /\ entry[d].crc = NoKey /\ (entry[d].dirty \/ d \in unmarked \/ entry[d].val = Empty)
      /\ job[t].do = "forget" => entry[d].cfg = Default /\ entry[d].cfgCrc = NoKey
      /\ job[t].do = "forgetConfig" => entry[d].cfg = Default /\ entry[d].cfgCrc = NoKey
  BY <1>1, <1>3 DEF InWrite, Erases
<1>8. k # Idle => InWrite(t)' /\ Erases(t)'
  BY <1>1, <1>2, <1>7 DEF InWrite, Erases
<1>9. Sound(d)'
  <2>1. Known' = Known /\ d \in cut'
    BY <1>1 DEF Known
  <2>2. Booked(d)'
    <3>1. Booked(d)
      BY <1>3 DEF Sound
    <3>2. CASE job[t].do = "clear"
      <4>1. ~Doing(d, {"config", "book"})
        BY <1>4, <3>2
      <4> QED
        BY <1>1, <1>7, <3>1, <4>1 DEF Booked
    <3>3. CASE job[t].do # "clear"
      BY <1>1, <1>7, <3>3 DEF Booked
    <3> QED
      BY <3>2, <3>3
  <2>3. Clean(d)' /\ InForce(d)'
    BY <2>1 DEF Clean, InForce
  <2>4. d \notin Known => Absent(d)'
    BY <1>1, <1>3, <2>1 DEF Sound, Absent, Fresh
  <2> QED
    BY <2>1, <2>2, <2>3, <2>4 DEF Sound
<1>10. /\ UNCHANGED <<table, pos, owed>> /\ entry' = entry /\ attrKey' = attrKey /\ cfgKey' = cfgKey /\ unmarked' = unmarked
       /\ unsure' = unsure /\ job[t].do \in {"config", "book", "clear", "forget", "forgetConfig"}
       /\ \A x \in Device \ {d} : x \in cut' <=> x \in cut
       /\ k # Idle => k.dev = d /\ k.do \notin {"attrs", "retry"}
  BY <1>1, <1>2
<1> QED
  BY <1>2, <1>6, <1>8, <1>9, <1>10, StepKeeps

LEMMA RestartKeeps == IInv /\ Restart => IInv'
<1> SUFFICES ASSUME IInv, Restart PROVE IInv'
  OBVIOUS
<1>1. /\ table' = SetToSeq(pool) /\ entry' = [d \in Device |-> IF d \in pool THEN Restored(d) ELSE Fresh]
      /\ job' = [w \in Writer |-> Idle] /\ pos' = [sweep |-> 1, flush |-> 0] /\ bridged' = {} /\ leaving' = {}
      /\ unmarked' = {} /\ owed' = {} /\ unsure' = {} /\ cut' = (cut \cup Known \cup Removing) \ pool
      /\ UNCHANGED <<pool, attrKey, cfgKey>>
  BY DEF Restart, flash
<1>2. /\ attrKey \in [Device -> Val \cup {NoKey}] /\ cfgKey \in [Device -> Cfg \cup {NoKey}] /\ SetTypes
  BY DEF IInv, Types
<1>3. table' \in Seq(Device) /\ IsInjective(table') /\ Known' = pool
  BY <1>1, <1>2, TableLoaded DEF SetTypes, Known
<1>4. Removing \subseteq Device /\ Known \subseteq Device
  <2>1. \A t \in Task : job[t].do \in {"forget", "forgetConfig"} => job[t].dev \in Device
    <3> SUFFICES ASSUME NEW t \in Task, job[t].do \in {"forget", "forgetConfig"} PROVE job[t].dev \in Device
      OBVIOUS
    <3>1. t \in Writer /\ job[t] # Idle
      BY DEF Writer, Idle
    <3> QED
      BY <3>1, JobOf
  <2> QED
    BY <2>1 DEF Removing, Known, ToSet, IInv, Types
<1>5. \A d \in Device : LoadedVal(d) \in Val /\ LoadedCfg(d) \in Cfg
  BY <1>2 DEF LoadedVal, LoadedCfg
<1>6. \A d \in Device : /\ Restored(d) \in Entries /\ Restored(d).val = LoadedVal(d) /\ Restored(d).cfg = LoadedCfg(d)
                        /\ Restored(d).crc # NoKey => attrKey[d] = Restored(d).crc
                        /\ Restored(d).cfgCrc = cfgKey[d]
  BY <1>2, <1>5 DEF Restored, Fresh, Entries
<1>7. Fresh \in Entries
  BY DEF Fresh, Entries
<1>8. /\ entry' \in [Device -> Entries]
      /\ \A d \in pool : entry'[d] = Restored(d)
      /\ \A d \in Device \ pool : entry'[d] = Fresh
  <2> HIDE DEF Entries
  <2> QED
    BY <1>1, <1>2, <1>6, <1>7 DEF SetTypes
<1>9. job' \in [Writer -> Jobs] /\ pos' \in Places /\ \A w \in Writer : job'[w] = Idle
  BY <1>1 DEF Jobs, Places
<1>10. Types'
  <2>1. SetTypes'
    BY <1>1, <1>2, <1>4 DEF SetTypes
  <2> QED
    BY <1>1, <1>2, <1>3, <1>8, <1>9, <2>1 DEF Types
<1>11. ASSUME NEW d \in Device PROVE Sound(d)'
  <2>1. Booked(d)'
    BY <1>1, <1>6, <1>8 DEF Booked, Fresh
  <2>2. CASE d \in pool
    <3>1. Clean(d)' /\ InForce(d)'
      BY <1>1, <1>6, <1>8, <2>2 DEF Clean, InForce, LoadedVal, LoadedCfg
    <3> QED
      BY <1>3, <2>1, <2>2, <3>1 DEF Sound
  <2>3. CASE d \notin pool
    <3>1. d \notin cut' => d \notin cut /\ d \notin Known /\ d \notin Removing
      BY <1>1, <2>3
    <3>2. d \notin Removing => ~Doing(d, {"forget"}) /\ ~Doing(d, {"forget", "forgetConfig"})
      BY DEF Removing, Doing, IInv, Writers, Erases
    <3>3. d \notin cut' => attrKey[d] = NoKey /\ cfgKey[d] = NoKey
      BY <3>1, <3>2 DEF IInv, Sound, Absent
    <3>4. Absent(d)'
      BY <1>1, <1>8, <2>3, <3>3 DEF Absent, Fresh
    <3> QED
      BY <1>3, <2>1, <2>3, <3>4 DEF Sound
  <2> QED
    BY <2>2, <2>3
<1>12. OneWriter' /\ Writers' /\ \A w \in Writer : job'[w] # Idle => InWrite(w)'
  BY <1>9 DEF OneWriter, Writers, Erases, Idle
<1>13. Owing'
  BY <1>1, <1>9 DEF Owing, Idle, Writer
<1> QED
  BY <1>10, <1>11, <1>12, <1>13 DEF IInv

-----------------------------------------------------------------------------
LEMMA InitKeeps == Init => IInv
<1> SUFFICES ASSUME Init PROVE IInv
  OBVIOUS
<1>1. Fresh \in Entries /\ Idle \in Jobs /\ <<>> \in Seq(Device) /\ IsInjective(<<>>) /\ Known = {}
  BY DEF Fresh, Entries, Jobs, Init, IsInjective, Known, ToSet
<1>2. Types
  <2>1. SetTypes
    BY DEF Init, SetTypes
  <2>2. entry \in [Device -> Entries] /\ job \in [Writer -> Jobs]
    <3> HIDE DEF Entries, Jobs
    <3> QED
      BY <1>1 DEF Init
  <2> QED
    BY <1>1, <2>1, <2>2 DEF Init, Types, Places
<1>3. \A w \in Writer : job[w] = Idle
  BY DEF Init
<1>4. OneWriter /\ Writers /\ \A w \in Writer : job[w] # Idle => InWrite(w)
  BY <1>3 DEF OneWriter, Writers, Erases, Idle
<1>5. \A d \in Device : Sound(d)
  BY <1>1 DEF Sound, Absent, Booked, Init, Fresh
<1>6. Owing
  BY <1>3 DEF Owing, Init, Idle, Writer
<1> QED
  BY <1>2, <1>4, <1>5, <1>6 DEF IInv

LEMMA NextKeeps == IInv /\ [Next]_vars => IInv'
<1> SUFFICES ASSUME IInv, [Next]_vars PROVE IInv'
  OBVIOUS
<1>1. CASE UNCHANGED vars
  <2>1. /\ UNCHANGED <<pool, bridged, leaving, table, entry, attrKey, cfgKey, job, pos, unmarked, cut, unsure, owed>>
    BY <1>1 DEF vars, homes, flash, past
  <2>2. SetTypes' /\ pos' \in Places
    BY <2>1 DEF IInv, Types, SetTypes
  <2> QED
    BY <2>1, <2>2, OwingSame, Still
<1>2. ASSUME NEW d \in Device, Change(d) \/ Come(d) \/ Bridged(d) \/ WindowCloses(d) PROVE IInv'
  BY <1>2, ChangeKeeps, ComeKeeps
<1>3. CASE Sweep
  BY <1>3, SweepEntryKeeps, PassesKeep, WriteAttrsKeeps, MarkAgainKeeps DEF Sweep
<1>4. CASE FlushNow
  BY <1>4, PassesKeep
<1>5. CASE Flush
  BY <1>5, FlushEntryKeeps, PassesKeep, WriteAttrsKeeps, MarkAgainKeeps DEF Flush
<1>6. ASSUME NEW t \in Task, Finish(t) PROVE IInv'
  BY <1>6, SaveConfigKeeps, BookConfigKeeps, EraseAttrsKeeps, EraseConfigKeeps DEF Finish
<1>7. ASSUME NEW t \in Task, NEW d \in Device, Call(t, d) PROVE IInv'
  BY <1>7, SettersKeep, ClearAttrsKeeps, RemoveEntryKeeps DEF Call
<1>8. CASE Fail
  BY <1>8, WriteFailsKeeps, SaveFailsKeeps, EraseFailsKeeps DEF Fail
<1>9. CASE Restart
  BY <1>9, RestartKeeps
<1> QED
  BY <1>1, <1>2, <1>3, <1>4, <1>5, <1>6, <1>7, <1>8, <1>9 DEF Next

\* The inductive invariant holds of every state: one writer at a time, whose job agrees with the entry
\* it copied, and a cache that agrees with NVS but for marks, jobs and failures (device_shadow.cpp).
THEOREM Inductive == Spec => []IInv
BY InitKeeps, NextKeeps, PTL DEF Spec

LEMMA Follows == IInv => FlashFollows
<1> SUFFICES ASSUME IInv PROVE FlashFollows
  OBVIOUS
<1>1. TypeOK
  BY DEF IInv, Types, SetTypes, TypeOK, Entries, Places, OneWriter
<1>2. \A d \in Device : Sound(d) /\ (Settled(d) => \A S : ~Doing(d, S))
  BY DEF IInv, Settled, Doing
<1>3. RemovedStaysGone
  BY <1>2 DEF RemovedStaysGone, Sound, Absent
<1>4. Known \subseteq Device
  BY DEF IInv, Types, Known, ToSet
<1>5. CleanMeansSaved
  BY <1>2, <1>4 DEF CleanMeansSaved, Sound, Clean
<1>6. SettingsSaved
  BY <1>2, <1>4 DEF SettingsSaved, Sound, InForce
<1> QED
  BY <1>1, <1>3, <1>5, <1>6 DEF FlashFollows

\* Flash follows the cache, whatever reports come, writes fail, calls overtake one another and power
\* is lost: what is removed is not there, what is clean and what is set is there as the cache has it.
THEOREM FlashFollowed == Spec => []FlashFollows
BY Inductive, Follows, PTL

\* flush_now, when it returns, has written or tried to write every device that was marked when it began,
\* however the table moved under it (device_shadow_flush_now).
THEOREM FlushIsComplete == Spec => FlushNowComplete
<1>1. IInv /\ FlushEnd => owed = {}
  <2> SUFFICES ASSUME IInv, FlushEnd PROVE owed = {}
    OBVIOUS
  <2>1. pos.flush > Len(table) /\ pos.flush \in Nat /\ Len(table) \in Nat
    <3>1. pos \in Places /\ table \in Seq(Device)
      BY DEF IInv, Types
    <3> QED
      BY <3>1 DEF FlushEnd, Places
  <2>2. \A d : ~Ahead(d)
    BY <2>1 DEF Ahead
  <2> QED
    BY <2>2 DEF IInv, Owing
<1>2. IInv /\ [Next]_vars => [FlushEnd => owed = {}]_vars
  BY <1>1
<1> QED
  BY <1>2, Inductive, PTL DEF Spec, FlushNowComplete
=============================================================================
