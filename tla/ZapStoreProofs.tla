--------------------------- MODULE ZapStoreProofs ---------------------------
(***************************************************************************)
(* Theorems about ZapStore, for any devices, slots, tasks and power cuts:  *)
(* one row for each device, the refinement of DeviceMap, and that what the *)
(* store says is saved is in flash.                                        *)
(***************************************************************************)
EXTENDS ZapStore, FiniteSetTheorems, WellFoundedInduction, TLAPS

RowRec   == [dev : Device \cup {0}, ver : Nat]
IndexRec == [built : BOOLEAN, count : 0..Cap, dev : [Slot -> Device \cup {0}]]
DirtyRec == [dev : Device \cup {0}, flushing : BOOLEAN, remarked : BOOLEAN]

FlushedRec    == [do : {"flushed"}, dev : Device, owed : Nat, ok : BOOLEAN]
SlotsRec      == [do : {"slots"}, pass : Nat, at : 1..(DirtyCap + 1), owed : [Device -> Nat], ok : BOOLEAN]
FlushedAllRec == [do : {"flushedAll"}, owed : [Device -> Nat], ok : BOOLEAN]
LastSeenRec   == [do : {"lastSeen"}, owed : [Device -> Nat]]
LookRec       == [do : {"look"}, dev : Device, owed : Nat]
TakeRec       == [do : {"take"}, dev : Device, owed : Nat, slot : Entry]
Back          == {Idle} \cup FlushedRec \cup SlotsRec
SettleRec     == [do : {"settle"}, slot : Entry, ok : BOOLEAN, back : Back]

MarkRec   == [do : {"mark"}, dev : Device, ver : Nat]
SaveRec   == [do : {"save"}, dev : Device, copy : Nat, slot : {0} \cup Entry, back : Back]
DeleteRec == [do : {"delete"}, dev : Device]

\* The calls that have to do with flash, and the others.
Other   == Back \cup FlushedAllRec \cup LastSeenRec \cup LookRec \cup TakeRec \cup SettleRec
CallRec == MarkRec \cup SaveRec \cup DeleteRec \cup Other

OpSave   == [step : {"more", "row"}, task : Task, dev : Device, ver : Nat, pos : Slot]
OpDelete == [step : {"move", "shrink", "drop"}, task : Task, dev : Device, pos : Slot]

FlashOK ==
    /\ row \in [Slot -> RowRec] /\ \A i \in Slot : row[i].dev = 0 => row[i] = Hole
    /\ cnt \in 0..Cap /\ fails \in Nat
    /\ index \in IndexRec
    /\ index.built /\ op.step \in {"none", "more", "row"} => index.count <= cnt

PoolOK ==
    /\ edits \in 0..MaxEdits
    /\ pool \in [Device -> Nat]
    /\ dirty \in [Entry -> DirtyRec] /\ \A i \in Entry : dirty[i].dev = 0 => dirty[i] = Clean

CallOK == call \in [Task -> CallRec]

\* What an operation holds on to: the task that is inside, and the place in flash.
OpOK ==
    \/ op = NoOp
    \/ /\ op \in OpSave /\ call[op.task] \in SaveRec /\ call[op.task].dev = op.dev
       /\ index.built
       /\ IF op.step = "more" THEN op.pos = cnt ELSE op.pos < cnt
    \/ /\ op \in OpDelete /\ call[op.task] \in DeleteRec /\ call[op.task].dev = op.dev
       /\ op.step = "move" => op.pos + 1 < cnt \/ fails > 0
       /\ op.step \in {"move", "shrink"} => cnt > 0
       /\ op.step = "drop" => cnt < Cap

UpOK ==
    /\ up \in {"on", "init", "tail", "load"}
    /\ up # "on" => /\ op = NoOp /\ \A t \in Task : call[t] = Idle
                    /\ \A d \in Device : pool[d] = 0
                    /\ \A i \in Entry : dirty[i] = Clean
    /\ up = "tail" => cnt < Cap

Shape == FlashOK /\ PoolOK /\ CallOK /\ OpOK /\ UpOK

\* No two of the first n rows are one device's.
Unique(n)     == \A i, j \in Slot : i < n /\ j < n /\ row[i].dev = row[j].dev /\ row[i] # Hole => i = j
NoRow(d, n)   == \A i \in Slot : i < n => row[i].dev # d
Agrees(i)     == index.dev[i] = row[i].dev
\* From its count on the index knows of no row, and there is none.
Knows(n)      == index.count <= n /\ \A i \in Slot : i < n => Agrees(i) /\ (i >= index.count => row[i] = Hole)
IndexTrue     == index.built => Knows(cnt)

AtRest ==
    op = NoOp => /\ up # "init" => Unique(cnt)
                 /\ up = "init" => Unique(cnt - 1)
                 /\ IndexTrue

InSave ==
    /\ op.step = "more" => Unique(cnt) /\ NoRow(op.dev, cnt) /\ IndexTrue
    /\ op.step = "row" =>
          \/ row[op.pos].dev = op.dev /\ Unique(cnt) /\ Knows(cnt)
          \/ op.pos = cnt - 1 /\ Unique(cnt - 1) /\ NoRow(op.dev, cnt - 1) /\ Knows(cnt - 1)

InDelete ==
    /\ op.step = "move"   => Unique(cnt) /\ row[op.pos].dev = op.dev /\ op.pos + 1 < cnt
    /\ op.step = "shrink" => Unique(cnt - 1) /\ NoRow(op.dev, cnt - 1)
    /\ op.step = "drop"   => Unique(cnt) /\ NoRow(op.dev, cnt)

Sound  == fails = 0 \/ ~leftover
OneRow == Sound => AtRest /\ InSave /\ InDelete

\* What the tasks of other components have to keep to, however many they are: no two are in the
\* middle of changing or removing the same device.  Where saves are deferred two changes may
\* overlap, and a change may overlap a removal that took the device out of the pool after it.
Apart ==
    \A c, e \in Client, d \in Device : c # e /\ Busy(c, d) /\ Busy(e, d) =>
       deferring /\ (call[c].do = "delete" => call[e].do # "delete" /\ pool[d] = 0)

SameRecord == \A i, j \in Slot : i < cnt /\ j < cnt /\ row[i].dev = row[j].dev => row[i] = row[j]
AboveCount == \A i \in Slot : i >= cnt /\ row[i] # Hole => i = cnt /\ (op.step = "drop" \/ up = "tail")
FreshRow   == op.step = "row" => row[op.pos] = Hole \/ (row[op.pos].dev = op.dev /\ op.pos < index.count)

LastCopied == op.step = "shrink" => \/ row[cnt - 1].dev = op.dev
                                   \/ \E i \in Slot : i < cnt - 1 /\ row[i] = row[cnt - 1]
RowsFaithful == SameRecord /\ AboveCount /\ FreshRow /\ LastCopied
Tidy == ~leftover => RowsFaithful

\* The copy of the record that a task saves is the pool's, as nobody else changes the device.
CopyIsPools ==
    \A c \in Task : /\ call[c].do = "mark"   => c \in Client /\ (deferring \/ call[c].ver = pool[call[c].dev])
                    /\ call[c].do = "save"   => \/ call[c].copy = 0
                                                \/ ~deferring /\ c \in Client /\ call[c].copy = pool[call[c].dev]
                    /\ call[c].do = "delete" => c \in Pairer /\ pool[call[c].dev] = 0

\* The record that n rows r have of a device, and whether a task is deleting it.
RowsIn(r, n, d) == {i \in Slot : i < n /\ r[i].dev = d}
VerIn(r, n, d)  == IF RowsIn(r, n, d) = {} THEN 0 ELSE r[Min(RowsIn(r, n, d))].ver
Leaving(k, d)   == \E t \in Task : k[t] = [do |-> "delete", dev |-> d]

\* The pool no longer has the device: it is being deleted, or was by a delete that a failed write ended.
LetGo(k, p, n, d) == Leaving(k, d) \/ (n > 0 /\ p[d] = 0)

FlashIsBehind ==
    /\ \A d \in Device : pool[d] <= edits /\ VerIn(row, cnt, d) <= edits
    /\ up = "on" => \A d \in Device : LetGo(call, pool, fails, d) \/ VerIn(row, cnt, d) <= pool[d]
    /\ op.step \in {"more", "row"} =>
          /\ op.ver # 0 /\ op.ver <= edits /\ VerIn(row, cnt, op.dev) <= op.ver
          /\ LetGo(call, pool, fails, op.dev) \/ op.ver <= pool[op.dev]
NotAhead == ~leftover => FlashIsBehind

-----------------------------------------------------------------------------
\* Facts about the definitions.

LEMMA MinExists ==
    ASSUME NEW S \in SUBSET Nat, S # {}
    PROVE  Min(S) \in S /\ \A y \in S : Min(S) <= y
<1> DEFINE R == OpToRel(<, Nat)
<1>1. IsWellFoundedOn(R, Nat)
  BY NatLessThanWellFounded
<1>2. \A x, y \in Nat : x < y => <<x, y>> \in R
  BY DEF OpToRel
<1> HIDE DEF R
<1>3. \E x \in S : \A y \in S : ~ (<<y, x>> \in R)
  BY <1>1, WFMin
<1>4. PICK x \in S : \A y \in S : ~ (<<y, x>> \in R)
  BY <1>3
<1>5. \A y \in S : y \in Nat /\ x \in Nat
  OBVIOUS
<1>6. \A y \in S : ~(y < x)
  BY <1>2, <1>4, <1>5
<1>7. \A y \in S : x <= y
  BY <1>5, <1>6
<1>q. QED BY <1>7 DEF Min

LEMMA Numbers == Cap \in Nat /\ Cap > 0 /\ DirtyCap \in Nat /\ MaxEdits \in Nat /\ 0 \notin Device
BY ZapConstants

LEMMA SlotNat == \A i \in Slot : i \in Nat /\ i < Cap
BY Numbers DEF Slot

LEMMA ScannedType ==
    ASSUME FlashOK, NEW b \in BOOLEAN
    PROVE  /\ Scanned(b) \in IndexRec /\ Scanned(b).built = b /\ Scanned(b).count = cnt
           /\ \A i \in Slot : i < cnt => Scanned(b).dev[i] = row[i].dev
<1>1. \A i \in Slot : row[i].dev \in Device \cup {0} /\ index.dev[i] \in Device \cup {0}
  BY DEF FlashOK, RowRec, IndexRec
<1>2. [i \in Slot |-> IF i < cnt THEN row[i].dev ELSE index.dev[i]] \in [Slot -> Device \cup {0}]
  BY <1>1
<1>3. cnt \in 0..Cap
  BY DEF FlashOK
<1>q. QED BY <1>2, <1>3 DEF Scanned, IndexRec

LEMMA IndexType ==
    ASSUME FlashOK, op.step \in {"none", "more", "row"}
    PROVE  /\ Index \in IndexRec /\ Index.built /\ Index.count <= cnt
           /\ [Index EXCEPT !.built = FALSE] \in IndexRec /\ ~[Index EXCEPT !.built = FALSE].built
<1>1. Index \in IndexRec /\ Index.built /\ Index.count <= cnt
  <2>1. CASE index.built
    BY <2>1 DEF Index, FlashOK
  <2>2. CASE ~index.built
    <3>1. cnt \in Nat /\ cnt <= cnt
      BY Numbers DEF FlashOK
    <3>2. Index = Scanned(TRUE)
      BY <2>2 DEF Index
    <3>3. Scanned(TRUE) \in IndexRec /\ Scanned(TRUE).built = TRUE /\ Scanned(TRUE).count = cnt
      BY ScannedType
    <3>q. QED BY <3>1, <3>2, <3>3
  <2>q. QED BY <2>1, <2>2
<1>q. QED BY <1>1 DEF IndexRec

LEMMA AnyIndex ==
    ASSUME FlashOK
    PROVE  Index \in IndexRec /\ [Index EXCEPT !.built = FALSE] \in IndexRec /\ ~[Index EXCEPT !.built = FALSE].built
<1>1. Index \in IndexRec
  BY ScannedType DEF Index, FlashOK
<1>q. QED BY <1>1 DEF IndexRec

LEMMA FoundIs ==
    ASSUME FlashOK, op = NoOp, NEW d
    PROVE  /\ Found(d) # {} => Min(Found(d)) \in Found(d)
           /\ \A i \in Found(d) : i \in Slot /\ i < cnt /\ Index.dev[i] = d
<1>1. Index \in IndexRec /\ Index.count <= cnt
  BY IndexType DEF NoOp
<1>2. \A i \in Found(d) : i \in Slot /\ i \in Nat /\ i < Index.count /\ Index.dev[i] = d
  BY SlotNat DEF Found
<1>3. Index.count \in Nat /\ cnt \in Nat
  BY <1>1, Numbers DEF IndexRec, FlashOK
<1>4. Found(d) # {} => Min(Found(d)) \in Found(d)
  <2>1. Found(d) \in SUBSET Nat
    BY <1>2
  <2>q. QED BY <2>1, MinExists
<1>q. QED BY <1>1, <1>2, <1>3, <1>4

LEMMA DirtyExt ==
    ASSUME NEW a \in DirtyRec, NEW b \in DirtyRec, a.dev = b.dev, a.flushing <=> b.flushing, a.remarked <=> b.remarked
    PROVE  a = b
BY DEF DirtyRec

\* What a call is tells what it does.
LEMMA CallKinds ==
    ASSUME NEW k \in CallRec
    PROVE  /\ k \in MarkRec   <=> k.do = "mark"
           /\ k \in SaveRec   <=> k.do = "save"
           /\ k \in DeleteRec <=> k.do = "delete"
           /\ k \in Other     <=> k.do \notin {"mark", "save", "delete"}
<1>1. \A x \in MarkRec : x.do = "mark"
  BY DEF MarkRec
<1>2. \A x \in SaveRec : x.do = "save"
  BY DEF SaveRec
<1>3. \A x \in DeleteRec : x.do = "delete"
  BY DEF DeleteRec
<1>4. \A x \in Other : x.do \notin {"mark", "save", "delete"}
  BY DEF Other, Back, Idle, FlushedRec, SlotsRec, FlushedAllRec, LastSeenRec, LookRec, TakeRec, SettleRec
<1>q. QED BY <1>1, <1>2, <1>3, <1>4 DEF CallRec

LEMMA SavedCall ==
    ASSUME NEW k \in SaveRec, NEW ok \in BOOLEAN
    PROVE  (IF k.slot = 0 THEN k.back ELSE [do |-> "settle", slot |-> k.slot, ok |-> ok, back |-> k.back]) \in Other
<1>1. k.slot \in {0} \cup Entry /\ k.back \in Back
  BY DEF SaveRec
<1>2. k.slot # 0 => [do |-> "settle", slot |-> k.slot, ok |-> ok, back |-> k.back] \in SettleRec
  BY <1>1 DEF SettleRec
<1>q. QED BY <1>1, <1>2 DEF Other

-----------------------------------------------------------------------------
\* The steps of the table of pending saves: one task goes on, flash and the operation stay.

Quiet(t, k) ==
    /\ call' = [call EXCEPT ![t] = k]
    /\ UNCHANGED <<flash, index, pool, op, up, fails, past>>

DirtyOK == dirty \in [Entry -> DirtyRec] /\ \A i \in Entry : dirty[i].dev = 0 => dirty[i] = Clean

\* A task that is in no operation goes on, flash and the operation stay.
LEMMA CallShape ==
    ASSUME Shape, NEW t \in Task, NEW k \in CallRec, call' = [call EXCEPT ![t] = k], PoolOK', up = "on",
           UNCHANGED <<flash, index, op, up, fails>>, call[t].do \notin {"save", "delete"}
    PROVE  Shape'
<1>1. FlashOK'
  BY DEF Shape, FlashOK, flash
<1>2. CallOK'
  BY DEF Shape, CallOK
<1>3. OpOK'
  <2>1. CASE op = NoOp
    BY <2>1 DEF OpOK
  <2>2. CASE op # NoOp
    <3>1. op.task \in Task /\ call[op.task].do \in {"save", "delete"}
      BY <2>2 DEF Shape, OpOK, OpSave, OpDelete, SaveRec, DeleteRec
    <3>2. call'[op.task] = call[op.task]
      BY <3>1 DEF Shape, CallOK
    <3>q. QED BY <3>2 DEF Shape, OpOK, flash
  <2>q. QED BY <2>1, <2>2
<1>4. UpOK'
  BY DEF UpOK
<1>q. QED BY <1>1, <1>2, <1>3, <1>4 DEF Shape

LEMMA QuietShape ==
    ASSUME Shape, NEW t \in Task, NEW k \in CallRec, Quiet(t, k), DirtyOK', up = "on",
           call[t].do \notin {"save", "delete"}
    PROVE  Shape'
<1>1. PoolOK'
  BY DEF Shape, PoolOK, DirtyOK, Quiet, past
<1>q. QED BY <1>1, CallShape DEF Quiet

\* Each of them is one.
Deferred(t, k) == t \in Task /\ k \in Other \cup {s \in SaveRec : s.copy = 0}

LEMMA ClaimQuiet ==
    ASSUME Shape, NEW f \in Flusher, NEW i \in Entry, NEW back \in Back,
           dirty[i] # Clean, Claimed(f, i, back)
    PROVE  /\ DirtyOK'
           /\ \E k : Deferred(f, k) /\ call' = [call EXCEPT ![f] = k]
<1>1. dirty[i] \in DirtyRec /\ dirty[i].dev # 0 /\ dirty \in [Entry -> DirtyRec]
  BY DEF Shape, PoolOK
<1> DEFINE e == [dirty[i] EXCEPT !.flushing = TRUE, !.remarked = FALSE]
           k == Saving(dirty[i].dev, ReadAtWrite(dirty[i].dev), i, back)
<1>2. e \in DirtyRec /\ e.dev = dirty[i].dev
  BY <1>1 DEF DirtyRec
<1>3. dirty' = [dirty EXCEPT ![i] = e]
  BY <1>1 DEF Claimed
<1> HIDE DEF e
<1>4. DirtyOK'
  BY <1>1, <1>2, <1>3 DEF DirtyOK, Shape, PoolOK
<1>5. k \in SaveRec /\ k.copy = 0
  BY <1>1 DEF Saving, SaveRec, ReadAtWrite, DirtyRec
<1>q. QED BY <1>4, <1>5 DEF Deferred, Claimed, Task

TableStep ==
    \/ \E f \in Tick : \E i \in Entry : Claim(f, i)
    \/ \E f \in Barrier : FlushDevice(f)
    \/ \E f \in Shutdown : FlushNow(f)
    \/ \E f \in Flusher : Flush(f)

LEMMA OwedType == ASSUME Shape, NEW d \in Device PROVE Owed(d) \in Nat
<1>1. pool[d] \in Nat
  BY DEF Shape, PoolOK
<1>q. QED BY <1>1 DEF Owed

LEMMA TableStepQuiet ==
    ASSUME Shape, TableStep
    PROVE  DirtyOK' /\ \E t \in Task, k \in CallRec :
               /\ Quiet(t, k) /\ Deferred(t, k) /\ up = "on" /\ call[t].do \notin {"mark", "save", "delete"}
<1> DEFINE Goal == DirtyOK' /\ \E t \in Task, k \in CallRec :
               /\ Quiet(t, k) /\ Deferred(t, k) /\ up = "on" /\ call[t].do \notin {"mark", "save", "delete"}
<1>0. DirtyOK /\ \A t \in Task : call[t] \in CallRec /\ (call[t] # Idle => up = "on")
  BY DEF Shape, PoolOK, CallOK, UpOK, DirtyOK
<1>a. \A f \in Flusher : f \in Task
  BY DEF Task
<1>b. ASSUME UNCHANGED <<flash, index, pool, op, up, fails, past>>, DirtyOK', NEW f \in Flusher,
             NEW k, Deferred(f, k), call' = [call EXCEPT ![f] = k], up = "on", call[f].do \notin {"mark", "save", "delete"}
      PROVE  Goal
  <2>1. k \in CallRec
    BY <1>b DEF Deferred, CallRec
  <2>q. QED BY <1>a, <1>b, <2>1 DEF Quiet
<1>c. ASSUME NEW f \in Flusher, NEW k \in Other PROVE Deferred(f, k)
  BY <1>a DEF Deferred
<1>d. Idle \in Back /\ Idle.do = "idle"
  BY DEF Back, Idle
<1>e. ASSUME NEW d \in Device, NEW o \in Nat, NEW ok \in BOOLEAN PROVE Flushed(d, o, ok) \in Back
  BY DEF Flushed, Back, FlushedRec
<1> HIDE DEF Goal
<1>1. ASSUME NEW f \in Tick, NEW i \in Entry, Claim(f, i) PROVE Goal
  <2>1. f \in Flusher /\ call[f] = Idle /\ dirty[i] # Clean /\ Claimed(f, i, Idle)
        /\ UNCHANGED <<flash, index, pool, op, up, fails, past>>
    BY <1>1 DEF Claim, Flusher
  <2>2. up = "on"
    BY <2>1 DEF Shape, UpOK
  <2>q. QED BY <1>b, <1>d, <2>1, <2>2, ClaimQuiet
<1>2. ASSUME NEW f \in Barrier, FlushDevice(f) PROVE Goal
  <2>1. PICK d \in Device : call' = [call EXCEPT ![f] = [do |-> "look", dev |-> d, owed |-> Owed(d)]]
    BY <1>2 DEF FlushDevice
  <2>2. f \in Flusher /\ up = "on" /\ call[f] = Idle /\ dirty' = dirty /\ UNCHANGED <<flash, index, pool, op, up, fails, past>>
    BY <1>2 DEF FlushDevice, Flusher
  <2>3. [do |-> "look", dev |-> d, owed |-> Owed(d)] \in Other
    BY OwedType DEF Other, LookRec
  <2>4. DirtyOK'
    BY <1>0, <2>2 DEF DirtyOK
  <2>q. QED BY <1>b, <1>c, <1>d, <2>1, <2>2, <2>3, <2>4
<1>3. ASSUME NEW f \in Shutdown, FlushNow(f) PROVE Goal
  <2>1. /\ call' = [call EXCEPT ![f] = [do |-> "lastSeen", owed |-> [d \in Device |-> Owed(d)]]]
        /\ f \in Flusher /\ up = "on" /\ call[f] = Idle /\ dirty' = dirty /\ UNCHANGED <<flash, index, pool, op, up, fails, past>>
    BY <1>3 DEF FlushNow, Flusher
  <2>2. [d \in Device |-> Owed(d)] \in [Device -> Nat]
    BY OwedType
  <2>3. [do |-> "lastSeen", owed |-> [d \in Device |-> Owed(d)]] \in Other
    BY <2>2 DEF Other, LastSeenRec
  <2>4. DirtyOK'
    BY <1>0, <2>1 DEF DirtyOK
  <2>q. QED BY <1>b, <1>c, <1>d, <2>1, <2>3, <2>4
<1>4. ASSUME NEW f \in Flusher, Flush(f) PROVE Goal
  <2>0. call[f] \in CallRec /\ f \in Task
    BY <1>0, <1>a
  <2>1. CASE Look(f)
    <3> DEFINE d == call[f].dev
               o == call[f].owed
               found == SlotsToWaitFor(d)
               k == CASE found = {} -> Flushed(d, o, TRUE)
                      [] found # {} /\ ~dirty[Min(found)].flushing ->
                            [do |-> "take", dev |-> d, owed |-> o, slot |-> Min(found)]
                      [] OTHER -> Flushed(d, o, FALSE)
    <3>1. /\ call[f].do = "look" /\ dirty' = dirty /\ UNCHANGED <<flash, index, pool, op, up, fails, past>>
          /\ call' = [call EXCEPT ![f] = k]
      BY <2>1 DEF Look
    <3>2. call[f] \in LookRec
      BY <2>0, <3>1 DEF CallRec, Other, Back, MarkRec, SaveRec, DeleteRec, FlushedAllRec, LastSeenRec, TakeRec,
                       SettleRec, Idle, FlushedRec, SlotsRec
    <3>3. d \in Device /\ o \in Nat
      BY <3>2 DEF LookRec
    <3>4. found # {} => Min(found) \in Entry
      <4>1. found \in SUBSET Nat /\ found \subseteq Entry
        BY Numbers DEF SlotsToWaitFor, PendingSlots, Entry
      <4>q. QED BY <4>1, MinExists
    <3> HIDE DEF found, d, o
    <3>5. k \in Other
      <4>1. Flushed(d, o, TRUE) \in Other /\ Flushed(d, o, FALSE) \in Other
        BY <1>e, <3>3 DEF Other
      <4>2. found # {} => [do |-> "take", dev |-> d, owed |-> o, slot |-> Min(found)] \in Other
        BY <3>3, <3>4 DEF Other, TakeRec
      <4>q. QED BY <4>1, <4>2
    <3> HIDE DEF k
    <3>6. DirtyOK' /\ up = "on"
      BY <1>0, <1>d, <2>0, <3>1 DEF DirtyOK
    <3>q. QED BY <1>b, <1>c, <3>1, <3>5, <3>6
  <2>2. CASE Take(f)
    <3> DEFINE e == dirty[call[f].slot]
               d == call[f].dev
               o == call[f].owed
    <3>1. call[f].do = "take" /\ UNCHANGED <<flash, index, pool, op, up, fails, past>> /\ up = "on"
      BY <1>0, <1>d, <2>0, <2>2 DEF Take
    <3>2. call[f] \in TakeRec
      BY <2>0, <3>1 DEF CallRec, Other, Back, MarkRec, SaveRec, DeleteRec, FlushedAllRec, LastSeenRec, LookRec,
                       SettleRec, Idle, FlushedRec, SlotsRec
    <3>3. d \in Device /\ o \in Nat /\ call[f].slot \in Entry
      BY <3>2 DEF TakeRec
    <3>4. CASE dirty' = dirty /\ call' = [call EXCEPT ![f] = [do |-> "look", dev |-> d, owed |-> o]]
      <4>1. [do |-> "look", dev |-> d, owed |-> o] \in Other
        BY <3>3 DEF Other, LookRec
      <4>2. DirtyOK'
        BY <1>0, <3>4 DEF DirtyOK
      <4>q. QED BY <1>b, <1>c, <3>1, <3>4, <4>1, <4>2
    <3>5. CASE dirty' = dirty /\ call' = [call EXCEPT ![f] = Flushed(d, o, TRUE)]
      <4>1. Flushed(d, o, TRUE) \in Other
        BY <1>e, <3>3 DEF Other
      <4>2. DirtyOK'
        BY <1>0, <3>5 DEF DirtyOK
      <4>q. QED BY <1>b, <1>c, <3>1, <3>5, <4>1, <4>2
    <3>6. CASE e.dev = d /\ Claimed(f, call[f].slot, Flushed(d, o, FALSE))
      <4>1. dirty[call[f].slot] # Clean
        BY <3>3, <3>6, Numbers DEF Clean
      <4>2. Flushed(d, o, FALSE) \in Back
        BY <1>e, <3>3
      <4>q. QED BY <1>b, <3>1, <3>3, <3>6, <4>1, <4>2, ClaimQuiet
    <3>q. QED BY <2>2, <3>4, <3>5, <3>6 DEF Take
  <2>3. CASE NextSlot(f)
    <3> DEFINE next == [call[f] EXCEPT !.at = @ + 1]
               i == call[f].at
    <3>1. /\ call[f].do = "slots" /\ i \in Entry /\ UNCHANGED <<flash, index, pool, op, up, fails, past>> /\ up = "on"
      BY <1>0, <1>d, <2>0, <2>3 DEF NextSlot
    <3>2. call[f] \in SlotsRec
      BY <2>0, <3>1 DEF CallRec, Other, Back, MarkRec, SaveRec, DeleteRec, FlushedAllRec, LastSeenRec, LookRec,
                       SettleRec, Idle, FlushedRec, TakeRec
    <3>3. next \in SlotsRec
      <4>1. i + 1 \in 1..(DirtyCap + 1)
        BY <3>1, Numbers DEF Entry
      <4>q. QED BY <3>2, <4>1 DEF SlotsRec
    <3> HIDE DEF next
    <3>4. CASE dirty[i] # Clean /\ Claimed(f, i, next)
      <4>1. next \in Back
        BY <3>3 DEF Back
      <4>q. QED BY <1>b, <3>1, <3>4, <4>1, ClaimQuiet
    <3>5. CASE dirty' = dirty /\ call' = [call EXCEPT ![f] = next]
      <4>1. next \in Other
        BY <3>3 DEF Other, Back
      <4>2. DirtyOK'
        BY <1>0, <3>5 DEF DirtyOK
      <4>q. QED BY <1>b, <1>c, <3>1, <3>5, <4>1, <4>2
    <3>q. QED BY <2>3, <3>4, <3>5 DEF NextSlot, next
  <2>4. CASE Settles(f)
    <3>1. /\ call[f].do = "slots" /\ dirty' = dirty /\ UNCHANGED <<flash, index, pool, op, up, fails, past>> /\ up = "on"
      BY <1>0, <1>d, <2>0, <2>4 DEF Settles
    <3>2. call[f] \in SlotsRec
      BY <2>0, <3>1 DEF CallRec, Other, Back, MarkRec, SaveRec, DeleteRec, FlushedAllRec, LastSeenRec, LookRec,
                       SettleRec, Idle, FlushedRec, TakeRec
    <3>3. PICK b \in BOOLEAN :
              \/ call' = [call EXCEPT ![f] = [do |-> "flushedAll", owed |-> @.owed, ok |-> @.ok /\ b]]
              \/ call' = [call EXCEPT ![f] = Slots(2, @.owed, @.ok /\ b)]
      BY <2>4 DEF Settles
    <3>4. call[f].owed \in [Device -> Nat] /\ (call[f].ok /\ b) \in BOOLEAN
      BY <3>2 DEF SlotsRec
    <3>5. /\ [do |-> "flushedAll", owed |-> call[f].owed, ok |-> call[f].ok /\ b] \in Other
          /\ Slots(2, call[f].owed, call[f].ok /\ b) \in Other
      <4>1. [do |-> "flushedAll", owed |-> call[f].owed, ok |-> call[f].ok /\ b] \in FlushedAllRec
        BY <3>4 DEF FlushedAllRec
      <4>2. Slots(2, call[f].owed, call[f].ok /\ b) \in SlotsRec
        BY <3>4, Numbers DEF Slots, SlotsRec
      <4>q. QED BY <4>1, <4>2 DEF Other, Back
    <3>6. DirtyOK'
      BY <1>0, <3>1 DEF DirtyOK
    <3>7. PICK k \in Other : call' = [call EXCEPT ![f] = k]
      BY <3>3, <3>5
    <3>q. QED BY <1>b, <1>c, <3>1, <3>6, <3>7
  <2>5. CASE FlushReturn(f)
    <3>1. /\ call[f].do \in {"flushed", "flushedAll"} /\ dirty' = dirty /\ UNCHANGED <<flash, index, pool, op, up, fails, past>>
          /\ up = "on" /\ call' = [call EXCEPT ![f] = Idle]
      BY <1>0, <1>d, <2>0, <2>5 DEF FlushReturn
    <3>2. DirtyOK' /\ Idle \in Other
      BY <1>0, <1>d, <3>1 DEF DirtyOK, Other
    <3>q. QED BY <1>b, <1>c, <3>1, <3>2
  <2>6. CASE Settle(f)
    <3> DEFINE i == call[f].slot
               b == call[f].back
               k == IF b.do = "flushed" THEN [b EXCEPT !.ok = call[f].ok] ELSE b
               e == Settled(dirty[i], call[f].ok)
    <3>1. /\ call[f].do = "settle" /\ UNCHANGED <<flash, index, pool, op, up, fails, past>> /\ up = "on"
          /\ call' = [call EXCEPT ![f] = k] /\ dirty' = [dirty EXCEPT ![i] = e]
      BY <1>0, <1>d, <2>0, <2>6 DEF Settle
    <3>2. call[f] \in SettleRec
      BY <2>0, <3>1 DEF CallRec, Other, Back, MarkRec, SaveRec, DeleteRec, FlushedAllRec, LastSeenRec, LookRec,
                       SlotsRec, Idle, FlushedRec, TakeRec
    <3>3. i \in Entry /\ b \in Back /\ call[f].ok \in BOOLEAN
      BY <3>2 DEF SettleRec
    <3>4. k \in Other
      <4>1. b.do = "flushed" => b \in FlushedRec
        BY <3>3 DEF Back, Idle, SlotsRec
      <4>2. b \in FlushedRec => [b EXCEPT !.ok = call[f].ok] \in FlushedRec
        BY <3>3 DEF FlushedRec
      <4>q. QED BY <3>3, <4>1, <4>2 DEF Other, Back
    <3>5. e \in DirtyRec /\ (e.dev = 0 => e = Clean)
      <4>1. dirty[i] \in DirtyRec /\ (dirty[i].dev = 0 => dirty[i] = Clean)
        BY <1>0, <3>3 DEF DirtyOK
      <4>2. Clean \in DirtyRec
        BY DEF Clean, DirtyRec
      <4>3. CASE dirty[i] = Clean
        <5> DEFINE g == [dirty[i] EXCEPT !.flushing = FALSE, !.remarked = FALSE]
        <5>1. g \in DirtyRec /\ g.dev = dirty[i].dev /\ ~g.flushing /\ ~g.remarked
          BY <4>1 DEF DirtyRec
        <5>2. g = Clean
          <6>1. Clean.dev = 0 /\ ~Clean.flushing /\ ~Clean.remarked
            BY DEF Clean
          <6> HIDE DEF g
          <6>q. QED BY <4>2, <4>3, <5>1, <6>1, DirtyExt
        <5>3. e = Clean \/ e = g
          BY DEF Settled
        <5>q. QED BY <4>2, <5>2, <5>3
      <4>4. CASE dirty[i].dev # 0
        <5> DEFINE g == [dirty[i] EXCEPT !.flushing = FALSE, !.remarked = FALSE]
        <5>1. g \in DirtyRec /\ g.dev = dirty[i].dev
          BY <4>1 DEF DirtyRec
        <5>2. e = Clean \/ e = g
          BY DEF Settled
        <5>q. QED BY <4>2, <4>4, <5>1, <5>2
      <4>q. QED BY <4>1, <4>3, <4>4
    <3> HIDE DEF e, k
    <3>6. DirtyOK'
      BY <1>0, <3>1, <3>5 DEF DirtyOK
    <3>q. QED BY <1>b, <1>c, <3>1, <3>4, <3>6
  <2>q. QED BY <1>4, <2>1, <2>2, <2>3, <2>4, <2>5, <2>6 DEF Flush
<1>q. QED BY <1>1, <1>2, <1>3, <1>4 DEF TableStep, Goal

-----------------------------------------------------------------------------
\* Every step keeps the shape.

LEMMA OpKinds ==
    ASSUME Shape
    PROVE  /\ op = NoOp => op.step = "none"
           /\ op # NoOp => up = "on"
           /\ op.step \in {"more", "row"} => op \in OpSave /\ call[op.task] \in SaveRec /\ index.built
           /\ op.step = "more" => op.pos = cnt
           /\ op.step = "row" => op.pos < cnt
           /\ op.step \in {"move", "shrink", "drop"} => op \in OpDelete /\ call[op.task] \in DeleteRec
           /\ op.step \in {"more", "row", "move", "shrink", "drop"} =>
                 op # NoOp /\ op.task \in Task /\ call[op.task].dev = op.dev /\ op.dev \in Device /\ op.pos \in Slot
           /\ op.step \in {"move", "shrink"} => cnt > 0
           /\ op.step = "drop" => cnt < Cap
<1>1. CASE op = NoOp
  BY <1>1 DEF NoOp
<1>2. CASE op \in OpSave /\ op # NoOp
  BY <1>2 DEF Shape, OpOK, UpOK, OpSave, OpDelete
<1>3. CASE op \in OpDelete /\ op # NoOp
  BY <1>3 DEF Shape, OpOK, UpOK, OpSave, OpDelete
<1>q. QED BY <1>1, <1>2, <1>3 DEF Shape, OpOK

LEMMA UpKinds == ASSUME Shape, NEW t \in Task, call[t] # Idle PROVE up = "on"
BY DEF Shape, UpOK

\* A step that ends an operation, or needs none to begin.
LEMMA FreeShape ==
    ASSUME Shape, NEW t \in Task, NEW k \in CallRec, call' = [call EXCEPT ![t] = k], op' = NoOp,
           FlashOK', UNCHANGED <<pool, dirty, edits, up>>, up = "on"
    PROVE  Shape'
<1>1. PoolOK' /\ CallOK' /\ OpOK' /\ UpOK'
  BY DEF Shape, PoolOK, CallOK, OpOK, UpOK
<1>q. QED BY <1>1 DEF Shape

LEMMA SavedShape ==
    ASSUME Shape, NEW t \in Task, NEW ok \in BOOLEAN, call[t].do = "save", Saved(t, ok),
           FlashOK', UNCHANGED <<pool, dirty, edits, up>>
    PROVE  Shape'
<1>1. call[t] \in SaveRec
  BY CallKinds DEF Shape, CallOK
<1> DEFINE k == IF call[t].slot = 0 THEN call[t].back
                ELSE [do |-> "settle", slot |-> call[t].slot, ok |-> ok, back |-> call[t].back]
<1>2. k \in CallRec
  BY <1>1, SavedCall DEF CallRec
<1>3. call' = [call EXCEPT ![t] = k] /\ op' = NoOp
  BY DEF Saved
<1> HIDE DEF k
<1>4. up = "on"
  BY <1>1, UpKinds DEF SaveRec, Idle
<1>q. QED BY <1>2, <1>3, <1>4, FreeShape

LEMMA DeletedShape ==
    ASSUME Shape, NEW t \in Task, NEW ok \in BOOLEAN, call[t].do = "delete", Deleted(t, ok), row' \in [Slot -> RowRec],
           \A i \in Slot : row'[i].dev = 0 => row'[i] = Hole, UNCHANGED cnt, fails' \in Nat,
           UNCHANGED <<pool, dirty, edits, up>>
    PROVE  Shape'
<1>1. Idle \in CallRec /\ call[t] # Idle
  BY DEF Idle, CallRec, Other, Back
<1>2. index' \in IndexRec /\ ~index'.built
  BY AnyIndex DEF Deleted, Shape
<1>3. FlashOK'
  BY <1>2 DEF FlashOK, Shape
<1>q. QED BY <1>1, <1>3, FreeShape, UpKinds DEF Deleted

LEMMA MarkShape == ASSUME Shape, NEW c \in Client, Mark(c) PROVE Shape'
<1>1. c \in Task /\ call[c] \in MarkRec
  BY CallKinds DEF Task, Shape, CallOK, Mark
<1>2. call[c].dev \in Device /\ call[c].ver \in Nat /\ call[c] # Idle
  BY <1>1 DEF MarkRec, Idle
<1>3. up = "on"
  BY <1>1, <1>2, UpKinds
<1>4. Idle \in CallRec
  BY DEF Idle, CallRec, Other, Back
<1>5. CASE MarkSlot(call[c].dev) /\ call' = [call EXCEPT ![c] = Idle]
  <2>1. DirtyOK'
    <3>1. DirtyOK
      BY DEF Shape, PoolOK, DirtyOK
    <3> DEFINE d == call[c].dev
    <3>2. CASE dirty' = [i \in Entry |->
              IF i \in PendingSlots(d) THEN [dirty[i] EXCEPT !.remarked = dirty[i].flushing] ELSE dirty[i]]
      <4> DEFINE g(i) == [dirty[i] EXCEPT !.remarked = dirty[i].flushing]
      <4>1. \A i \in Entry : g(i) \in DirtyRec /\ g(i).dev = dirty[i].dev
        BY <3>1 DEF DirtyOK, DirtyRec
      <4>2. \A i \in PendingSlots(d) : dirty[i].dev # 0
        BY <1>2, Numbers DEF PendingSlots
      <4> HIDE DEF g
      <4>3. \A i \in Entry : dirty'[i] = IF i \in PendingSlots(d) THEN g(i) ELSE dirty[i]
        BY <3>2 DEF g
      <4>4. \A i \in Entry : dirty'[i] \in DirtyRec /\ (dirty'[i].dev = 0 => dirty'[i] = Clean)
        BY <3>1, <4>1, <4>2, <4>3 DEF DirtyOK
      <4>5. dirty' = [i \in Entry |-> dirty'[i]]
        BY <3>2
      <4>6. dirty' \in [Entry -> DirtyRec]
        BY <4>4, <4>5
      <4>q. QED BY <4>4, <4>6 DEF DirtyOK
    <3>3. CASE FreeSlots # {} /\ dirty' = [dirty EXCEPT ![Min(FreeSlots)] = [Clean EXCEPT !.dev = d]]
      <4> DEFINE m == Min(FreeSlots)
                 g == [Clean EXCEPT !.dev = d]
      <4>1. Clean \in DirtyRec
        BY DEF Clean, DirtyRec
      <4>2. d \in Device /\ d # 0
        BY <1>2, Numbers
      <4>3. g \in DirtyRec /\ g.dev # 0
        BY <4>1, <4>2 DEF DirtyRec
      <4> HIDE DEF m, g
      <4>4. dirty' = [dirty EXCEPT ![m] = g]
        BY <3>3 DEF m, g
      <4>q. QED BY <3>1, <4>3, <4>4 DEF DirtyOK
    <3>q. QED BY <1>5, <3>2, <3>3 DEF MarkSlot
  <2>2. Quiet(c, Idle)
    BY <1>5 DEF Mark, Quiet
  <2>3. call[c].do \notin {"save", "delete"}
    BY DEF Mark
  <2>q. QED BY <1>1, <1>3, <1>4, <2>1, <2>2, <2>3, QuietShape
<1>6. CASE UNCHANGED dirty /\ call' = [call EXCEPT ![c] =
              Saving(call[c].dev, IF deferring THEN ReadAtWrite(call[c].dev) ELSE call[c].ver, 0, Idle)]
  <2>1. DirtyOK'
    BY <1>6 DEF Shape, PoolOK, DirtyOK
  <2> DEFINE k == Saving(call[c].dev, IF deferring THEN ReadAtWrite(call[c].dev) ELSE call[c].ver, 0, Idle)
  <2>2. k \in CallRec
    BY <1>2 DEF Saving, ReadAtWrite, CallRec, SaveRec, Back
  <2> HIDE DEF k
  <2>3. call' = [call EXCEPT ![c] = k]
    BY <1>6 DEF k
  <2>4. Quiet(c, k) /\ call[c].do \notin {"save", "delete"}
    BY <2>3 DEF Mark, Quiet
  <2>q. QED BY <1>1, <1>3, <2>1, <2>2, <2>4, QuietShape
<1>q. QED BY <1>5, <1>6 DEF Mark

LEMMA EditShape == ASSUME Shape, NEW c \in Client, Edit(c) PROVE Shape'
<1>1. PICK d \in Device :
         /\ pool' = [pool EXCEPT ![d] = edits']
         /\ call' = [call EXCEPT ![c] = [do |-> "mark", dev |-> d, ver |-> edits']]
  BY DEF Edit
<1>2. /\ c \in Task /\ up = "on" /\ call[c] = Idle /\ edits' = edits + 1 /\ edits < MaxEdits /\ dirty' = dirty
      /\ UNCHANGED <<flash, index, op, up, fails>>
  BY DEF Edit, Task
<1>3. edits' \in 0..MaxEdits
  BY <1>2, Numbers DEF Shape, PoolOK
<1>4. PoolOK'
  BY <1>1, <1>2, <1>3 DEF Shape, PoolOK
<1>5. [do |-> "mark", dev |-> d, ver |-> edits'] \in CallRec
  BY <1>3 DEF CallRec, MarkRec
<1>6. call[c].do \notin {"save", "delete"}
  BY <1>2 DEF Idle
<1>q. QED BY <1>1, <1>2, <1>4, <1>5, <1>6, CallShape

LEMMA RemoveShape == ASSUME Shape, NEW c \in Client, Remove(c) PROVE Shape'
<1>1. PICK d \in Device :
         /\ pool' = [pool EXCEPT ![d] = 0]
         /\ call' = [call EXCEPT ![c] = [do |-> "delete", dev |-> d]]
  BY DEF Remove
<1>2. /\ c \in Task /\ up = "on" /\ call[c] = Idle /\ dirty' = dirty /\ edits' = edits
      /\ UNCHANGED <<flash, index, op, up, fails>>
  BY DEF Remove, Task
<1>4. PoolOK'
  BY <1>1, <1>2 DEF Shape, PoolOK
<1>5. [do |-> "delete", dev |-> d] \in CallRec
  BY DEF CallRec, DeleteRec
<1>6. call[c].do \notin {"save", "delete"}
  BY <1>2 DEF Idle
<1>q. QED BY <1>1, <1>2, <1>4, <1>5, <1>6, CallShape

LEMMA LastSeenShape == ASSUME Shape, NEW f \in Flusher, LastSeen(f) PROVE Shape'
<1>1. /\ f \in Task /\ up = "on" /\ op = NoOp /\ op' = NoOp /\ index' = Index
      /\ UNCHANGED <<flash, pool, dirty, op, up, fails, past>>
  BY DEF LastSeen, Task
<1>2. FlashOK'
  <2>1. Index \in IndexRec /\ Index.count <= cnt
    BY <1>1, IndexType DEF Shape, NoOp
  <2>q. QED BY <1>1, <2>1 DEF Shape, FlashOK, flash
<1>3. PICK k \in CallRec : call' = [call EXCEPT ![f] = k]
  <2>1. CASE UNCHANGED call
    <3>1. call' = [call EXCEPT ![f] = call[f]] /\ call[f] \in CallRec
      BY <1>1, <2>1 DEF Shape, CallOK
    <3>q. QED BY <3>1
  <2>2. CASE call[f].do = "lastSeen" /\ call' = [call EXCEPT ![f] = Slots(1, @.owed, TRUE)]
    <3>1. call[f] \in CallRec
      BY <1>1 DEF Shape, CallOK
    <3>2. call[f] \in LastSeenRec
      BY <2>2, <3>1 DEF CallRec, Other, Back, MarkRec, SaveRec, DeleteRec, FlushedAllRec, LookRec,
                        SettleRec, Idle, FlushedRec, SlotsRec, TakeRec
    <3>3. call[f].owed \in [Device -> Nat]
      BY <3>2 DEF LastSeenRec
    <3>4. Slots(1, call[f].owed, TRUE) \in SlotsRec
      BY <3>3, Numbers DEF Slots, SlotsRec
    <3>5. Slots(1, call[f].owed, TRUE) \in CallRec
      BY <3>4 DEF CallRec, Other, Back
    <3>6. call' = [call EXCEPT ![f] = Slots(1, call[f].owed, TRUE)]
      BY <2>2
    <3>q. QED BY <3>5, <3>6
  <2>q. QED BY <2>1, <2>2 DEF LastSeen
<1>q. QED BY <1>1, <1>2, <1>3, FreeShape DEF past

LEMMA SaveGoneShape == ASSUME Shape, NEW t \in Task, SaveGone(t) PROVE Shape'
<1>1. call[t].do = "save" /\ op = NoOp /\ Saved(t, TRUE) /\ UNCHANGED <<flash, index, pool, dirty, up, fails, past>>
  BY DEF SaveGone, MaySave
<1>2. FlashOK'
  BY <1>1 DEF Shape, FlashOK, flash, Saved
<1>q. QED BY <1>1, <1>2, SavedShape DEF past

LEMMA SaveShutShape == ASSUME Shape, NEW t \in Task, SaveShut(t) PROVE Shape'
<1>1. /\ call[t].do = "save" /\ op = NoOp /\ Saved(t, FALSE) /\ fails' = fails + 1
      /\ UNCHANGED <<flash, index, pool, dirty, up, past>>
  BY DEF SaveShut, MaySave, Fails
<1>2. FlashOK'
  BY <1>1 DEF Shape, FlashOK, flash, Saved
<1>q. QED BY <1>1, <1>2, SavedShape DEF past

\* What a save is about to write.
LEMMA RecordType ==
    ASSUME Shape, NEW t \in Task, call[t].do = "save"
    PROVE  call[t] \in SaveRec /\ call[t].dev \in Device /\ Record(t) \in Nat
<1>1. call[t] \in SaveRec
  BY CallKinds DEF Shape, CallOK
<1>q. QED BY <1>1 DEF SaveRec, Record, Shape, PoolOK

\* The place of a found row, and what the operation holds.
LEMMA FoundSlot ==
    ASSUME Shape, op = NoOp, NEW d, Found(d) # {}
    PROVE  Min(Found(d)) \in Slot /\ Min(Found(d)) < cnt /\ Index.dev[Min(Found(d))] = d
BY FoundIs DEF Shape

LEMMA SaveBeginShape == ASSUME Shape, NEW t \in Task, SaveBegin(t) PROVE Shape'
<1> DEFINE d == call[t].dev
           Write(step, i) == op' = [step |-> step, task |-> t, dev |-> d, ver |-> Record(t), pos |-> i]
<1>1. /\ call[t].do = "save" /\ op = NoOp /\ index' = Index
      /\ UNCHANGED <<flash, pool, dirty, up, fails, past>>
  BY DEF SaveBegin, MaySave
<1>2. call[t] \in SaveRec /\ d \in Device /\ Record(t) \in Nat
  BY <1>1, RecordType
<1>3. Index \in IndexRec /\ Index.built /\ Index.count <= cnt
  BY <1>1, IndexType DEF Shape, NoOp
<1>4. FlashOK'
  BY <1>1, <1>3 DEF Shape, FlashOK, flash
<1>5. up = "on"
  BY <1>2, UpKinds DEF SaveRec, Idle
<1>6. cnt \in 0..Cap
  BY DEF Shape, FlashOK
<1>7. ASSUME NEW step \in {"row", "more"}, NEW i \in Slot, Write(step, i), UNCHANGED call,
             IF step = "more" THEN i = cnt ELSE i < cnt
      PROVE  Shape'
  <2>1. op' \in OpSave /\ op'.step = step /\ op'.task = t /\ op'.dev = d /\ op'.pos = i
    BY <1>2, <1>7 DEF OpSave
  <2> HIDE DEF d
  <2>2. OpOK'
    BY <1>1, <1>2, <1>3, <1>7, <2>1 DEF OpOK, flash, d
  <2>3. PoolOK' /\ CallOK' /\ UpOK'
    BY <1>1, <1>5, <1>7 DEF Shape, PoolOK, CallOK, UpOK, past
  <2>q. QED BY <1>4, <2>2, <2>3 DEF Shape
<1>8. CASE Found(d) # {} /\ Write("row", Min(Found(d))) /\ UNCHANGED call
  <2>1. Min(Found(d)) \in Slot /\ Min(Found(d)) < cnt
    BY <1>1, <1>8, FoundSlot
  <2>q. QED BY <1>7, <1>8, <2>1
<1>9. CASE cnt < Cap /\ Write("more", cnt) /\ UNCHANGED call
  <2>1. cnt \in Slot
    BY <1>6, <1>9, Numbers DEF Slot
  <2>q. QED BY <1>7, <1>9, <2>1
<1>10. CASE Saved(t, FALSE)
  BY <1>1, <1>4, <1>10, SavedShape DEF past
<1>q. QED BY <1>8, <1>9, <1>10 DEF SaveBegin

LEMMA SaveCountShape == ASSUME Shape, NEW t \in Task, SaveCount(t) PROVE Shape'
<1>1. /\ op.step = "more" /\ op.task = t /\ UNCHANGED <<row, index, pool, dirty, up, edits>>
  BY DEF SaveCount, past
<1>2. /\ op \in OpSave /\ op # NoOp /\ call[t] \in SaveRec /\ call[t].dev = op.dev /\ index.built /\ op.pos = cnt /\ op.pos \in Slot
      /\ up = "on"
  BY <1>1, OpKinds
<1>3. cnt \in Nat /\ cnt + 1 \in 0..Cap /\ index.count <= cnt /\ index.count \in Nat /\ cnt < cnt + 1
  <2>1. cnt \in Nat /\ cnt < Cap
    BY <1>2, SlotNat
  <2>2. index.count <= cnt /\ index.count \in Nat
    BY <1>1, <1>2, Numbers DEF Shape, FlashOK, IndexRec
  <2>q. QED BY <2>1, <2>2, Numbers
<1>4. CASE Written /\ cnt' = cnt + 1 /\ op' = [op EXCEPT !.step = "row"] /\ UNCHANGED call
  <2>1. op' \in OpSave /\ op'.step = "row" /\ op'.task = t /\ op'.dev = op.dev /\ op'.pos = op.pos
    BY <1>1, <1>2, <1>4 DEF OpSave
  <2>2. index.count <= cnt'
    BY <1>3, <1>4
  <2>3. FlashOK'
    BY <1>1, <1>3, <1>4, <2>2 DEF Shape, FlashOK, Written
  <2>4. op'.pos < cnt'
    BY <1>2, <1>3, <1>4, <2>1
  <2>5. OpOK'
    BY <1>1, <1>2, <1>4, <2>1, <2>4 DEF OpOK
  <2>6. PoolOK' /\ CallOK' /\ UpOK'
    BY <1>1, <1>2, <1>4 DEF Shape, PoolOK, CallOK, UpOK
  <2>q. QED BY <2>3, <2>5, <2>6 DEF Shape
<1>5. CASE Fails /\ Saved(t, FALSE) /\ UNCHANGED cnt
  <2>1. FlashOK'
    BY <1>1, <1>2, <1>3, <1>5 DEF Shape, FlashOK, Fails, Saved
  <2>q. QED BY <1>1, <1>2, <1>5, <2>1, SavedShape DEF SaveRec
<1>q. QED BY <1>4, <1>5 DEF SaveCount

\* The row and its index entry.
LEMMA RowWritten ==
    ASSUME Shape, op.step = "row",
           row' = [row EXCEPT ![op.pos] = [dev |-> op.dev, ver |-> op.ver]],
           index' = [index EXCEPT !.dev[op.pos] = op.dev, !.count = IF op.pos >= @ THEN op.pos + 1 ELSE @]
    PROVE  /\ row' \in [Slot -> RowRec] /\ op.pos \in Slot
           /\ row'[op.pos].dev = op.dev /\ row'[op.pos].ver = op.ver
           /\ \A i \in Slot : i # op.pos => row'[i] = row[i]
           /\ index' \in IndexRec /\ index'.built
           /\ index'.dev[op.pos] = op.dev
           /\ \A i \in Slot : i # op.pos => index'.dev[i] = index.dev[i]
           /\ index'.count = IF op.pos >= index.count THEN op.pos + 1 ELSE index.count
<1>1. op \in OpSave /\ op.pos \in Slot /\ op.dev \in Device /\ op.ver \in Nat /\ index.built
  BY OpKinds DEF OpSave
<1>2. index \in IndexRec /\ row \in [Slot -> RowRec] /\ op.pos \in Nat /\ op.pos + 1 \in 0..Cap
  <2>1. op.pos \in Nat /\ op.pos < Cap
    BY <1>1, SlotNat
  <2>q. QED BY <2>1, Numbers DEF Shape, FlashOK
<1>3. [dev |-> op.dev, ver |-> op.ver] \in RowRec
  BY <1>1 DEF RowRec
<1> DEFINE dv == [index.dev EXCEPT ![op.pos] = op.dev]
           n  == IF op.pos >= index.count THEN op.pos + 1 ELSE index.count
<1>4. dv \in [Slot -> Device \cup {0}] /\ n \in 0..Cap /\ dv[op.pos] = op.dev /\ \A i \in Slot : i # op.pos => dv[i] = index.dev[i]
  BY <1>1, <1>2 DEF IndexRec
<1>5. index' = [index EXCEPT !.dev = dv, !.count = n]
  BY <1>2 DEF IndexRec
<1> HIDE DEF dv, n
<1>6. index' \in IndexRec /\ index'.built /\ index'.dev = dv /\ index'.count = n
  BY <1>1, <1>2, <1>4, <1>5 DEF IndexRec
<1>q. QED BY <1>1, <1>2, <1>3, <1>4, <1>6 DEF n

LEMMA SaveRowShape == ASSUME Shape, NEW t \in Task, SaveRow(t) PROVE Shape'
<1>1. /\ op.step = "row" /\ op.task = t /\ UNCHANGED <<cnt, pool, dirty, up, edits>>
  BY DEF SaveRow, past
<1>2. /\ op \in OpSave /\ call[t] \in SaveRec /\ index.built /\ op.pos < cnt /\ op.pos \in Slot /\ op.dev \in Device
  BY <1>1, OpKinds
<1>3. cnt \in Nat /\ index.count <= cnt /\ index.count \in Nat /\ op.pos \in Nat
  BY <1>1, <1>2, Numbers, SlotNat DEF Shape, FlashOK, IndexRec
<1>4. CASE /\ Written /\ Saved(t, TRUE)
           /\ row' = [row EXCEPT ![op.pos] = [dev |-> op.dev, ver |-> op.ver]]
           /\ index' = [index EXCEPT !.dev[op.pos] = op.dev, !.count = IF op.pos >= @ THEN op.pos + 1 ELSE @]
  <2>1. /\ row' \in [Slot -> RowRec] /\ index' \in IndexRec
        /\ row'[op.pos].dev = op.dev /\ \A i \in Slot : i # op.pos => row'[i] = row[i]
        /\ index'.count = IF op.pos >= index.count THEN op.pos + 1 ELSE index.count
    BY <1>1, <1>4, RowWritten
  <2>2. index'.count <= cnt
    BY <1>2, <1>3, <2>1
  <2>3. \A i \in Slot : row'[i].dev = 0 => row'[i] = Hole
    BY <1>2, <2>1, Numbers DEF Shape, FlashOK
  <2>4. FlashOK'
    BY <1>1, <1>4, <2>1, <2>2, <2>3 DEF Shape, FlashOK, Written
  <2>q. QED BY <1>1, <1>2, <1>4, <2>4, SavedShape DEF SaveRec
<1>5. CASE Fails /\ Saved(t, FALSE) /\ UNCHANGED <<row, index>>
  <2>1. FlashOK'
    BY <1>1, <1>3, <1>5 DEF Shape, FlashOK, Fails
  <2>q. QED BY <1>1, <1>2, <1>5, <2>1, SavedShape DEF SaveRec
<1>q. QED BY <1>4, <1>5 DEF SaveRow

LEMMA DeleteBeginShape == ASSUME Shape, NEW t \in Task, DeleteBegin(t) PROVE Shape'
<1> DEFINE d == call[t].dev
<1>1. /\ call[t].do = "delete" /\ op = NoOp /\ UNCHANGED <<flash, pool, dirty, up, edits>>
  BY DEF DeleteBegin, past
<1>2. call[t] \in DeleteRec /\ d \in Device
  <2>1. call[t] \in DeleteRec
    BY <1>1, CallKinds DEF Shape, CallOK
  <2>q. QED BY <2>1 DEF DeleteRec
<1>3. CASE fails' \in Nat /\ Deleted(t, FALSE)
  BY <1>1, <1>3, DeletedShape DEF flash, Shape, FlashOK
<1>4. CASE /\ Found(d) # {} /\ Written /\ index' = Index /\ UNCHANGED call
           /\ op' = [step |-> IF Min(Found(d)) = cnt - 1 THEN "shrink" ELSE "move",
                     task |-> t, dev |-> d, pos |-> Min(Found(d))]
  <2> DEFINE p == Min(Found(d))
             s == IF p = cnt - 1 THEN "shrink" ELSE "move"
  <2>1. p \in Slot /\ p < cnt /\ p \in Nat /\ cnt \in Nat
    BY <1>1, <1>4, FoundSlot, SlotNat, Numbers DEF Shape, FlashOK
  <2> HIDE DEF p, d
  <2>2. s \in {"move", "shrink"} /\ (s = "move" => p + 1 < cnt) /\ cnt > 0
    BY <2>1
  <2>3. op' = [step |-> s, task |-> t, dev |-> d, pos |-> p]
    BY <1>4 DEF p, d
  <2> HIDE DEF s
  <2>4. op' \in OpDelete /\ op'.step = s /\ op'.task = t /\ op'.dev = d /\ op'.pos = p
    BY <1>2, <2>1, <2>2, <2>3 DEF OpDelete
  <2>5. Index \in IndexRec /\ Index.count <= cnt
    BY <1>1, IndexType DEF Shape, NoOp
  <2>6. FlashOK'
    BY <1>1, <1>4, <2>5 DEF Shape, FlashOK, flash, Written
  <2>7. OpOK'
    BY <1>1, <1>2, <1>4, <2>2, <2>4 DEF OpOK, flash, d
  <2>8. up = "on"
    BY <1>2, UpKinds DEF DeleteRec, Idle
  <2>9. PoolOK' /\ CallOK' /\ UpOK'
    BY <1>1, <1>4, <2>8 DEF Shape, PoolOK, CallOK, UpOK
  <2>q. QED BY <2>6, <2>7, <2>9 DEF Shape
<1>5. fails' \in Nat \/ ~(Written \/ Fails)
  BY DEF Shape, FlashOK, Written, Fails
<1>q. QED BY <1>3, <1>4, <1>5 DEF DeleteBegin

\* In a delete: what its steps need of the shape.
LEMMA InDeleteKinds ==
    ASSUME Shape, NEW t \in Task, op.step \in {"move", "shrink", "drop"}, op.task = t
    PROVE  /\ op \in OpDelete /\ op # NoOp /\ call[t] \in DeleteRec /\ call[t].do = "delete" /\ call[t].dev = op.dev
           /\ up = "on" /\ op.dev \in Device /\ op.pos \in Slot /\ cnt \in Nat /\ cnt <= Cap
           /\ op.step \in {"move", "shrink"} => cnt > 0 /\ cnt - 1 \in Slot
           /\ op.step = "drop" => cnt \in Slot
           /\ row \in [Slot -> RowRec] /\ \A i \in Slot : row[i].dev = 0 => row[i] = Hole
<1>1. /\ op \in OpDelete /\ op # NoOp /\ call[t] \in DeleteRec /\ call[t].dev = op.dev
      /\ up = "on" /\ op.dev \in Device /\ op.pos \in Slot
      /\ op.step \in {"move", "shrink"} => cnt > 0
      /\ op.step = "drop" => cnt < Cap
  BY OpKinds
<1>2. row \in [Slot -> RowRec] /\ cnt \in 0..Cap /\ \A i \in Slot : row[i].dev = 0 => row[i] = Hole
  BY DEF Shape, FlashOK
<1>q. QED BY <1>1, <1>2, Numbers DEF Slot, DeleteRec

LEMMA TailType ==
    ASSUME row \in [Slot -> RowRec], \A i \in Slot : row[i].dev = 0 => row[i] = Hole, cnt - 1 \in Slot, NEW d
    PROVE  Tail(d) \in RowRec /\ (Tail(d).dev = 0 => Tail(d) = Hole)
<1>1. Hole \in RowRec
  BY DEF Hole, RowRec
<1>q. QED BY <1>1 DEF Tail

LEMMA DeleteMoveShape == ASSUME Shape, NEW t \in Task, DeleteMove(t) PROVE Shape'
<1>1. /\ op.step = "move" /\ op.task = t /\ UNCHANGED <<cnt, pool, dirty, up, edits>>
  BY DEF DeleteMove, past
<1>2. /\ op \in OpDelete /\ op # NoOp /\ call[t] \in DeleteRec /\ call[t].do = "delete" /\ call[t].dev = op.dev
      /\ up = "on" /\ op.pos \in Slot /\ cnt > 0 /\ cnt - 1 \in Slot
      /\ row \in [Slot -> RowRec] /\ \A i \in Slot : row[i].dev = 0 => row[i] = Hole
  BY <1>1, InDeleteKinds
<1>3. CASE Written /\ row' = [row EXCEPT ![op.pos] = Tail(op.dev)] /\ op' = [op EXCEPT !.step = "shrink"] /\ UNCHANGED <<index, call>>
  <2>1. row' \in [Slot -> RowRec] /\ \A i \in Slot : row'[i].dev = 0 => row'[i] = Hole
    BY <1>2, <1>3, TailType
  <2>2. op' \in OpDelete /\ op'.step = "shrink" /\ op'.task = t /\ op'.dev = op.dev
    BY <1>1, <1>2, <1>3 DEF OpDelete
  <2>3. FlashOK'
    BY <1>1, <1>3, <2>1, <2>2 DEF Shape, FlashOK, Written
  <2>4. OpOK'
    BY <1>1, <1>2, <1>3, <2>2 DEF OpOK
  <2>5. PoolOK' /\ CallOK' /\ UpOK'
    BY <1>1, <1>2, <1>3 DEF Shape, PoolOK, CallOK, UpOK
  <2>q. QED BY <2>3, <2>4, <2>5 DEF Shape
<1>4. CASE fails' \in Nat /\ Deleted(t, FALSE) /\ UNCHANGED row
  BY <1>1, <1>2, <1>4, DeletedShape
<1>5. fails' \in Nat \/ ~(Written \/ Fails)
  BY DEF Shape, FlashOK, Written, Fails
<1>q. QED BY <1>3, <1>4, <1>5 DEF DeleteMove

LEMMA DeleteShrinkShape == ASSUME Shape, NEW t \in Task, DeleteShrink(t) PROVE Shape'
<1>1. /\ op.step = "shrink" /\ op.task = t /\ UNCHANGED <<row, pool, dirty, up, edits>>
  BY DEF DeleteShrink, past
<1>2. /\ op \in OpDelete /\ op # NoOp /\ call[t] \in DeleteRec /\ call[t].do = "delete" /\ call[t].dev = op.dev
      /\ up = "on" /\ op.pos \in Slot /\ cnt > 0 /\ cnt \in Nat /\ cnt <= Cap
      /\ row \in [Slot -> RowRec] /\ \A i \in Slot : row[i].dev = 0 => row[i] = Hole
  BY <1>1, InDeleteKinds
<1>3. CASE Written /\ cnt' = cnt - 1 /\ op' = [op EXCEPT !.step = "drop"] /\ UNCHANGED <<index, call>>
  <2>1. op' \in OpDelete /\ op'.step = "drop" /\ op'.task = t /\ op'.dev = op.dev
    BY <1>1, <1>2, <1>3 DEF OpDelete
  <2>2. cnt' \in 0..Cap /\ cnt' < Cap
    BY <1>2, <1>3, Numbers
  <2>3. FlashOK'
    BY <1>1, <1>2, <1>3, <2>1, <2>2 DEF Shape, FlashOK, Written
  <2>4. OpOK'
    BY <1>1, <1>2, <1>3, <2>1, <2>2 DEF OpOK
  <2>5. PoolOK' /\ CallOK' /\ UpOK'
    BY <1>1, <1>2, <1>3 DEF Shape, PoolOK, CallOK, UpOK
  <2>q. QED BY <2>3, <2>4, <2>5 DEF Shape
<1>4. CASE Fails /\ Deleted(t, FALSE) /\ UNCHANGED cnt
  <2>1. fails' \in Nat
    BY <1>4 DEF Shape, FlashOK, Fails
  <2>q. QED BY <1>1, <1>2, <1>4, <2>1, DeletedShape
<1>q. QED BY <1>3, <1>4 DEF DeleteShrink

LEMMA DeleteDropShape == ASSUME Shape, NEW t \in Task, DeleteDrop(t) PROVE Shape'
<1>1. /\ op.step = "drop" /\ op.task = t /\ UNCHANGED <<cnt, pool, dirty, up, edits>>
  BY DEF DeleteDrop, past
<1>2. /\ call[t].do = "delete" /\ cnt \in Slot
      /\ row \in [Slot -> RowRec] /\ \A i \in Slot : row[i].dev = 0 => row[i] = Hole
  BY <1>1, InDeleteKinds
<1>3. Hole \in RowRec
  BY DEF Hole, RowRec
<1>4. fails' \in Nat \/ ~(Written \/ Fails)
  BY DEF Shape, FlashOK, Written, Fails
<1>5. CASE fails' \in Nat /\ Deleted(t, TRUE) /\ row' = [row EXCEPT ![cnt] = Hole]
  <2>1. row' \in [Slot -> RowRec] /\ \A i \in Slot : row'[i].dev = 0 => row'[i] = Hole
    BY <1>2, <1>3, <1>5
  <2>q. QED BY <1>1, <1>2, <1>5, <2>1, DeletedShape
<1>6. CASE fails' \in Nat /\ Deleted(t, FALSE) /\ UNCHANGED row
  BY <1>1, <1>2, <1>6, DeletedShape
<1>q. QED BY <1>4, <1>5, <1>6 DEF DeleteDrop

LEMMA CleanType == Clean \in DirtyRec /\ Idle \in CallRec /\ Hole \in RowRec /\ ColdIndex \in IndexRec /\ ~ColdIndex.built
<1>1. Clean \in DirtyRec /\ Hole \in RowRec
  BY DEF Clean, DirtyRec, Hole, RowRec
<1>2. Idle \in CallRec
  BY DEF Idle, CallRec, Other, Back
<1>3. [i \in Slot |-> 0] \in [Slot -> Device \cup {0}] /\ 0 \in 0..Cap
  BY Numbers
<1>4. ColdIndex \in IndexRec /\ ~ColdIndex.built
  BY <1>3 DEF ColdIndex, IndexRec
<1>q. QED BY <1>1, <1>2, <1>4

LEMMA CutShape == ASSUME Shape, Cut PROVE Shape'
<1>1. FlashOK'
  BY CleanType DEF Cut, Shape, FlashOK, flash
<1>2. PoolOK' /\ CallOK'
  BY CleanType, Numbers DEF Cut, Shape, PoolOK, CallOK
<1>3. OpOK' /\ UpOK'
  BY DEF Cut, OpOK, UpOK
<1>q. QED BY <1>1, <1>2, <1>3 DEF Shape

LEMMA RepairShape == ASSUME Shape, Repair PROVE Shape'
<1>1. /\ up = "init" /\ up' \in {"tail", "load"} /\ UNCHANGED <<row, pool, dirty, call, op, edits>>
      /\ op = NoOp /\ \A t \in Task : call[t] = Idle
      /\ \A d \in Device : pool[d] = 0
      /\ \A i \in Entry : dirty[i] = Clean
  BY DEF Repair, past, Shape, UpOK
<1>2. cnt \in 0..Cap /\ cnt \in Nat
  BY Numbers DEF Shape, FlashOK
<1>3. /\ cnt' \in 0..Cap /\ (up' = "tail" => cnt' < Cap) /\ fails' \in Nat
      /\ index' \in IndexRec /\ (index'.built => index' = index /\ cnt' = cnt)
  <2>1. Scanned(FALSE) \in IndexRec /\ ~Scanned(FALSE).built
    BY ScannedType DEF Shape
  <2>2. CASE cnt < 2 /\ Written /\ up' = "load" /\ UNCHANGED <<cnt, index>>
    BY <1>2, <2>2 DEF Written, Shape, FlashOK
  <2>3. CASE index' = Scanned(FALSE) /\ (Written \/ Fails) /\ up' = "load" /\ UNCHANGED cnt
    <3>1. index' \in IndexRec /\ ~index'.built
      BY <2>1, <2>3
    <3>2. cnt' \in 0..Cap /\ fails' \in Nat /\ up' # "tail"
      BY <1>2, <2>3 DEF Written, Fails, Shape, FlashOK
    <3>q. QED BY <3>1, <3>2
  <2>4. CASE cnt >= 2 /\ index' = Scanned(FALSE) /\ Written /\ cnt' = cnt - 1 /\ up' = "tail"
    <3>1. index' \in IndexRec /\ ~index'.built
      BY <2>1, <2>4
    <3>2. cnt' \in 0..Cap /\ cnt' < Cap /\ fails' \in Nat
      BY <1>2, <2>4, Numbers DEF Written, Shape, FlashOK
    <3>q. QED BY <3>1, <3>2
  <2>q. QED BY <2>2, <2>3, <2>4 DEF Repair
<1>4. FlashOK'
  BY <1>1, <1>3 DEF Shape, FlashOK
<1>5. PoolOK' /\ CallOK'
  BY <1>1 DEF Shape, PoolOK, CallOK
<1>6. OpOK' /\ UpOK'
  BY <1>1, <1>3 DEF OpOK, UpOK
<1>q. QED BY <1>4, <1>5, <1>6 DEF Shape

LEMMA RepairEraseShape == ASSUME Shape, RepairErase PROVE Shape'
<1>1. /\ up = "tail" /\ up' = "load" /\ UNCHANGED <<cnt, index, pool, dirty, call, op, edits>>
      /\ op = NoOp /\ \A t \in Task : call[t] = Idle
      /\ \A d \in Device : pool[d] = 0
      /\ \A i \in Entry : dirty[i] = Clean
  BY DEF RepairErase, past, Shape, UpOK
<1>2. fails' \in Nat /\ row' \in [Slot -> RowRec] /\ \A i \in Slot : row'[i].dev = 0 => row'[i] = Hole
  BY CleanType DEF RepairErase, Shape, FlashOK, Written, Fails
<1>3. FlashOK'
  BY <1>1, <1>2 DEF Shape, FlashOK
<1>4. PoolOK' /\ CallOK' /\ OpOK' /\ UpOK'
  BY <1>1 DEF Shape, PoolOK, CallOK, OpOK, UpOK
<1>q. QED BY <1>3, <1>4 DEF Shape

\* The rows of a device, and its record on flash.
LEMMA RowsAre ==
    ASSUME Shape, NEW d
    PROVE  /\ \A i \in RowsOf(d) : i \in Slot /\ i < cnt /\ row[i].dev = d
           /\ RowsOf(d) # {} => Min(RowsOf(d)) \in RowsOf(d) /\ Durable(d) = row[Min(RowsOf(d))].ver
           /\ RowsOf(d) = {} => Durable(d) = 0
           /\ Durable(d) \in Nat
<1>1. \A i \in RowsOf(d) : i \in Slot /\ i < cnt /\ row[i].dev = d
  BY DEF RowsOf
<1>2. RowsOf(d) # {} => Min(RowsOf(d)) \in RowsOf(d)
  <2>1. RowsOf(d) \in SUBSET Nat
    BY <1>1, SlotNat
  <2>q. QED BY <2>1, MinExists
<1>3. \A i \in Slot : row[i].ver \in Nat
  BY DEF Shape, FlashOK, RowRec
<1>q. QED BY <1>1, <1>2, <1>3 DEF Durable

LEMMA LoadShape == ASSUME Shape, Load PROVE Shape'
<1>1. /\ up = "load" /\ up' = "on" /\ UNCHANGED <<row, cnt, index, dirty, call, op, edits, fails>>
      /\ pool' = [d \in Device |-> Durable(d)] /\ op = NoOp
  BY DEF Load, past, flash, Shape, UpOK
<1>2. pool' \in [Device -> Nat]
  BY <1>1, RowsAre
<1>3. FlashOK' /\ PoolOK' /\ CallOK' /\ OpOK' /\ UpOK'
  BY <1>1, <1>2 DEF Shape, FlashOK, PoolOK, CallOK, OpOK, UpOK
<1>q. QED BY <1>3 DEF Shape

LEMMA InitShape == ASSUME Init PROVE Shape
<1>1. FlashOK
  BY CleanType, Numbers DEF Init, FlashOK, NoOp
<1>2. PoolOK /\ CallOK /\ OpOK /\ UpOK
  BY CleanType, Numbers DEF Init, PoolOK, CallOK, OpOK, UpOK
<1>q. QED BY <1>1, <1>2 DEF Shape

\* The steps of Next, for the lemmas about all of them.
LEMMA NextSteps ==
    ASSUME Next
    PROVE  \/ Cut \/ Repair \/ RepairErase \/ Load
           \/ \E c \in Client : Edit(c) \/ Remove(c) \/ Mark(c)
           \/ TableStep
           \/ \E f \in Flusher : LastSeen(f)
           \/ \E t \in Task : SaveGone(t) \/ SaveShut(t) \/ SaveBegin(t) \/ SaveCount(t) \/ SaveRow(t)
           \/ \E t \in Task : DeleteBegin(t) \/ DeleteMove(t) \/ DeleteShrink(t) \/ DeleteDrop(t)
<1>1. \A c \in Client : c \in Task
  BY DEF Task
<1>q. QED BY <1>1 DEF Next, Boot, Save, Delete, TableStep

LEMMA NextShape == ASSUME Shape, [Next]_vars PROVE Shape'
<1>1. CASE Next
  <2>1. CASE TableStep
    BY <2>1, TableStepQuiet, QuietShape
  <2>q. QED BY <1>1, <2>1, NextSteps, CutShape, RepairShape, RepairEraseShape, LoadShape, EditShape, RemoveShape,
               MarkShape, LastSeenShape, SaveGoneShape, SaveShutShape, SaveBeginShape, SaveCountShape,
               SaveRowShape, DeleteBeginShape, DeleteMoveShape, DeleteShrinkShape, DeleteDropShape
<1>2. CASE UNCHANGED vars
  BY <1>2 DEF vars, flash, past, Shape, FlashOK, PoolOK, CallOK, OpOK, UpOK
<1>q. QED BY <1>1, <1>2

-----------------------------------------------------------------------------
\* One row for each device.

Quintet == <<flash, index, op, up, fails, leftover>>

LEMMA OneRowStays == ASSUME OneRow, UNCHANGED Quintet PROVE OneRow'
BY DEF OneRow, Sound, Quintet, flash, AtRest, InSave, InDelete, Unique, NoRow, Agrees, Knows, IndexTrue

LEMMA FailsCount == ASSUME Shape, Fails PROVE fails' # 0
BY DEF Shape, FlashOK, Fails

\* A step that writes, or changes nothing of the bounds, and one that fails and leaves nothing over.
LEMMA SoundBefore ==
    ASSUME Shape, Sound', Written \/ Fails, leftover' = leftover
    PROVE  Sound /\ (Fails => ~leftover)
<1>1. CASE Written
  BY <1>1, FailsCount DEF Written, Sound
<1>2. CASE Fails
  BY <1>2, FailsCount DEF Sound
<1>q. QED BY <1>1, <1>2

LEMMA HoleIs == ASSUME Shape, NEW i \in Slot PROVE row[i] = Hole <=> row[i].dev = 0
BY DEF Shape, FlashOK, Hole

\* At rest, an index that is built anew is true.
LEMMA IndexFresh ==
    ASSUME Shape, OneRow, Sound, op = NoOp, up # "init"
    PROVE  /\ Unique(cnt) /\ Index.count <= cnt
           /\ \A i \in Slot : i < cnt => Index.dev[i] = row[i].dev /\ (i >= Index.count => row[i] = Hole)
           /\ \A d : d # 0 => Found(d) = {i \in Slot : i < cnt /\ row[i].dev = d}
<1>1. Unique(cnt) /\ IndexTrue /\ cnt \in Nat
  BY Numbers DEF OneRow, AtRest, Shape, FlashOK
<1>2. /\ Index.count <= cnt /\ Index.count \in Nat
      /\ \A i \in Slot : i < cnt => Index.dev[i] = row[i].dev /\ (i >= Index.count => row[i] = Hole)
  <2>1. CASE index.built
    BY <1>1, <2>1, Numbers DEF IndexTrue, Knows, Agrees, Index, Shape, FlashOK, IndexRec
  <2>2. CASE ~index.built
    <3>1. Index.count = cnt /\ \A i \in Slot : i < cnt => Index.dev[i] = row[i].dev
      BY <2>2, ScannedType DEF Index, Shape
    <3>q. QED BY <1>1, <3>1, SlotNat
  <2>q. QED BY <2>1, <2>2
<1>3. ASSUME NEW d, d # 0 PROVE Found(d) = {i \in Slot : i < cnt /\ row[i].dev = d}
  <2>1. \A i \in Slot : i < cnt /\ ~(i < Index.count) => row[i].dev # d
    <3>1. \A i \in Slot : i < cnt /\ ~(i < Index.count) => row[i] = Hole
      BY <1>1, <1>2, SlotNat
    <3>q. QED BY <1>3, <3>1 DEF Hole
  <2>2. \A i \in Slot : i < Index.count => i < cnt
    BY <1>1, <1>2, SlotNat
  <2>q. QED BY <1>2, <2>1, <2>2 DEF Found
<1>q. QED BY <1>1, <1>2, <1>3

LEMMA LastSeenOneRow == ASSUME Shape, OneRow, NEW f \in Flusher, LastSeen(f) PROVE OneRow'
<1> SUFFICES ASSUME Sound' PROVE (AtRest /\ InSave /\ InDelete)'
  BY DEF OneRow
<1>0. Sound
  BY SoundBefore DEF LastSeen, past, Written
<1>1. up = "on" /\ op = NoOp /\ index' = Index /\ UNCHANGED <<row, cnt, op, up>>
  BY DEF LastSeen, flash
<1>2. Unique(cnt)' /\ IndexTrue'
  BY <1>0, <1>1, IndexFresh DEF Unique, IndexTrue, Knows, Agrees
<1>3. op' = NoOp /\ up' = "on"
  BY <1>1
<1>q. QED BY <1>2, <1>3 DEF AtRest, InSave, InDelete, NoOp

LEMMA SaveBeginOneRow == ASSUME Shape, OneRow, NEW t \in Task, SaveBegin(t) PROVE OneRow'
<1> SUFFICES ASSUME Sound' PROVE (AtRest /\ InSave /\ InDelete)'
  BY DEF OneRow
<1> DEFINE d == call[t].dev
           Write(step, i) == op' = [step |-> step, task |-> t, dev |-> d, ver |-> Record(t), pos |-> i]
<1>0. Sound
  BY SoundBefore DEF SaveBegin, past, Written
<1>1. call[t].do = "save" /\ op = NoOp /\ index' = Index /\ UNCHANGED <<row, cnt, up>>
  BY DEF SaveBegin, MaySave, flash
<1>2. up = "on" /\ d # 0
  BY <1>1, RecordType, UpKinds, Numbers DEF SaveRec, Idle
<1>3. /\ Unique(cnt) /\ \A i \in Slot : i < cnt => Index.dev[i] = row[i].dev
      /\ Found(d) = {i \in Slot : i < cnt /\ row[i].dev = d}
  BY <1>0, <1>1, <1>2, IndexFresh
<1>4. Unique(cnt)' /\ IndexTrue' /\ Knows(cnt)'
  BY <1>0, <1>1, <1>2, IndexFresh DEF Unique, IndexTrue, Knows, Agrees
<1>5. CASE Found(d) # {} /\ Write("row", Min(Found(d)))
  <2> DEFINE p == Min(Found(d))
  <2>1. p \in Slot /\ p < cnt
    BY <1>1, <1>5, FoundSlot
  <2>2. Index.dev[p] = d
    BY <1>1, <1>5, FoundSlot
  <2>3. row[p].dev = d
    BY <1>3, <2>1, <2>2
  <2> HIDE DEF p, d
  <2>4. op'.step = "row" /\ op'.pos = p /\ op'.dev = d /\ op' # NoOp
    BY <1>5 DEF NoOp, p, d
  <2>5. row'[op'.pos].dev = op'.dev
    BY <1>1, <2>3, <2>4
  <2>q. QED BY <1>4, <2>4, <2>5 DEF AtRest, InSave, InDelete
<1>6. CASE Found(d) = {} /\ Write("more", cnt)
  <2>1. op'.step = "more" /\ op'.dev = d /\ op' # NoOp
    BY <1>6 DEF NoOp
  <2>2. NoRow(d, cnt)
    BY <1>3, <1>6 DEF NoRow
  <2> HIDE DEF d
  <2>3. NoRow(op.dev, cnt)'
    BY <1>1, <2>1, <2>2 DEF NoRow
  <2>q. QED BY <1>4, <2>1, <2>3 DEF AtRest, InSave, InDelete
<1>7. CASE op' = NoOp
  BY <1>1, <1>2, <1>4, <1>7 DEF AtRest, InSave, InDelete, NoOp
<1>q. QED BY <1>5, <1>6, <1>7 DEF SaveBegin, Saved

LEMMA SaveCountOneRow == ASSUME Shape, OneRow, NEW t \in Task, SaveCount(t) PROVE OneRow'
<1> SUFFICES ASSUME Sound' PROVE (AtRest /\ InSave /\ InDelete)'
  BY DEF OneRow
<1>0. Sound /\ op.step = "more" /\ op.task = t
  BY SoundBefore DEF SaveCount, past
<1>1. op \in OpSave /\ op.pos = cnt /\ op.dev \in Device /\ op.pos \in Slot /\ cnt \in Nat /\ index.built /\ up = "on"
  BY <1>0, OpKinds, Numbers DEF Shape, FlashOK, NoOp
<1>2. Unique(cnt) /\ NoRow(op.dev, cnt) /\ Knows(cnt)
  BY <1>0, <1>1 DEF OneRow, InSave, IndexTrue
<1>3. CASE UNCHANGED <<row, cnt, index, up>> /\ op' = NoOp
  BY <1>1, <1>2, <1>3 DEF AtRest, InSave, InDelete, NoOp, Unique, IndexTrue, Knows, Agrees
<1>4. CASE UNCHANGED <<row, index>> /\ cnt' = cnt + 1 /\ op' = [op EXCEPT !.step = "row"]
  <2>1. op'.step = "row" /\ op'.dev = op.dev /\ op'.pos = cnt /\ op' # NoOp
    BY <1>1, <1>4 DEF OpSave, NoOp
  <2>2. cnt' - 1 = cnt
    BY <1>1, <1>4
  <2>3. Unique(cnt - 1)' /\ NoRow(op.dev, cnt - 1)' /\ (op.pos = cnt - 1)' /\ Knows(cnt - 1)'
    BY <1>2, <1>4, <2>1, <2>2 DEF Unique, NoRow, Knows, Agrees
  <2>q. QED BY <2>1, <2>3 DEF AtRest, InSave, InDelete
<1>q. QED BY <1>3, <1>4 DEF SaveCount, Saved

LEMMA SaveRowOneRow == ASSUME Shape, OneRow, Tidy, NEW t \in Task, SaveRow(t) PROVE OneRow'
<1> SUFFICES ASSUME Sound' PROVE (AtRest /\ InSave /\ InDelete)'
  BY DEF OneRow
<1> DEFINE p == op.pos
<1>0. op.step = "row" /\ op.task = t /\ op' = NoOp /\ UNCHANGED <<cnt, up>>
  BY DEF SaveRow, Saved
<1>1. /\ p \in Slot /\ p < cnt /\ up = "on" /\ op.dev \in Device /\ op.dev # 0 /\ cnt \in Nat /\ p \in Nat /\ index.built
      /\ index.count \in Nat
  BY <1>0, OpKinds, Numbers, SlotNat DEF Shape, FlashOK, NoOp, IndexRec
<1>2. Sound => \/ row[p].dev = op.dev /\ Unique(cnt) /\ Knows(cnt)
               \/ p = cnt - 1 /\ Unique(cnt - 1) /\ NoRow(op.dev, cnt - 1) /\ Knows(cnt - 1)
  BY <1>0 DEF OneRow, InSave
<1>3. \A i \in Slot : row[i] # Hole <=> row[i].dev # 0
  BY HoleIs
<1>4. \A i \in Slot : i < cnt /\ i # cnt - 1 => i < cnt - 1
  BY <1>1, SlotNat
<1>5. CASE Fails /\ UNCHANGED <<row, index>> /\ leftover' = (leftover \/ Ghost(p))
  <2>1. ~leftover /\ ~Ghost(p) /\ Sound
    BY <1>5, FailsCount DEF Sound
  <2>2. row[p] = Hole \/ p < index.count
    BY <1>0, <2>1 DEF Tidy, RowsFaithful, FreshRow
  <2> HIDE DEF p
  <2>3. CASE row[p].dev = op.dev /\ Unique(cnt) /\ Knows(cnt)
    BY <1>0, <1>1, <1>5, <2>3 DEF AtRest, InSave, InDelete, NoOp, Unique, IndexTrue, Knows, Agrees
  <2>4. CASE p = cnt - 1 /\ Unique(cnt - 1) /\ NoRow(op.dev, cnt - 1) /\ Knows(cnt - 1)
    <3>1. row[p] = Hole
      BY <1>1, <2>2, <2>4 DEF Knows
    <3>2. index.count <= p /\ index.dev[p] = 0 /\ row[p].dev = 0
      BY <1>1, <2>1, <2>4, <3>1 DEF Ghost, Knows, Hole
    <3>3. Unique(cnt) /\ Knows(cnt)
      <4>1. Unique(cnt)
        BY <1>3, <1>4, <2>4, <3>1, <3>2 DEF Unique
      <4>2. ASSUME NEW i \in Slot, i < cnt PROVE Agrees(i) /\ (i >= index.count => row[i] = Hole)
        BY <1>4, <2>4, <3>1, <3>2, <4>2 DEF Knows, Agrees
      <4>3. index.count <= cnt
        BY <1>1, <3>2
      <4>q. QED BY <4>1, <4>2, <4>3 DEF Knows
    <3>q. QED BY <1>0, <1>1, <1>5, <3>3 DEF AtRest, InSave, InDelete, NoOp, Unique, IndexTrue, Knows, Agrees
  <2>q. QED BY <1>2, <2>1, <2>3, <2>4
<1>6. CASE Written /\ leftover' = leftover
            /\ row' = [row EXCEPT ![p] = [dev |-> op.dev, ver |-> op.ver]]
            /\ index' = [index EXCEPT !.dev[p] = op.dev, !.count = IF p >= @ THEN p + 1 ELSE @]
  <2>1. Sound
    BY <1>6, SoundBefore
  <2>2. /\ row'[p].dev = op.dev /\ \A i \in Slot : i # p => row'[i] = row[i]
        /\ index'.dev[p] = op.dev /\ \A i \in Slot : i # p => index'.dev[i] = index.dev[i]
        /\ index'.count = IF p >= index.count THEN p + 1 ELSE index.count
    BY <1>0, <1>6, RowWritten
  <2> HIDE DEF p
  <2>3. CASE row[p].dev = op.dev /\ Unique(cnt) /\ Knows(cnt)
    <3>1. p < index.count
      BY <1>1, <1>3, <2>3 DEF Knows
    <3>2. index'.count = index.count
      BY <1>1, <2>2, <3>1
    <3>3. Knows(cnt)'
      <4>1. ASSUME NEW i \in Slot, i < cnt PROVE index'.dev[i] = row'[i].dev /\ (i >= index'.count => row'[i] = Hole)
        <5>1. CASE i = p
          BY <1>1, <2>2, <3>1, <3>2, <5>1, SlotNat
        <5>2. CASE i # p
          BY <2>2, <2>3, <3>2, <4>1, <5>2 DEF Knows, Agrees
        <5>q. QED BY <5>1, <5>2
      <4>q. QED BY <1>0, <2>3, <3>2, <4>1 DEF Knows, Agrees
    <3>4. ASSUME NEW i \in Slot, NEW j \in Slot, i < cnt, j < cnt, row'[i].dev = row'[j].dev, row'[i] # Hole PROVE i = j
      <4>1. row[i].dev = row[j].dev
        BY <2>2, <2>3, <3>4
      <4>2. row[i] # Hole
        BY <1>1, <1>3, <2>2, <2>3, <3>4
      <4>q. QED BY <2>3, <3>4, <4>1, <4>2 DEF Unique
    <3>5. Unique(cnt)'
      BY <1>0, <3>4 DEF Unique
    <3>q. QED BY <1>0, <1>1, <3>3, <3>5 DEF AtRest, InSave, InDelete, NoOp, IndexTrue
  <2>4. CASE p = cnt - 1 /\ Unique(cnt - 1) /\ NoRow(op.dev, cnt - 1) /\ Knows(cnt - 1)
    <3>1. index'.count = cnt
      BY <1>1, <2>2, <2>4 DEF Knows
    <3>2. Knows(cnt)'
      BY <1>0, <1>1, <1>4, <2>2, <2>4, <3>1, SlotNat DEF Knows, Agrees
    <3>3. ASSUME NEW i \in Slot, NEW j \in Slot, i < cnt, j < cnt, row'[i].dev = row'[j].dev, row'[i] # Hole PROVE i = j
      <4>1. \A k \in Slot : k < cnt /\ k # p => row'[k].dev # op.dev
        BY <1>4, <2>2, <2>4 DEF NoRow
      <4>2. CASE i = p \/ j = p
        BY <2>2, <3>3, <4>1, <4>2
      <4>3. CASE i # p /\ j # p
        BY <1>4, <2>2, <2>4, <3>3, <4>3 DEF Unique
      <4>q. QED BY <4>2, <4>3
    <3>4. Unique(cnt)'
      BY <1>0, <3>3 DEF Unique
    <3>q. QED BY <1>0, <1>1, <3>2, <3>4 DEF AtRest, InSave, InDelete, NoOp, IndexTrue
  <2>q. QED BY <1>2, <2>1, <2>3, <2>4
<1>q. QED BY <1>5, <1>6 DEF SaveRow

\* A delete that is over leaves no index to be wrong.
LEMMA DeletedOneRow ==
    ASSUME Shape, NEW t \in Task, NEW ok \in BOOLEAN, Deleted(t, ok), Unique(cnt)', up' # "init"
    PROVE  (AtRest /\ InSave /\ InDelete)'
<1>1. op' = NoOp /\ ~index'.built
  BY AnyIndex DEF Deleted, Shape
<1>q. QED BY <1>1 DEF AtRest, InSave, InDelete, NoOp, IndexTrue

LEMMA DeleteBeginOneRow == ASSUME Shape, OneRow, NEW t \in Task, DeleteBegin(t) PROVE OneRow'
<1> SUFFICES ASSUME Sound' PROVE (AtRest /\ InSave /\ InDelete)'
  BY DEF OneRow
<1> DEFINE d == call[t].dev
<1>0. Sound
  BY SoundBefore DEF DeleteBegin, past
<1>1. call[t].do = "delete" /\ op = NoOp /\ UNCHANGED <<row, cnt, up>>
  BY DEF DeleteBegin, flash
<1>2. up = "on" /\ d \in Device /\ d # 0
  <2>1. call[t] \in DeleteRec
    BY <1>1, CallKinds DEF Shape, CallOK
  <2>q. QED BY <2>1, UpKinds, Numbers DEF DeleteRec, Idle
<1>3. /\ Unique(cnt) /\ \A i \in Slot : i < cnt => Index.dev[i] = row[i].dev
  BY <1>0, <1>1, <1>2, IndexFresh
<1>4. Unique(cnt)'
  BY <1>1, <1>3 DEF Unique
<1>5. CASE Deleted(t, FALSE)
  BY <1>1, <1>2, <1>4, <1>5, DeletedOneRow
<1>6. CASE /\ Found(d) # {} /\ index' = Index
           /\ op' = [step |-> IF Min(Found(d)) = cnt - 1 THEN "shrink" ELSE "move",
                     task |-> t, dev |-> d, pos |-> Min(Found(d))]
  <2> DEFINE p == Min(Found(d))
             s == IF p = cnt - 1 THEN "shrink" ELSE "move"
  <2>1. p \in Slot /\ p < cnt /\ p \in Nat /\ cnt \in Nat /\ Index.dev[p] = d
    BY <1>1, <1>6, FoundSlot, SlotNat, Numbers DEF Shape, FlashOK
  <2>2. row[p].dev = d
    BY <1>3, <2>1
  <2> HIDE DEF p, d
  <2>3. op' = [step |-> s, task |-> t, dev |-> d, pos |-> p]
    BY <1>6 DEF p, d
  <2>4. op'.step = s /\ op'.dev = d /\ op'.pos = p /\ op' # NoOp
    BY <2>3 DEF NoOp
  <2>5. CASE p = cnt - 1
    <3>1. row[p] # Hole
      BY <1>2, <2>1, <2>2, HoleIs
    <3>2. \A i \in Slot : i < cnt - 1 => i < cnt /\ i # p
      BY <2>1, <2>5, SlotNat
    <3>3. NoRow(d, cnt - 1)
      BY <1>3, <2>1, <2>2, <3>1, <3>2 DEF Unique, NoRow
    <3>4. Unique(cnt - 1)
      BY <1>3, <3>2 DEF Unique
    <3>5. Unique(cnt - 1)' /\ NoRow(op.dev, cnt - 1)'
      BY <1>1, <2>4, <3>3, <3>4 DEF Unique, NoRow
    <3>6. op'.step = "shrink"
      BY <2>4, <2>5
    <3>q. QED BY <2>4, <3>5, <3>6 DEF AtRest, InSave, InDelete
  <2>6. CASE p # cnt - 1
    <3>1. op'.step = "move"
      BY <2>4, <2>6
    <3>2. p + 1 < cnt
      BY <2>1, <2>6
    <3>q. QED BY <1>1, <1>4, <2>2, <2>4, <3>1, <3>2 DEF AtRest, InSave, InDelete
  <2>q. QED BY <2>5, <2>6
<1>q. QED BY <1>5, <1>6 DEF DeleteBegin

LEMMA DeleteMoveOneRow == ASSUME Shape, OneRow, NEW t \in Task, DeleteMove(t) PROVE OneRow'
<1> SUFFICES ASSUME Sound' PROVE (AtRest /\ InSave /\ InDelete)'
  BY DEF OneRow
<1>0. Sound
  BY SoundBefore DEF DeleteMove, past
<1>1. op.step = "move" /\ op.task = t /\ UNCHANGED <<cnt, up>>
  BY DEF DeleteMove
<1> DEFINE p == op.pos
           d == op.dev
<1>2. /\ op \in OpDelete /\ d \in Device /\ d # 0 /\ p \in Slot /\ cnt \in Nat /\ cnt - 1 \in Slot /\ p \in Nat /\ up = "on"
      /\ row \in [Slot -> RowRec] /\ \A i \in Slot : row[i].dev = 0 => row[i] = Hole
  BY <1>1, InDeleteKinds, Numbers, SlotNat
<1>3. Unique(cnt) /\ row[p].dev = d /\ p + 1 < cnt
  BY <1>0, <1>1 DEF OneRow, InDelete
<1>4. CASE row' = row /\ Deleted(t, FALSE)
  BY <1>1, <1>2, <1>3, <1>4, DeletedOneRow DEF Unique
<1>5. row[p] # Hole
  BY <1>2, <1>3, HoleIs
<1> SUFFICES ASSUME row' = [row EXCEPT ![p] = Tail(d)], op' = [op EXCEPT !.step = "shrink"]
             PROVE  (AtRest /\ InSave /\ InDelete)'
  BY <1>4, <1>5 DEF DeleteMove
<1>6. row' = [row EXCEPT ![p] = Tail(d)] /\ op' = [op EXCEPT !.step = "shrink"]
  OBVIOUS
<1>7. row[cnt - 1].dev # d
  <2>1. cnt - 1 < cnt /\ p < cnt /\ p # cnt - 1
    BY <1>2, <1>3
  <2> HIDE DEF p, d
  <2>q. QED BY <1>2, <1>3, <1>5, <2>1 DEF Unique
<1> HIDE DEF p, d
<1>8. Tail(d) = row[cnt - 1]
  BY <1>7 DEF Tail
<1>9. row'[p] = row[cnt - 1] /\ \A i \in Slot : i # p => row'[i] = row[i]
  BY <1>2, <1>6, <1>8
<1>10. \A i \in Slot : i < cnt - 1 => i < cnt /\ i # cnt - 1
  BY <1>2, SlotNat
<1>11. cnt - 1 < cnt /\ p < cnt
  BY <1>2, <1>3
<1>12. ASSUME NEW i \in Slot, NEW j \in Slot, i < cnt - 1, j < cnt - 1, row'[i].dev = row'[j].dev, row'[i] # Hole
       PROVE  i = j
  <2>0. row'[j] # Hole
    BY <1>2, <1>9, <1>12, HoleIs
  <2>1. CASE i = p
    BY <1>2, <1>3, <1>9, <1>10, <1>11, <1>12, <2>1 DEF Unique
  <2>2. CASE j = p
    BY <1>2, <1>3, <1>9, <1>10, <1>11, <1>12, <2>0, <2>2 DEF Unique
  <2>3. CASE i # p /\ j # p
    BY <1>3, <1>9, <1>10, <1>12, <2>3 DEF Unique
  <2>q. QED BY <2>1, <2>2, <2>3
<1>13. ASSUME NEW i \in Slot, i < cnt - 1 PROVE row'[i].dev # d
  BY <1>2, <1>3, <1>5, <1>7, <1>9, <1>10, <1>11, <1>13 DEF Unique
<1>14. op'.step = "shrink" /\ op'.dev = d /\ op' # NoOp
  BY <1>2, <1>6 DEF OpDelete, d, NoOp
<1>15. Unique(cnt - 1)' /\ NoRow(op.dev, cnt - 1)'
  BY <1>1, <1>12, <1>13, <1>14 DEF Unique, NoRow
<1>q. QED BY <1>14, <1>15 DEF AtRest, InSave, InDelete

\* A last row that is no copy of a lower one.
LEMMA NotCutShort ==
    ASSUME Shape, cnt - 1 \in Slot, cnt \in Nat, Unique(cnt - 1), ~CutShort(row[cnt - 1].dev)
    PROVE  Unique(cnt)
<1>1. \A i \in Slot : i < cnt /\ i # cnt - 1 => i < cnt - 1
  BY SlotNat
<1>2. ASSUME NEW i \in Slot, i < cnt - 1, row[i].dev # 0 PROVE row[i].dev # row[cnt - 1].dev
  BY <1>2 DEF CutShort
<1>3. ASSUME NEW i \in Slot, NEW j \in Slot, i < cnt, j < cnt, row[i].dev = row[j].dev, row[i] # Hole PROVE i = j
  <2>1. row[i].dev # 0 /\ row[j].dev # 0
    BY <1>3, HoleIs
  <2>q. QED BY <1>1, <1>2, <1>3, <2>1 DEF Unique
<1>q. QED BY <1>3 DEF Unique

LEMMA DeleteShrinkOneRow == ASSUME Shape, OneRow, NEW t \in Task, DeleteShrink(t) PROVE OneRow'
<1> SUFFICES ASSUME Sound' PROVE (AtRest /\ InSave /\ InDelete)'
  BY DEF OneRow
<1>1. op.step = "shrink" /\ op.task = t /\ UNCHANGED <<row, up>>
  BY DEF DeleteShrink
<1>2. op \in OpDelete /\ cnt \in Nat /\ cnt - 1 \in Slot /\ up = "on"
  BY <1>1, InDeleteKinds
<1>3. Sound => Unique(cnt - 1) /\ NoRow(op.dev, cnt - 1)
  BY <1>1 DEF OneRow, InDelete
<1>4. CASE Written /\ leftover' = leftover /\ cnt' = cnt - 1 /\ op' = [op EXCEPT !.step = "drop"]
  <2>1. Unique(cnt - 1) /\ NoRow(op.dev, cnt - 1)
    BY <1>3, <1>4, SoundBefore
  <2>2. op'.step = "drop" /\ op'.dev = op.dev /\ op' # NoOp
    BY <1>2, <1>4 DEF OpDelete, NoOp
  <2>3. Unique(cnt)' /\ NoRow(op.dev, cnt)'
    BY <1>1, <1>4, <2>1, <2>2 DEF Unique, NoRow
  <2>q. QED BY <2>2, <2>3 DEF AtRest, InSave, InDelete
<1>5. CASE Fails /\ Deleted(t, FALSE) /\ cnt' = cnt /\ leftover' = (leftover \/ CutShort(row[cnt - 1].dev))
  <2>1. Sound /\ ~CutShort(row[cnt - 1].dev)
    BY <1>5, FailsCount DEF Sound
  <2>2. Unique(cnt)
    BY <1>2, <1>3, <2>1, NotCutShort
  <2>3. Unique(cnt)'
    BY <1>1, <1>5, <2>2 DEF Unique
  <2>q. QED BY <1>1, <1>2, <1>5, <2>3, DeletedOneRow
<1>q. QED BY <1>4, <1>5 DEF DeleteShrink

LEMMA DeleteDropOneRow == ASSUME Shape, OneRow, NEW t \in Task, DeleteDrop(t) PROVE OneRow'
<1> SUFFICES ASSUME Sound' PROVE (AtRest /\ InSave /\ InDelete)'
  BY DEF OneRow
<1>0. Sound /\ Written
  <2>1. CASE Fails /\ leftover'
    BY <2>1, FailsCount DEF Sound
  <2>q. QED BY <2>1, SoundBefore DEF DeleteDrop
<1>1. op.step = "drop" /\ op.task = t /\ UNCHANGED <<cnt, up>> /\ Deleted(t, TRUE) /\ row' = [row EXCEPT ![cnt] = Hole]
  BY <1>0, FailsCount DEF DeleteDrop, Sound, Fails, Written
<1>2. Unique(cnt) /\ up = "on" /\ cnt \in Nat
  BY <1>0, <1>1, InDeleteKinds DEF OneRow, InDelete
<1>3. \A i \in Slot : i < cnt => row'[i] = row[i]
  BY <1>1, <1>2, SlotNat DEF Shape, FlashOK
<1>4. Unique(cnt)'
  BY <1>1, <1>2, <1>3 DEF Unique
<1>q. QED BY <1>1, <1>2, <1>4, DeletedOneRow

LEMMA CutOneRow == ASSUME Shape, OneRow, Cut PROVE OneRow'
<1> SUFFICES ASSUME Sound' PROVE (AtRest /\ InSave /\ InDelete)'
  BY DEF OneRow
<1>0. Sound
  <2>1. fails' = fails /\ (leftover => leftover')
    BY DEF Cut
  <2>q. QED BY <2>1 DEF Sound
<1>1. UNCHANGED <<row, cnt>> /\ op' = NoOp /\ up' = "init" /\ index' = ColdIndex
  BY DEF Cut, flash
<1>2. \A i \in Slot : i < cnt - 1 => i < cnt
  BY SlotNat, Numbers DEF Shape, FlashOK
<1>3. Unique(cnt - 1)
  <2>1. Unique(cnt) => Unique(cnt - 1)
    BY <1>2 DEF Unique
  <2>2. op # NoOp => op.step \in {"more", "row", "move", "shrink", "drop"}
    BY DEF Shape, OpOK, OpSave, OpDelete
  <2>q. QED BY <1>0, <2>1, <2>2 DEF OneRow, AtRest, InSave, InDelete
<1>4. Unique(cnt - 1)'
  BY <1>1, <1>3 DEF Unique
<1>q. QED BY <1>1, <1>4, CleanType DEF AtRest, InSave, InDelete, NoOp, IndexTrue

LEMMA RepairOneRow == ASSUME Shape, OneRow, Repair PROVE OneRow'
<1> SUFFICES ASSUME Sound' PROVE (AtRest /\ InSave /\ InDelete)'
  BY DEF OneRow
<1>0. Sound /\ Written
  <2>1. CASE Fails /\ leftover'
    BY <2>1, FailsCount DEF Sound
  <2>2. CASE Written /\ leftover' = leftover
    BY <2>2, SoundBefore
  <2>q. QED BY <2>1, <2>2 DEF Repair
<1>1. up = "init" /\ up' # "init" /\ row' = row /\ op' = op /\ op = NoOp
  BY DEF Repair, Shape, UpOK
<1>2. Unique(cnt - 1) /\ IndexTrue
  BY <1>0, <1>1 DEF OneRow, AtRest
<1>3. cnt \in Nat /\ (\A i \in Slot : i \in Nat) /\ (cnt > 0 => cnt - 1 \in Slot)
  BY SlotNat, Numbers DEF Shape, FlashOK, Slot
<1>4. Scanned(FALSE).built = FALSE
  BY ScannedType DEF Shape
<1>5. CASE cnt < 2 /\ UNCHANGED <<cnt, index>>
  <2>1. \A i, j \in Slot : i < cnt /\ j < cnt => i = j
    BY <1>3, <1>5
  <2>2. Unique(cnt)' /\ IndexTrue'
    BY <1>1, <1>2, <1>5, <2>1 DEF Unique, IndexTrue, Knows, Agrees
  <2>q. QED BY <1>1, <2>2 DEF AtRest, InSave, InDelete, NoOp
<1>6. CASE cnt >= 2 /\ index' = Scanned(FALSE) /\ ~CutShort(row[cnt - 1].dev) /\ UNCHANGED cnt
  <2>1. Unique(cnt)
    BY <1>2, <1>3, <1>6, NotCutShort
  <2>2. Unique(cnt)' /\ ~index'.built
    BY <1>1, <1>4, <1>6, <2>1 DEF Unique
  <2>q. QED BY <1>1, <2>2 DEF AtRest, InSave, InDelete, NoOp, IndexTrue
<1>7. CASE index' = Scanned(FALSE) /\ cnt' = cnt - 1
  <2>1. Unique(cnt)' /\ ~index'.built
    BY <1>1, <1>2, <1>4, <1>7 DEF Unique
  <2>q. QED BY <1>1, <2>1 DEF AtRest, InSave, InDelete, NoOp, IndexTrue
<1>8. CASE Fails
  BY <1>0, <1>8 DEF Fails, Written, Shape, FlashOK
<1>q. QED BY <1>5, <1>6, <1>7, <1>8 DEF Repair

LEMMA RepairEraseOneRow == ASSUME Shape, OneRow, RepairErase PROVE OneRow'
<1> SUFFICES ASSUME Sound' PROVE (AtRest /\ InSave /\ InDelete)'
  BY DEF OneRow
<1>0. Sound
  <2>1. CASE Fails /\ leftover'
    BY <2>1, FailsCount DEF Sound
  <2>2. CASE Written /\ leftover' = leftover
    BY <2>2, SoundBefore
  <2>q. QED BY <2>1, <2>2 DEF RepairErase
<1>1. up = "tail" /\ up' = "load" /\ UNCHANGED <<cnt, index, op>> /\ op = NoOp
  BY DEF RepairErase, Shape, UpOK
<1>2. Unique(cnt) /\ IndexTrue
  BY <1>0, <1>1 DEF OneRow, AtRest
<1>3. \A i \in Slot : i < cnt => row'[i] = row[i]
  BY SlotNat, Numbers DEF RepairErase, Shape, FlashOK
<1>4. Unique(cnt)' /\ IndexTrue'
  BY <1>1, <1>2, <1>3 DEF Unique, IndexTrue, Knows, Agrees
<1>q. QED BY <1>1, <1>4 DEF AtRest, InSave, InDelete, NoOp

LEMMA LoadOneRow == ASSUME Shape, OneRow, Load PROVE OneRow'
<1>1. up = "load" /\ up' = "on" /\ UNCHANGED <<row, cnt, index, op, fails, leftover>> /\ op = NoOp
  BY DEF Load, flash, past, Shape, UpOK
<1>q. QED BY <1>1 DEF OneRow, Sound, AtRest, InSave, InDelete, NoOp, Unique, NoRow, Agrees, Knows, IndexTrue

LEMMA NextOneRow == ASSUME Shape, OneRow, Tidy, [Next]_vars PROVE OneRow'
<1>1. CASE TableStep
  BY <1>1, TableStepQuiet, OneRowStays DEF Quiet, Quintet, past
<1>2. ASSUME NEW c \in Client, Edit(c) \/ Remove(c) \/ Mark(c) PROVE OneRow'
  BY <1>2, OneRowStays DEF Edit, Remove, Mark, Quintet, past
<1>3. ASSUME NEW t \in Task, SaveGone(t) PROVE OneRow'
  BY <1>3, OneRowStays DEF SaveGone, MaySave, Saved, Quintet, past
<1>4. ASSUME NEW t \in Task, SaveShut(t) PROVE OneRow'
  <2>1. UNCHANGED <<flash, index, op, up, leftover>> /\ Fails
    BY <1>4 DEF SaveShut, MaySave, Saved, past
  <2>2. Sound' => Sound
    BY <2>1, SoundBefore
  <2>q. QED BY <2>1, <2>2 DEF OneRow, flash, AtRest, InSave, InDelete, Unique, NoRow, Agrees, Knows, IndexTrue
<1>5. CASE UNCHANGED vars
  BY <1>5, OneRowStays DEF vars, Quintet, past
<1>q. QED BY <1>1, <1>2, <1>3, <1>4, <1>5, NextSteps, CutOneRow, RepairOneRow, RepairEraseOneRow, LoadOneRow,
             LastSeenOneRow, SaveBeginOneRow, SaveCountOneRow, SaveRowOneRow, DeleteBeginOneRow, DeleteMoveOneRow,
             DeleteShrinkOneRow, DeleteDropOneRow

LEMMA InitOneRow == ASSUME Init PROVE OneRow
<1>1. op = NoOp /\ up = "on" /\ cnt = 0 /\ index = ColdIndex
  BY DEF Init
<1>2. Unique(cnt)
  BY <1>1, SlotNat DEF Unique
<1>q. QED BY <1>1, <1>2, CleanType DEF OneRow, AtRest, InSave, InDelete, NoOp, IndexTrue

-----------------------------------------------------------------------------
\* What a step does to the devices' records on flash, while nothing is left over.

LEMMA VerIs ==
    ASSUME NEW r, NEW n, NEW d,
           \A i, j \in Slot : i < n /\ j < n /\ r[i].dev = r[j].dev => r[i] = r[j]
    PROVE  /\ \A i \in Slot : i < n /\ r[i].dev = d => VerIn(r, n, d) = r[i].ver
           /\ (\A i \in Slot : i < n => r[i].dev # d) => VerIn(r, n, d) = 0
<1>1. ASSUME NEW i \in Slot, i < n, r[i].dev = d PROVE VerIn(r, n, d) = r[i].ver
  <2>1. i \in RowsIn(r, n, d)
    BY <1>1 DEF RowsIn
  <2>2. RowsIn(r, n, d) \in SUBSET Nat
    BY SlotNat DEF RowsIn
  <2>3. Min(RowsIn(r, n, d)) \in RowsIn(r, n, d)
    BY <2>1, <2>2, MinExists
  <2> DEFINE m == Min(RowsIn(r, n, d))
  <2>4. m \in Slot /\ m < n /\ r[m].dev = d
    BY <2>3 DEF RowsIn
  <2>5. VerIn(r, n, d) = r[m].ver
    BY <2>1 DEF VerIn
  <2> HIDE DEF m
  <2>q. QED BY <1>1, <2>4, <2>5
<1>2. ASSUME \A i \in Slot : i < n => r[i].dev # d PROVE VerIn(r, n, d) = 0
  BY <1>2 DEF VerIn, RowsIn
<1>q. QED BY <1>1, <1>2

\* The same, before and after a step.
LEMMA VerNow ==
    ASSUME SameRecord, NEW d
    PROVE  /\ \A i \in Slot : i < cnt /\ row[i].dev = d => VerIn(row, cnt, d) = row[i].ver
           /\ (\A i \in Slot : i < cnt => row[i].dev # d) => VerIn(row, cnt, d) = 0
BY VerIs DEF SameRecord

LEMMA VerNext ==
    ASSUME SameRecord', NEW d
    PROVE  /\ \A i \in Slot : i < cnt' /\ row'[i].dev = d => VerIn(row', cnt', d) = row'[i].ver
           /\ (\A i \in Slot : i < cnt' => row'[i].dev # d) => VerIn(row', cnt', d) = 0
<1>1. \A i, j \in Slot : i < cnt' /\ j < cnt' /\ row'[i].dev = row'[j].dev => row'[i] = row'[j]
  BY DEF SameRecord
<1>q. QED BY <1>1, VerIs

\* A device's record stays when each of its rows has one like it on the other side of the step.
LEMMA VerKept ==
    ASSUME SameRecord, SameRecord', NEW e,
           \A i \in Slot : i < cnt /\ row[i].dev = e => \E j \in Slot : j < cnt' /\ row'[j] = row[i],
           \A j \in Slot : j < cnt' /\ row'[j].dev = e => \E i \in Slot : i < cnt /\ row[i] = row'[j]
    PROVE  VerIn(row', cnt', e) = VerIn(row, cnt, e)
<1>1. CASE \E i \in Slot : i < cnt /\ row[i].dev = e
  <2>1. PICK i \in Slot : i < cnt /\ row[i].dev = e
    BY <1>1
  <2>2. PICK j \in Slot : j < cnt' /\ row'[j] = row[i]
    BY <2>1
  <2>3. VerIn(row, cnt, e) = row[i].ver
    BY <2>1, VerNow
  <2>4. VerIn(row', cnt', e) = row'[j].ver
    BY <2>1, <2>2, VerNext
  <2>q. QED BY <2>2, <2>3, <2>4
<1>2. CASE \A i \in Slot : i < cnt => row[i].dev # e
  <2>1. \A j \in Slot : j < cnt' => row'[j].dev # e
    BY <1>2
  <2>q. QED BY <1>2, <2>1, VerNow, VerNext
<1>q. QED BY <1>1, <1>2

\* Of how many devices a step changes the record: of none, or of the one that is written or deleted.
SameVers == \A e \in Device : VerIn(row', cnt', e) = VerIn(row, cnt, e)
NewVer(d, v) ==
    /\ VerIn(row', cnt', d) = v
    /\ \A e \in Device : e # d => VerIn(row', cnt', e) = VerIn(row, cnt, e)

Orderly == Shape /\ OneRow /\ ~leftover /\ RowsFaithful

LEMMA RowsStay == ASSUME RowsFaithful, UNCHANGED <<flash, op, up>>, op.step # "row" \/ index' = index PROVE RowsFaithful'
BY DEF RowsFaithful, SameRecord, AboveCount, FreshRow, LastCopied, flash

\* An operation on flash begins or ends without a write, or the boot goes on.
LEMMA RowsRest ==
    ASSUME RowsFaithful, UNCHANGED flash, \A i \in Slot : i >= cnt => row[i] = Hole, op' = NoOp
    PROVE  RowsFaithful' /\ SameVers
BY DEF RowsFaithful, SameRecord, AboveCount, FreshRow, LastCopied, flash, SameVers, NoOp

\* With no operation on flash, and none at the repair, no row is above the count.
LEMMA NoneAbove ==
    ASSUME RowsFaithful, op.step # "drop", up # "tail", NEW i \in Slot, i >= cnt
    PROVE  row[i] = Hole
BY DEF RowsFaithful, AboveCount

LEMMA SaveBeginRows == ASSUME Orderly, NEW t \in Task, SaveBegin(t) PROVE RowsFaithful' /\ SameVers
<1> DEFINE d == call[t].dev
           Write(step, i) == op' = [step |-> step, task |-> t, dev |-> d, ver |-> Record(t), pos |-> i]
<1>1. call[t].do = "save" /\ op = NoOp /\ UNCHANGED <<flash, up>> /\ index' = Index /\ Record(t) # 0
  BY DEF SaveBegin, MaySave
<1>2. up = "on" /\ d \in Device /\ d # 0
  BY <1>1, RecordType, UpKinds, Numbers DEF SaveRec, Idle, Orderly
<1>3. \A j \in Slot : j >= cnt => row[j] = Hole
  BY <1>1, <1>2, NoneAbove DEF NoOp, Orderly
<1>4. SameVers
  BY <1>1 DEF SameVers, flash
<1>5. SameRecord' /\ AboveCount'
  BY <1>1, <1>3 DEF Orderly, RowsFaithful, SameRecord, AboveCount, flash
<1>6. CASE Found(d) # {} /\ Write("row", Min(Found(d)))
  <2> DEFINE p == Min(Found(d))
  <2>1. p \in Slot /\ p < Index.count /\ Index.dev[p] = d /\ p < cnt
    <3>1. p \in Found(d)
      BY <1>1, <1>6, FoundIs DEF Orderly, Shape
    <3>2. p < Index.count
      BY <3>1 DEF Found
    <3>q. QED BY <1>1, <1>6, <3>2, FoundSlot DEF Orderly
  <2>2. \A i \in Slot : i < cnt => Index.dev[i] = row[i].dev
    BY <1>1, <1>2, IndexFresh DEF Orderly, Sound
  <2> HIDE DEF p, d
  <2>3. row[p].dev = d
    BY <2>1, <2>2
  <2>4. op'.step = "row" /\ op'.dev = d /\ op'.pos = p
    BY <1>6 DEF p, d
  <2>5. FreshRow' /\ LastCopied'
    BY <1>1, <2>1, <2>3, <2>4 DEF FreshRow, LastCopied, flash
  <2>q. QED BY <1>4, <1>5, <2>5 DEF RowsFaithful
<1>7. CASE Write("more", cnt)
  BY <1>4, <1>5, <1>7 DEF RowsFaithful, FreshRow, LastCopied
<1>8. CASE Saved(t, FALSE)
  BY <1>1, <1>3, <1>8, RowsRest DEF Saved, Orderly
<1>q. QED BY <1>6, <1>7, <1>8 DEF SaveBegin

LEMMA SaveCountRows == ASSUME Orderly, NEW t \in Task, SaveCount(t) PROVE RowsFaithful' /\ SameVers
<1>1. op.step = "more" /\ UNCHANGED <<row, up>>
  BY DEF SaveCount
<1>2. op \in OpSave /\ op.pos = cnt /\ op.dev \in Device /\ cnt \in Slot /\ cnt \in Nat /\ up = "on"
  BY <1>1, OpKinds, SlotNat DEF Orderly
<1>3. \A i \in Slot : i >= cnt => row[i] = Hole
  BY <1>1, <1>2, NoneAbove DEF Orderly
<1>4. CASE Saved(t, FALSE) /\ cnt' = cnt
  BY <1>1, <1>3, <1>4, RowsRest DEF Saved, Orderly, flash
<1>5. CASE cnt' = cnt + 1 /\ op' = [op EXCEPT !.step = "row"]
  <2>1. op'.step = "row" /\ op'.pos = cnt
    BY <1>2, <1>5 DEF OpSave
  <2>2. \A i \in Slot : i < cnt' <=> i < cnt \/ i = cnt
    BY <1>2, <1>5, SlotNat
  <2>3. row[cnt] = Hole /\ Hole.dev = 0 /\ \A i \in Slot : row[i].dev = 0 => row[i] = Hole
    BY <1>2, <1>3 DEF Orderly, Shape, FlashOK, Hole
  <2>4. SameRecord /\ SameRecord'
    BY <1>1, <2>2, <2>3 DEF Orderly, RowsFaithful, SameRecord
  <2>5. AboveCount'
    <3>1. \A i \in Slot : i >= cnt' => i >= cnt
      BY <1>2, <1>5, SlotNat
    <3>q. QED BY <1>1, <1>3, <3>1 DEF AboveCount
  <2>6. FreshRow' /\ LastCopied'
    BY <1>1, <2>1, <2>3 DEF FreshRow, LastCopied
  <2>7. ASSUME NEW e \in Device PROVE VerIn(row', cnt', e) = VerIn(row, cnt, e)
    <3>1. \A i \in Slot : i < cnt /\ row[i].dev = e => \E j \in Slot : j < cnt' /\ row'[j] = row[i]
      BY <1>1, <2>2
    <3>2. \A j \in Slot : j < cnt' /\ row'[j].dev = e => \E i \in Slot : i < cnt /\ row[i] = row'[j]
      BY <1>1, <2>2, <2>3, Numbers
    <3>q. QED BY <2>4, <3>1, <3>2, VerKept
  <2>q. QED BY <2>4, <2>5, <2>6, <2>7 DEF RowsFaithful, SameVers
<1>q. QED BY <1>4, <1>5 DEF SaveCount

LEMMA SaveRowRows ==
    ASSUME Orderly, NEW t \in Task, SaveRow(t)
    PROVE  RowsFaithful' /\ ((Fails /\ SameVers /\ Saved(t, FALSE)) \/ (Written /\ NewVer(op.dev, op.ver) /\ Saved(t, TRUE)))
<1> DEFINE p == op.pos
           d == op.dev
           v == op.ver
<1>1. op.step = "row" /\ op' = NoOp /\ UNCHANGED <<cnt, up>>
  BY DEF SaveRow, Saved
<1>2. op \in OpSave /\ p \in Slot /\ p < cnt /\ d \in Device /\ d # 0 /\ cnt \in Nat /\ p \in Nat /\ up = "on"
  <2>1. op \in OpSave /\ p \in Slot /\ p < cnt /\ d \in Device /\ up = "on"
    BY <1>1, OpKinds DEF Orderly, NoOp
  <2>q. QED BY <2>1, SlotNat, Numbers DEF Orderly, Shape, FlashOK
<1>3. \A i \in Slot : i >= cnt => row[i] = Hole
  BY <1>1, <1>2, NoneAbove DEF Orderly
<1>4. CASE Fails /\ Saved(t, FALSE) /\ row' = row
  BY <1>1, <1>3, <1>4, RowsRest DEF Orderly, flash
<1>5. CASE Written /\ Saved(t, TRUE) /\ row' = [row EXCEPT ![p] = [dev |-> d, ver |-> v]]
  <2>1. \/ row[p].dev = d /\ Unique(cnt)
        \/ p = cnt - 1 /\ NoRow(d, cnt - 1)
    BY <1>1 DEF Orderly, Sound, OneRow, InSave
  <2>2. row[p].dev = d \/ row[p] = Hole
    BY <1>1 DEF Orderly, RowsFaithful, FreshRow
  <2> HIDE DEF p, d, v
  <2>3. row'[p] = [dev |-> d, ver |-> v] /\ row'[p].dev = d /\ row'[p].ver = v /\ \A i \in Slot : i # p => row'[i] = row[i]
    BY <1>2, <1>5 DEF Orderly, Shape, FlashOK
  <2>4. \A i \in Slot : i < cnt /\ i # p => row[i].dev # d
    <3>1. CASE row[p].dev = d /\ Unique(cnt)
      <4>1. row[p] # Hole
        BY <1>2, <3>1, HoleIs DEF Orderly
      <4>q. QED BY <1>2, <3>1, <4>1 DEF Unique
    <3>2. CASE p = cnt - 1 /\ NoRow(d, cnt - 1)
      <4>1. \A i \in Slot : i < cnt /\ i # p => i < cnt - 1
        BY <1>2, <3>2, SlotNat
      <4>q. QED BY <3>2, <4>1 DEF NoRow
    <3>q. QED BY <2>1, <3>1, <3>2
  <2>5. SameRecord /\ SameRecord'
    <3>1. SameRecord
      BY DEF Orderly, RowsFaithful
    <3> SUFFICES ASSUME NEW i \in Slot, NEW j \in Slot, i < cnt, j < cnt, row'[i].dev = row'[j].dev PROVE row'[i] = row'[j]
      BY <1>1, <3>1 DEF SameRecord
    <3>2. CASE i # p /\ j # p
      BY <2>3, <3>1, <3>2 DEF SameRecord
    <3>3. CASE i = p \/ j = p
      BY <2>3, <2>4, <3>3
    <3>q. QED BY <3>2, <3>3
  <2>6. RowsFaithful'
    <3>1. AboveCount'
      <4>1. \A i \in Slot : i >= cnt => row[i] = Hole /\ i # p
        BY <1>2, <1>3, SlotNat
      <4>q. QED BY <1>1, <2>3, <4>1 DEF AboveCount
    <3>2. FreshRow' /\ LastCopied'
      BY <1>1 DEF FreshRow, LastCopied, NoOp
    <3>q. QED BY <2>5, <3>1, <3>2 DEF RowsFaithful
  <2>7. VerIn(row', cnt', d) = v
    BY <1>1, <1>2, <2>3, <2>5, VerNext
  <2>8. ASSUME NEW e \in Device, e # d PROVE VerIn(row', cnt', e) = VerIn(row, cnt, e)
    <3>1. row[p].dev # e
      BY <2>2, <2>8, Numbers DEF Hole
    <3>2. \A i \in Slot : i < cnt /\ row[i].dev = e => \E j \in Slot : j < cnt' /\ row'[j] = row[i]
      BY <1>1, <2>3, <3>1
    <3>3. \A j \in Slot : j < cnt' /\ row'[j].dev = e => \E i \in Slot : i < cnt /\ row[i] = row'[j]
      BY <1>1, <2>3, <2>8
    <3>q. QED BY <2>5, <3>2, <3>3, VerKept
  <2>q. QED BY <1>5, <2>6, <2>7, <2>8 DEF NewVer, d, v
<1>q. QED BY <1>4, <1>5 DEF SaveRow

LEMMA DeleteBeginRows == ASSUME Orderly, NEW t \in Task, DeleteBegin(t) PROVE RowsFaithful' /\ SameVers
<1> DEFINE d == call[t].dev
<1>1. call[t].do = "delete" /\ op = NoOp /\ UNCHANGED <<flash, up>>
  BY DEF DeleteBegin
<1>2. up = "on" /\ d \in Device /\ d # 0
  <2>1. call[t] \in DeleteRec
    BY <1>1, CallKinds DEF Orderly, Shape, CallOK
  <2>q. QED BY <2>1, UpKinds, Numbers DEF DeleteRec, Idle, Orderly
<1>3. \A i \in Slot : i >= cnt => row[i] = Hole
  BY <1>1, <1>2, NoneAbove DEF NoOp, Orderly
<1>4. CASE Deleted(t, FALSE)
  BY <1>1, <1>3, <1>4, RowsRest DEF Orderly, Deleted
<1>5. CASE /\ Found(d) # {}
           /\ op' = [step |-> IF Min(Found(d)) = cnt - 1 THEN "shrink" ELSE "move",
                     task |-> t, dev |-> d, pos |-> Min(Found(d))]
  <2> DEFINE p == Min(Found(d))
             s == IF p = cnt - 1 THEN "shrink" ELSE "move"
  <2>1. p \in Slot /\ p < cnt /\ Index.dev[p] = d
    BY <1>1, <1>5, FoundSlot DEF Orderly
  <2>2. row[p].dev = d
    <3>1. \A i \in Slot : i < cnt => Index.dev[i] = row[i].dev
      BY <1>1, <1>2, IndexFresh DEF Orderly, Sound
    <3> HIDE DEF p, d
    <3>q. QED BY <2>1, <3>1
  <2> HIDE DEF p, d
  <2>3. op' = [step |-> s, task |-> t, dev |-> d, pos |-> p]
    BY <1>5 DEF p, d
  <2>4. op'.step = s /\ op'.dev = d
    BY <2>3
  <2>5. SameRecord' /\ AboveCount'
    BY <1>1, <1>3 DEF Orderly, RowsFaithful, SameRecord, AboveCount, flash
  <2>6. FreshRow' /\ LastCopied'
    BY <1>1, <2>2, <2>4 DEF FreshRow, LastCopied, flash
  <2>q. QED BY <1>1, <2>5, <2>6 DEF RowsFaithful, SameVers, flash
<1>q. QED BY <1>4, <1>5 DEF DeleteBegin

LEMMA DeleteMoveRows ==
    ASSUME Orderly, NEW t \in Task, DeleteMove(t)
    PROVE  RowsFaithful' /\ ((Fails /\ SameVers /\ Deleted(t, FALSE)) \/ (Written /\ NewVer(op.dev, 0) /\ op' = [op EXCEPT !.step = "shrink"] /\ call' = call))
<1> DEFINE p == op.pos
           d == op.dev
<1>1. op.step = "move" /\ op.task = t /\ UNCHANGED <<cnt, up>>
  BY DEF DeleteMove
<1>2. /\ op \in OpDelete /\ d \in Device /\ d # 0 /\ p \in Slot /\ cnt \in Nat /\ cnt - 1 \in Slot /\ p \in Nat /\ up = "on"
      /\ row \in [Slot -> RowRec] /\ \A i \in Slot : row[i].dev = 0 => row[i] = Hole
  BY <1>1, InDeleteKinds, Numbers, SlotNat DEF Orderly
<1>3. Unique(cnt) /\ row[p].dev = d /\ p + 1 < cnt
  BY <1>1 DEF Orderly, Sound, OneRow, InDelete
<1>4. \A i \in Slot : i >= cnt => row[i] = Hole
  BY <1>1, <1>2, NoneAbove DEF Orderly
<1>5. row[p] # Hole
  BY <1>2, <1>3, HoleIs DEF Orderly
<1>6. CASE Fails /\ Deleted(t, FALSE) /\ row' = row
  BY <1>1, <1>4, <1>6, RowsRest DEF Orderly, flash, Deleted
<1>7. CASE Written /\ row' = [row EXCEPT ![p] = Tail(d)] /\ op' = [op EXCEPT !.step = "shrink"] /\ call' = call
  <2>1. op'.step = "shrink" /\ op'.dev = d
    BY <1>2, <1>7 DEF OpDelete
  <2> HIDE DEF p, d
  <2>2. cnt - 1 < cnt /\ p < cnt /\ p # cnt - 1 /\ p < cnt - 1
    BY <1>2, <1>3
  <2>3. \A i \in Slot : i < cnt /\ i # p => row[i].dev # d
    BY <1>2, <1>3, <1>5, <2>2 DEF Unique
  <2>4. Tail(d) = row[cnt - 1] /\ row[cnt - 1].dev # d
    BY <1>2, <2>2, <2>3 DEF Tail
  <2>5. row'[p] = row[cnt - 1] /\ \A i \in Slot : i # p => row'[i] = row[i]
    BY <1>2, <1>7, <2>4
  <2>6. SameRecord /\ SameRecord'
    <3>1. SameRecord
      BY DEF Orderly, RowsFaithful
    <3>2. \A i \in Slot : i < cnt => \E j \in Slot : j < cnt /\ row'[i] = row[j]
      BY <1>2, <2>2, <2>5
    <3>q. QED BY <1>1, <3>1, <3>2 DEF SameRecord
  <2>7. RowsFaithful'
    <3>1. AboveCount'
      <4>1. \A i \in Slot : i >= cnt => row[i] = Hole /\ i # p
        BY <1>2, <1>4, <2>2, SlotNat
      <4>q. QED BY <1>1, <2>5, <4>1 DEF AboveCount
    <3>2. FreshRow' /\ LastCopied'
      BY <1>1, <1>2, <2>1, <2>2, <2>5 DEF FreshRow, LastCopied
    <3>q. QED BY <2>6, <3>1, <3>2 DEF RowsFaithful
  <2>8. VerIn(row', cnt', d) = 0
    <3>1. \A i \in Slot : i < cnt' => row'[i].dev # d
      BY <1>1, <2>3, <2>4, <2>5
    <3>q. QED BY <2>6, <3>1, VerNext
  <2>9. ASSUME NEW e \in Device, e # d PROVE VerIn(row', cnt', e) = VerIn(row, cnt, e)
    <3>1. \A i \in Slot : i < cnt /\ row[i].dev = e => \E j \in Slot : j < cnt' /\ row'[j] = row[i]
      BY <1>1, <1>3, <2>5, <2>9
    <3>2. \A j \in Slot : j < cnt' /\ row'[j].dev = e => \E i \in Slot : i < cnt /\ row[i] = row'[j]
      BY <1>1, <1>2, <2>2, <2>5
    <3>q. QED BY <2>6, <3>1, <3>2, VerKept
  <2>q. QED BY <1>7, <2>7, <2>8, <2>9 DEF NewVer, d
<1>q. QED BY <1>5, <1>6, <1>7 DEF DeleteMove

LEMMA DeleteShrinkRows ==
    ASSUME Orderly, NEW t \in Task, DeleteShrink(t)
    PROVE  RowsFaithful' /\ ((Fails /\ SameVers /\ Deleted(t, FALSE)) \/ (Written /\ NewVer(op.dev, 0) /\ op' = [op EXCEPT !.step = "drop"] /\ call' = call))
<1> DEFINE d == op.dev
<1>1. op.step = "shrink" /\ op.task = t /\ UNCHANGED <<row, up>>
  BY DEF DeleteShrink
<1>2. op \in OpDelete /\ d \in Device /\ cnt \in Nat /\ cnt > 0 /\ cnt - 1 \in Slot /\ up = "on"
  BY <1>1, InDeleteKinds DEF Orderly
<1>3. NoRow(d, cnt - 1)
  BY <1>1 DEF Orderly, Sound, OneRow, InDelete
<1>4. row[cnt - 1].dev = d \/ \E i \in Slot : i < cnt - 1 /\ row[i] = row[cnt - 1]
  BY <1>1 DEF Orderly, RowsFaithful, LastCopied
<1>5. \A i \in Slot : i >= cnt => row[i] = Hole
  BY <1>1, <1>2, NoneAbove DEF Orderly
<1>6. CASE Fails /\ Deleted(t, FALSE) /\ cnt' = cnt
  BY <1>1, <1>5, <1>6, RowsRest DEF Orderly, flash, Deleted
<1>7. CASE Written /\ cnt' = cnt - 1 /\ op' = [op EXCEPT !.step = "drop"] /\ call' = call
  <2>1. op'.step = "drop"
    BY <1>2, <1>7 DEF OpDelete
  <2> HIDE DEF d
  <2>2. \A i \in Slot : /\ i < cnt - 1 => i < cnt /\ i # cnt - 1
                        /\ i < cnt /\ i # cnt - 1 => i < cnt - 1
                        /\ i >= cnt - 1 => i >= cnt \/ i = cnt - 1
    BY <1>2, SlotNat
  <2>3. SameRecord /\ SameRecord'
    <3>1. SameRecord
      BY DEF Orderly, RowsFaithful
    <3>q. QED BY <1>1, <1>7, <2>2, <3>1 DEF SameRecord
  <2>4. RowsFaithful'
    <3>1. AboveCount'
      BY <1>1, <1>5, <1>7, <2>1, <2>2 DEF AboveCount
    <3>2. FreshRow' /\ LastCopied'
      BY <2>1 DEF FreshRow, LastCopied
    <3>q. QED BY <2>3, <3>1, <3>2 DEF RowsFaithful
  <2>5. VerIn(row', cnt', d) = 0
    <3>1. \A i \in Slot : i < cnt' => row'[i].dev # d
      BY <1>1, <1>3, <1>7 DEF NoRow
    <3>q. QED BY <2>3, <3>1, VerNext
  <2>6. ASSUME NEW e \in Device, e # d PROVE VerIn(row', cnt', e) = VerIn(row, cnt, e)
    <3>1. \A i \in Slot : i < cnt /\ row[i].dev = e => \E j \in Slot : j < cnt' /\ row'[j] = row[i]
      <4> SUFFICES ASSUME NEW i \in Slot, i < cnt, row[i].dev = e PROVE \E j \in Slot : j < cnt' /\ row'[j] = row[i]
        OBVIOUS
      <4>1. CASE i = cnt - 1
        BY <1>1, <1>4, <1>7, <2>6, <4>1 DEF d
      <4>2. CASE i # cnt - 1
        BY <1>1, <1>7, <2>2, <4>2
      <4>q. QED BY <4>1, <4>2
    <3>2. \A j \in Slot : j < cnt' /\ row'[j].dev = e => \E i \in Slot : i < cnt /\ row[i] = row'[j]
      BY <1>1, <1>7, <2>2
    <3>q. QED BY <2>3, <3>1, <3>2, VerKept
  <2>q. QED BY <1>7, <2>4, <2>5, <2>6 DEF NewVer, d
<1>q. QED BY <1>6, <1>7 DEF DeleteShrink

LEMMA DeleteDropRows ==
    ASSUME Orderly, ~leftover', NEW t \in Task, DeleteDrop(t)
    PROVE  RowsFaithful' /\ SameVers /\ Deleted(t, TRUE) /\ NoRow(op.dev, cnt)
<1>1. /\ op.step = "drop" /\ op.task = t /\ UNCHANGED <<cnt, up>>
      /\ Deleted(t, TRUE) /\ row' = [row EXCEPT ![cnt] = Hole]
  BY DEF DeleteDrop
<1>2. cnt \in Slot /\ cnt \in Nat
  BY <1>1, InDeleteKinds DEF Orderly
<1>3. NoRow(op.dev, cnt)
  BY <1>1 DEF Orderly, Sound, OneRow, InDelete
<1>4. row'[cnt] = Hole /\ \A i \in Slot : i # cnt => row'[i] = row[i]
  BY <1>1, <1>2 DEF Orderly, Shape, FlashOK
<1>5. \A i \in Slot : i < cnt => row'[i] = row[i]
  <2>1. \A i \in Slot : i < cnt => i # cnt
    BY <1>2, SlotNat
  <2>q. QED BY <1>4, <2>1
<1>6. SameRecord /\ SameRecord'
  BY <1>1, <1>5 DEF Orderly, RowsFaithful, SameRecord
<1>7. op'.step = "none"
  BY <1>1 DEF Deleted, NoOp
<1>8. RowsFaithful'
  <2>1. AboveCount'
    BY <1>1, <1>4 DEF AboveCount, Orderly, RowsFaithful
  <2>2. FreshRow' /\ LastCopied'
    BY <1>7 DEF FreshRow, LastCopied
  <2>q. QED BY <1>6, <2>1, <2>2 DEF RowsFaithful
<1>9. ASSUME NEW e \in Device PROVE VerIn(row', cnt', e) = VerIn(row, cnt, e)
  BY <1>1, <1>5, <1>6, VerKept
<1>q. QED BY <1>1, <1>3, <1>8, <1>9 DEF SameVers

LEMMA CutRows == ASSUME Orderly, ~leftover', Cut PROVE RowsFaithful' /\ SameVers
<1>1. UNCHANGED flash /\ op' = NoOp /\ (leftover' = (leftover \/ \E i \in Slot : i >= cnt /\ row[i] # Hole))
  BY DEF Cut
<1>2. ~\E i \in Slot : i >= cnt /\ row[i] # Hole
  BY <1>1, Zenon
<1>q. QED BY <1>1, <1>2, RowsRest DEF Orderly

LEMMA RepairRows == ASSUME Orderly, Repair PROVE RowsFaithful' /\ SameVers
<1>1. up = "init" /\ UNCHANGED <<row, op>> /\ op = NoOp
  BY DEF Repair, Orderly, Shape, UpOK
<1>2. \A i \in Slot : i >= cnt => row[i] = Hole
  BY <1>1, NoneAbove DEF Orderly, NoOp
<1>3. SameRecord /\ cnt \in Nat
  BY Numbers DEF Orderly, RowsFaithful, Shape, FlashOK
<1>4. CASE cnt' = cnt
  BY <1>1, <1>2, <1>4, RowsRest DEF Orderly, flash
<1>5. CASE cnt >= 2 /\ CutShort(row[cnt - 1].dev) /\ cnt' = cnt - 1 /\ up' = "tail"
  <2>1. cnt - 1 < cnt /\ cnt - 1 \in Slot
    <3>1. cnt <= Cap
      BY Numbers DEF Orderly, Shape, FlashOK
    <3>q. QED BY <1>3, <1>5, <3>1, Numbers DEF Slot
  <2>2. PICK c \in Slot : c < cnt - 1 /\ row[c].dev = row[cnt - 1].dev
    BY <1>5 DEF CutShort
  <2>3. \A i \in Slot : /\ i < cnt - 1 => i < cnt
                        /\ i < cnt /\ i # cnt - 1 => i < cnt - 1
                        /\ i >= cnt - 1 => i >= cnt \/ i = cnt - 1
    BY <1>3, SlotNat
  <2>4. row[c] = row[cnt - 1]
    BY <1>3, <2>1, <2>2, <2>3 DEF SameRecord
  <2>5. SameRecord' /\ AboveCount'
    BY <1>1, <1>2, <1>3, <1>5, <2>3 DEF SameRecord, AboveCount
  <2>6. ASSUME NEW e \in Device PROVE VerIn(row', cnt', e) = VerIn(row, cnt, e)
    <3>1. \A i \in Slot : i < cnt /\ row[i].dev = e => \E j \in Slot : j < cnt' /\ row'[j] = row[i]
      <4> SUFFICES ASSUME NEW i \in Slot, i < cnt PROVE \E j \in Slot : j < cnt' /\ row'[j] = row[i]
        OBVIOUS
      <4>1. CASE i = cnt - 1
        BY <1>1, <1>5, <2>2, <2>4, <4>1
      <4>2. CASE i # cnt - 1
        BY <1>1, <1>5, <2>3, <4>2
      <4>q. QED BY <4>1, <4>2
    <3>2. \A j \in Slot : j < cnt' /\ row'[j].dev = e => \E i \in Slot : i < cnt /\ row[i] = row'[j]
      BY <1>1, <1>5, <2>3
    <3>q. QED BY <1>3, <2>5, <3>1, <3>2, VerKept
  <2>q. QED BY <1>1, <2>5, <2>6 DEF RowsFaithful, FreshRow, LastCopied, NoOp, SameVers
<1>q. QED BY <1>4, <1>5 DEF Repair

LEMMA RepairEraseRows == ASSUME Orderly, ~leftover', RepairErase PROVE RowsFaithful' /\ SameVers
<1>1. up = "tail" /\ up' = "load" /\ UNCHANGED <<cnt, op>> /\ row' = [row EXCEPT ![cnt] = Hole] /\ op = NoOp
  BY DEF RepairErase, Orderly, Shape, UpOK
<1>2. cnt \in Nat /\ row \in [Slot -> RowRec]
  BY Numbers DEF Orderly, Shape, FlashOK
<1>3. \A i \in Slot : (i < cnt => row'[i] = row[i]) /\ (i = cnt => row'[i] = Hole) /\ (i # cnt => row'[i] = row[i])
  BY <1>1, <1>2, SlotNat
<1>4. SameRecord /\ SameRecord'
  BY <1>1, <1>3 DEF Orderly, RowsFaithful, SameRecord
<1>5. RowsFaithful'
  <2>1. AboveCount'
    BY <1>1, <1>3 DEF AboveCount, Orderly, RowsFaithful
  <2>q. QED BY <1>1, <1>4, <2>1 DEF RowsFaithful, FreshRow, LastCopied, NoOp
<1>6. ASSUME NEW e \in Device PROVE VerIn(row', cnt', e) = VerIn(row, cnt, e)
  BY <1>1, <1>3, <1>4, VerKept
<1>q. QED BY <1>5, <1>6 DEF SameVers

LEMMA LoadRows == ASSUME Orderly, Load PROVE RowsFaithful' /\ SameVers
<1>1. up = "load" /\ UNCHANGED <<flash, op>> /\ op = NoOp
  BY DEF Load, Orderly, Shape, UpOK
<1>2. \A i \in Slot : i >= cnt => row[i] = Hole
  BY <1>1, NoneAbove DEF Orderly, NoOp
<1>q. QED BY <1>1, <1>2, RowsRest DEF Orderly

\* Steps without a write that begin and end no operation on flash, and SaveShut's.
LEMMA IdleRows ==
    ASSUME Orderly, UNCHANGED <<flash, op, up>>, op = NoOp \/ index' = index
    PROVE  RowsFaithful' /\ SameVers
<1>1. RowsFaithful'
  BY RowsStay DEF Orderly, NoOp
<1>q. QED BY <1>1 DEF SameVers, flash

\* Nothing is left over: then nor was it before.
LEMMA LeftoverStays == ASSUME Shape, Next, leftover PROVE leftover'
<1>1. CASE Cut
  BY <1>1 DEF Cut
<1>2. CASE Repair \/ RepairErase \/ Load
  BY <1>2 DEF Repair, RepairErase, Load, past
<1>3. ASSUME NEW c \in Client, Edit(c) \/ Remove(c) \/ Mark(c) PROVE leftover'
  BY <1>3 DEF Edit, Remove, Mark, past
<1>4. CASE TableStep
  BY <1>4, TableStepQuiet DEF Quiet, past
<1>5. ASSUME NEW f \in Flusher, LastSeen(f) PROVE leftover'
  BY <1>5 DEF LastSeen, past
<1>6. ASSUME NEW t \in Task, SaveGone(t) \/ SaveShut(t) \/ SaveBegin(t) \/ SaveCount(t) \/ SaveRow(t) PROVE leftover'
  BY <1>6 DEF SaveGone, SaveShut, SaveBegin, SaveCount, SaveRow, past
<1>7. ASSUME NEW t \in Task, DeleteBegin(t) \/ DeleteMove(t) \/ DeleteShrink(t) \/ DeleteDrop(t) PROVE leftover'
  BY <1>7 DEF DeleteBegin, DeleteMove, DeleteShrink, DeleteDrop, past
<1>q. QED BY <1>1, <1>2, <1>3, <1>4, <1>5, <1>6, <1>7, NextSteps

\* Every step: only a save's row and a delete's writes change what flash has of a device.
LEMMA NextRows ==
    ASSUME Shape, OneRow, Tidy, Next, ~leftover'
    PROVE  /\ RowsFaithful'
           /\ \/ SameVers
              \/ \E t \in Task : SaveRow(t) /\ Saved(t, TRUE) /\ NewVer(op.dev, op.ver)
              \/ \E t \in Task : (DeleteMove(t) \/ DeleteShrink(t)) /\ call' = call /\ op'.step \in {"shrink", "drop"}
                                  /\ NewVer(op.dev, 0)
<1>0. Orderly
  BY LeftoverStays DEF Tidy, Orderly
<1>1. CASE TableStep
  BY <1>0, <1>1, TableStepQuiet, IdleRows DEF Quiet
<1>2. ASSUME NEW c \in Client, Edit(c) \/ Remove(c) \/ Mark(c) PROVE RowsFaithful' /\ SameVers
  BY <1>0, <1>2, IdleRows DEF Edit, Remove, Mark
<1>3. ASSUME NEW f \in Flusher, LastSeen(f) PROVE RowsFaithful' /\ SameVers
  BY <1>0, <1>3, IdleRows DEF LastSeen
<1>4. ASSUME NEW t \in Task, SaveGone(t) \/ SaveShut(t) PROVE RowsFaithful' /\ SameVers
  BY <1>0, <1>4, IdleRows DEF SaveGone, SaveShut, MaySave, Saved
<1>5. ASSUME NEW t \in Task, DeleteMove(t) \/ DeleteShrink(t)
      PROVE  RowsFaithful' /\ (SameVers \/ (call' = call /\ op'.step \in {"shrink", "drop"} /\ NewVer(op.dev, 0)))
  <2>1. op \in OpDelete
    BY <1>0, <1>5, InDeleteKinds DEF DeleteMove, DeleteShrink, Orderly
  <2>q. QED BY <1>0, <1>5, <2>1, DeleteMoveRows, DeleteShrinkRows DEF OpDelete
<1>q. QED BY <1>0, <1>1, <1>2, <1>3, <1>4, <1>5, NextSteps, CutRows, RepairRows, RepairEraseRows, LoadRows,
             SaveBeginRows, SaveCountRows, SaveRowRows, DeleteBeginRows, DeleteDropRows

LEMMA NextTidy == ASSUME Shape, OneRow, Tidy, [Next]_vars PROVE Tidy'
<1>1. CASE Next
  BY <1>1, NextRows DEF Tidy
<1>2. CASE UNCHANGED vars
  BY <1>2, RowsStay DEF vars, past, Tidy
<1>q. QED BY <1>1, <1>2

LEMMA InitTidy == ASSUME Init PROVE Tidy
<1>1. row = [i \in Slot |-> Hole] /\ cnt = 0 /\ op = NoOp
  BY DEF Init
<1>2. \A i \in Slot : ~(i < cnt) /\ row[i] = Hole
  BY <1>1, SlotNat
<1>q. QED BY <1>1, <1>2 DEF Tidy, RowsFaithful, SameRecord, AboveCount, FreshRow, LastCopied, NoOp

\* No step of a save or of a delete is more than a power cut and a repair away from one row
\* for each device, for any number of tasks, devices, slots and cuts: while no write fails, and
\* after failed ones that left nothing over.
THEOREM OneRowKept == Spec => []OneRowPerDevice
<1>1. Init => Shape /\ OneRow /\ Tidy
  BY InitShape, InitOneRow, InitTidy
<1>2. Shape /\ OneRow /\ Tidy /\ [Next]_vars => (Shape /\ OneRow /\ Tidy)'
  BY NextShape, NextOneRow, NextTidy
<1>3. Shape /\ OneRow => OneRowPerDevice
  BY DEF OneRow, Sound, AtRest, Unique, OneRowPerDevice
<1>q. QED BY <1>1, <1>2, <1>3, PTL DEF Spec

-----------------------------------------------------------------------------
\* The copies of records that tasks carry, and the deletes.

LEMMA LeavingIs ==
    ASSUME Shape, NEW d \in Device
    PROVE  Leaving(call, d) <=> \E t \in Task : call[t].do = "delete" /\ call[t].dev = d
<1>1. ASSUME NEW t \in Task, call[t].do = "delete", call[t].dev = d PROVE call[t] = [do |-> "delete", dev |-> d]
  <2>1. call[t] \in DeleteRec
    BY <1>1, CallKinds DEF Shape, CallOK
  <2>q. QED BY <1>1, <2>1 DEF DeleteRec
<1>2. ASSUME NEW t \in Task, call[t] = [do |-> "delete", dev |-> d] PROVE call[t].do = "delete" /\ call[t].dev = d
  BY <1>2
<1>q. QED BY <1>1, <1>2 DEF Leaving

\* A step of a task that is not deleting, and does not begin to.
LEMMA LeavingSame ==
    ASSUME Shape, NEW t \in Task, NEW k, call' = [call EXCEPT ![t] = k], call[t].do # "delete", k.do # "delete"
    PROVE  \A d : Leaving(call', d) <=> Leaving(call, d)
<1> SUFFICES ASSUME NEW d PROVE Leaving(call', d) <=> Leaving(call, d)
  OBVIOUS
<1> DEFINE del == [do |-> "delete", dev |-> d]
<1>1. del.do = "delete"
  OBVIOUS
<1> HIDE DEF del
<1>2. \A s \in Task : call'[s] = del <=> call[s] = del
  BY <1>1 DEF Shape, CallOK
<1>q. QED BY <1>2 DEF Leaving, del

\* A deleting task is a pairer that is not idle, and the device is out of the pool.
LEMMA Leaves ==
    ASSUME Shape, CopyIsPools, NEW d \in Device, Leaving(call, d)
    PROVE  pool[d] = 0 /\ \E t \in Pairer : t \in Task /\ call[t].do = "delete" /\ call[t] # Idle
<1>1. PICK t \in Task : call[t].do = "delete" /\ call[t].dev = d
  BY LeavingIs
<1>q. QED BY <1>1 DEF CopyIsPools, Idle

\* A task that has nothing to do with flash, or carries no copy.
Plain(k) == k.do \notin {"mark", "delete"} /\ (k.do = "save" => k.copy = 0)

LEMMA OtherKinds == ASSUME NEW k \in Other PROVE k \in CallRec /\ k.do \notin {"mark", "save", "delete"}
<1>1. k \in CallRec
  BY DEF CallRec
<1>q. QED BY <1>1, CallKinds

LEMMA TablePlain ==
    ASSUME Shape, TableStep
    PROVE  \E t \in Task, k \in CallRec :
              Quiet(t, k) /\ Plain(k) /\ up = "on" /\ call[t].do \notin {"mark", "save", "delete"}
<1>1. PICK t \in Task, k \in CallRec :
         Quiet(t, k) /\ Deferred(t, k) /\ up = "on" /\ call[t].do \notin {"mark", "save", "delete"}
  BY TableStepQuiet
<1>2. Plain(k)
  <2>1. CASE k \in Other
    BY <2>1, OtherKinds DEF Plain
  <2>2. CASE k \in SaveRec /\ k.copy = 0
    BY <2>2 DEF SaveRec, Plain
  <2>q. QED BY <1>1, <2>1, <2>2 DEF Deferred
<1>q. QED BY <1>1, <1>2

\* The call after a save.
LEMMA AfterSave ==
    ASSUME Shape, NEW t \in Task, NEW ok \in BOOLEAN, call[t].do = "save", Saved(t, ok)
    PROVE  \E k \in Other : call' = [call EXCEPT ![t] = k] /\ k.do \notin {"mark", "save", "delete"} /\ Plain(k)
<1>1. call[t] \in SaveRec
  BY CallKinds DEF Shape, CallOK
<1> DEFINE k == IF call[t].slot = 0 THEN call[t].back
                ELSE [do |-> "settle", slot |-> call[t].slot, ok |-> ok, back |-> call[t].back]
<1>2. k \in Other
  BY <1>1, SavedCall
<1>3. call' = [call EXCEPT ![t] = k]
  BY DEF Saved
<1> HIDE DEF k
<1>q. QED BY <1>2, <1>3, OtherKinds DEF Plain

\* Every step leaves the calls alone, takes one task on, or is a power cut.
LEMMA CallSteps ==
    ASSUME Shape, Next
    PROVE  \/ Cut
           \/ \E c \in Client : Edit(c) \/ Remove(c) \/ Mark(c)
           \/ \E t \in Task : \E k : call' = [call EXCEPT ![t] = k] /\ UNCHANGED <<pool, deferring>> /\ Plain(k)
           \/ UNCHANGED <<call, pool, deferring>>
           \/ Load
<1>0. Plain(Idle) /\ \A o : Plain(Slots(1, o, TRUE))
  BY DEF Plain, Idle, Slots
<1>6. TableStep => UNCHANGED <<pool, deferring>>
  BY TablePlain DEF Quiet, TableStep, Flush, Claim, FlushDevice, FlushNow, Look, Take, NextSlot, Settles, FlushReturn, Settle
<1>1. CASE TableStep
  BY <1>1, <1>6, TablePlain DEF Quiet
<1>2. ASSUME NEW f \in Flusher, LastSeen(f)
      PROVE  deferring' = deferring /\ (call' = call \/ \E k : call' = [call EXCEPT ![f] = k] /\ Plain(k))
  BY <1>0, <1>2 DEF LastSeen
<1>3. ASSUME NEW t \in Task, SaveGone(t) \/ SaveShut(t) \/ SaveBegin(t) \/ SaveCount(t) \/ SaveRow(t)
      PROVE  UNCHANGED <<pool, deferring>> /\ (call' = call \/ \E k : call' = [call EXCEPT ![t] = k] /\ Plain(k))
  <2>1. UNCHANGED <<pool, deferring>> /\ (call' = call \/ \E ok \in BOOLEAN : Saved(t, ok))
    BY <1>3 DEF SaveGone, SaveShut, SaveBegin, SaveCount, SaveRow
  <2>2. call[t].do = "save"
    <3>1. CASE SaveGone(t) \/ SaveShut(t) \/ SaveBegin(t)
      BY <3>1 DEF SaveGone, SaveShut, SaveBegin, MaySave
    <3>2. CASE SaveCount(t) \/ SaveRow(t)
      <4>1. call[t] \in SaveRec
        BY <3>2, OpKinds DEF SaveCount, SaveRow
      <4>q. QED BY <4>1 DEF SaveRec
    <3>q. QED BY <1>3, <3>1, <3>2
  <2>q. QED BY <2>1, <2>2, AfterSave
<1>4. ASSUME NEW t \in Task, DeleteBegin(t) \/ DeleteMove(t) \/ DeleteShrink(t) \/ DeleteDrop(t)
      PROVE  UNCHANGED <<pool, deferring>> /\ (call' = call \/ call' = [call EXCEPT ![t] = Idle])
  BY <1>4 DEF DeleteBegin, DeleteMove, DeleteShrink, DeleteDrop, Deleted
<1>5. CASE Repair \/ RepairErase
  BY <1>5 DEF Repair, RepairErase
<1>7. \A f \in Flusher : LastSeen(f) => pool' = pool /\ f \in Task
  BY DEF LastSeen, Task
<1>q. QED BY <1>0, <1>1, <1>2, <1>3, <1>4, <1>5, <1>6, <1>7, NextSteps DEF Quiet

\* The copies, when one task goes on and the pool stays.
LEMMA CopiesKept ==
    ASSUME Shape, CopyIsPools, NEW t \in Task, NEW k, call' = [call EXCEPT ![t] = k], pool' = pool, deferring' = deferring,
           k.do \notin {"mark", "delete"},
           k.do = "save" => k.copy = 0 \/ (~deferring /\ t \in Client /\ k.copy = pool[k.dev])
    PROVE  CopyIsPools'
<1> SUFFICES ASSUME NEW c \in Task
             PROVE  /\ call'[c].do = "mark"   => c \in Client /\ (deferring' \/ call'[c].ver = pool'[call'[c].dev])
                    /\ call'[c].do = "save"   => \/ call'[c].copy = 0
                                                 \/ ~deferring' /\ c \in Client /\ call'[c].copy = pool'[call'[c].dev]
                    /\ call'[c].do = "delete" => c \in Pairer /\ pool'[call'[c].dev] = 0
  BY DEF CopyIsPools
<1>1. CASE c = t
  <2>1. call'[c] = k
    BY <1>1 DEF Shape, CallOK
  <2>q. QED BY <1>1, <2>1
<1>2. CASE c # t
  <2>1. call'[c] = call[c]
    BY <1>2 DEF Shape, CallOK
  <2>q. QED BY <2>1 DEF CopyIsPools
<1>q. QED BY <1>1, <1>2

LEMMA CopiesStay == ASSUME CopyIsPools, UNCHANGED <<call, pool, deferring>> PROVE CopyIsPools'
BY DEF CopyIsPools

LEMMA MarkCopies == ASSUME Shape, CopyIsPools, NEW c \in Client, Mark(c) PROVE CopyIsPools'
<1>1. /\ c \in Task /\ call[c].do = "mark" /\ UNCHANGED <<pool, deferring>>
      /\ \/ call' = [call EXCEPT ![c] = Idle]
         \/ call' = [call EXCEPT ![c] = Saving(call[c].dev, IF deferring THEN ReadAtWrite(call[c].dev) ELSE call[c].ver, 0, Idle)]
  BY DEF Mark, Task
<1>2. CASE call' = [call EXCEPT ![c] = Idle]
  <2>1. Idle.do = "idle"
    BY DEF Idle
  <2>q. QED BY <1>1, <1>2, <2>1, CopiesKept
<1>3. CASE call' = [call EXCEPT ![c] = Saving(call[c].dev, IF deferring THEN ReadAtWrite(call[c].dev) ELSE call[c].ver, 0, Idle)]
  <2> DEFINE k == Saving(call[c].dev, IF deferring THEN ReadAtWrite(call[c].dev) ELSE call[c].ver, 0, Idle)
  <2>1. k.do = "save" /\ k.dev = call[c].dev /\ k.copy = IF deferring THEN 0 ELSE call[c].ver
    BY DEF Saving, ReadAtWrite
  <2>2. deferring \/ call[c].ver = pool[call[c].dev]
    BY <1>1 DEF CopyIsPools
  <2>3. k.copy = 0 \/ (~deferring /\ k.copy = pool[k.dev])
    BY <2>1, <2>2
  <2> HIDE DEF k
  <2>4. call' = [call EXCEPT ![c] = k]
    BY <1>3 DEF k
  <2>q. QED BY <1>1, <2>1, <2>3, <2>4, CopiesKept
<1>q. QED BY <1>1, <1>2, <1>3

\* A task that was idle is not the one that deletes.
LEMMA OtherLeaves ==
    ASSUME Shape, CopyIsPools, NEW c \in Task, call[c] = Idle, NEW k, call' = [call EXCEPT ![c] = k],
           NEW d \in Device, Leaving(call, d)
    PROVE  \E t \in Client : t # c /\ call'[t] = call[t] /\ call[t].do = "delete" /\ call[t].dev = d /\ call'[c] = k
<1>1. PICK t \in Task : call[t].do = "delete" /\ call[t].dev = d
  BY LeavingIs
<1>2. t \in Client /\ t # c
  BY <1>1, ZapConstants DEF CopyIsPools, Idle
<1>q. QED BY <1>1, <1>2 DEF Shape, CallOK

\* What an edit and a removal do to the pool and to the deletes under way.
LEMMA EditIs ==
    ASSUME Shape, CopyIsPools, Apart', NEW c \in Client, Edit(c)
    PROVE  /\ c \in Task /\ up = "on" /\ call[c] = Idle /\ edits' = edits + 1 /\ edits' \in 1..MaxEdits
           /\ UNCHANGED <<flash, op, up, fails>>
           /\ \E d \in Device :
                 /\ call' = [call EXCEPT ![c] = [do |-> "mark", dev |-> d, ver |-> edits']]
                 /\ pool' = [pool EXCEPT ![d] = edits'] /\ gone' = gone \ {d}
                 /\ pool'[d] = edits' /\ \A e \in Device : e # d => pool'[e] = pool[e]
                 /\ ~Leaving(call, d)
<1>1. PICK d \in Device :
         /\ pool[d] # 0 \/ c \in Pairer
         /\ pool' = [pool EXCEPT ![d] = edits'] /\ gone' = gone \ {d}
         /\ call' = [call EXCEPT ![c] = [do |-> "mark", dev |-> d, ver |-> edits']]
  BY DEF Edit
<1>2. c \in Task /\ up = "on" /\ call[c] = Idle /\ edits' = edits + 1 /\ edits < MaxEdits /\ UNCHANGED <<flash, op, up, fails>>
  BY DEF Edit, Task
<1>3. edits' \in 1..MaxEdits /\ pool \in [Device -> Nat]
  BY <1>2, Numbers DEF Shape, PoolOK
<1>4. pool'[d] = edits' /\ \A e \in Device : e # d => pool'[e] = pool[e]
  BY <1>1, <1>3
<1>5. ~Leaving(call, d)
  <2> SUFFICES ASSUME Leaving(call, d) PROVE FALSE
    OBVIOUS
  <2> DEFINE k == [do |-> "mark", dev |-> d, ver |-> edits']
  <2>1. k.do = "mark" /\ k.dev = d
    OBVIOUS
  <2> HIDE DEF k
  <2>2. call' = [call EXCEPT ![c] = k]
    BY <1>1 DEF k
  <2>3. PICK t \in Client : t # c /\ call'[t] = call[t] /\ call[t].do = "delete" /\ call[t].dev = d /\ call'[c] = k
    BY <1>2, <2>2, OtherLeaves
  <2>4. Busy(t, d)' /\ Busy(c, d)'
    BY <2>1, <2>3 DEF Busy
  <2>5. pool'[d] = 0
    BY <2>3, <2>4 DEF Apart
  <2>q. QED BY <1>3, <1>4, <2>5
<1>q. QED BY <1>1, <1>2, <1>3, <1>4, <1>5

LEMMA RemoveIs ==
    ASSUME Shape, CopyIsPools, Apart', NEW c \in Client, Remove(c)
    PROVE  /\ c \in Task /\ c \in Pairer /\ up = "on" /\ call[c] = Idle /\ edits' = edits
           /\ UNCHANGED <<flash, op, up, fails, gone>>
           /\ \E d \in Device :
                 /\ call' = [call EXCEPT ![c] = [do |-> "delete", dev |-> d]]
                 /\ pool' = [pool EXCEPT ![d] = 0] /\ left' = [left EXCEPT ![d] = edits]
                 /\ pool'[d] = 0 /\ \A e \in Device : e # d => pool'[e] = pool[e]
                 /\ ~Leaving(call, d)
                 /\ \A e \in Device : Leaving(call', e) <=> (e = d \/ Leaving(call, e))
<1>1. PICK d \in Device :
         /\ pool' = [pool EXCEPT ![d] = 0] /\ left' = [left EXCEPT ![d] = edits]
         /\ call' = [call EXCEPT ![c] = [do |-> "delete", dev |-> d]]
  BY DEF Remove
<1>2. c \in Task /\ c \in Pairer /\ up = "on" /\ call[c] = Idle /\ edits' = edits /\ UNCHANGED <<flash, op, up, fails, gone>>
  BY DEF Remove, Task
<1>3. pool'[d] = 0 /\ \A e \in Device : e # d => pool'[e] = pool[e]
  BY <1>1 DEF Shape, PoolOK
<1>4. ~Leaving(call, d)
  <2> SUFFICES ASSUME Leaving(call, d) PROVE FALSE
    OBVIOUS
  <2> DEFINE k == [do |-> "delete", dev |-> d]
  <2>1. k.do = "delete" /\ k.dev = d
    OBVIOUS
  <2> HIDE DEF k
  <2>2. call' = [call EXCEPT ![c] = k]
    BY <1>1 DEF k
  <2>3. PICK t \in Client : t # c /\ call'[t] = call[t] /\ call[t].do = "delete" /\ call[t].dev = d /\ call'[c] = k
    BY <1>2, <2>2, OtherLeaves
  <2>4. Busy(t, d)' /\ Busy(c, d)'
    BY <2>1, <2>3 DEF Busy
  <2>q. QED BY <2>1, <2>3, <2>4 DEF Apart
<1>5. \A e \in Device : Leaving(call', e) <=> (e = d \/ Leaving(call, e))
  <2> DEFINE k == [do |-> "delete", dev |-> d]
  <2>1. \A e : k = [do |-> "delete", dev |-> e] <=> e = d
    OBVIOUS
  <2> HIDE DEF k
  <2>2. call'[c] = k /\ \A t \in Task : t # c => call'[t] = call[t]
    BY <1>1, <1>2 DEF Shape, CallOK, k
  <2>3. \A e : call[c] # [do |-> "delete", dev |-> e]
    BY <1>2 DEF Idle
  <2>q. QED BY <1>2, <2>1, <2>2, <2>3 DEF Leaving
<1>q. QED BY <1>1, <1>2, <1>3, <1>4, <1>5

LEMMA EditCopies == ASSUME Shape, CopyIsPools, Apart', NEW c \in Client, Edit(c) PROVE CopyIsPools'
<1>1. c \in Task /\ call[c] = Idle
  BY EditIs
<1>2. PICK d \in Device :
         /\ call' = [call EXCEPT ![c] = [do |-> "mark", dev |-> d, ver |-> edits']]
         /\ pool'[d] = edits' /\ (\A e \in Device : e # d => pool'[e] = pool[e]) /\ ~Leaving(call, d)
  BY EditIs
<1> DEFINE k == [do |-> "mark", dev |-> d, ver |-> edits']
<1>3. k.do = "mark" /\ k.dev = d /\ k.ver = edits'
  OBVIOUS
<1> HIDE DEF k
<1>4. call' = [call EXCEPT ![c] = k]
  BY <1>2 DEF k
<1> SUFFICES ASSUME NEW t \in Task
             PROVE  /\ call'[t].do = "mark"   => t \in Client /\ (deferring' \/ call'[t].ver = pool'[call'[t].dev])
                    /\ call'[t].do = "save"   => \/ call'[t].copy = 0
                                                 \/ ~deferring' /\ t \in Client /\ call'[t].copy = pool'[call'[t].dev]
                    /\ call'[t].do = "delete" => t \in Pairer /\ pool'[call'[t].dev] = 0
  BY DEF CopyIsPools
<1>7. deferring' = deferring
  BY DEF Edit
<1>5. CASE t = c
  <2>1. call'[t] = k
    BY <1>1, <1>4, <1>5 DEF Shape, CallOK
  <2>q. QED BY <1>2, <1>3, <1>5, <2>1
<1>6. CASE t # c
  <2>1. call'[t] = call[t]
    BY <1>1, <1>4, <1>6 DEF Shape, CallOK
  <2>2. ASSUME call[t].do \in {"mark", "save"}, t \in Client, ~deferring PROVE pool'[call[t].dev] = pool[call[t].dev]
    <3>1. call[t].dev \in Device
      BY <2>2, CallKinds DEF Shape, CallOK, MarkRec, SaveRec
    <3>2. CASE call[t].dev = d
      <4>1. Busy(t, d)' /\ Busy(c, d)'
        BY <1>1, <1>3, <1>4, <2>1, <2>2, <3>2 DEF Busy, Shape, CallOK
      <4>q. QED BY <1>6, <1>7, <2>2, <4>1 DEF Apart
    <3>q. QED BY <1>2, <3>1, <3>2
  <2>3. ASSUME call[t].do = "delete" PROVE t \in Pairer /\ pool'[call[t].dev] = 0
    <3>1. call[t] \in DeleteRec
      BY <2>3, CallKinds DEF Shape, CallOK
    <3>2. call[t].dev \in Device
      BY <3>1 DEF DeleteRec
    <3>3. call[t].dev # d
      BY <1>2, <2>3, <3>2, LeavingIs
    <3>q. QED BY <1>2, <2>3, <3>2, <3>3 DEF CopyIsPools
  <2>q. QED BY <1>7, <2>1, <2>2, <2>3 DEF CopyIsPools
<1>q. QED BY <1>5, <1>6

LEMMA RemoveCopies == ASSUME Shape, CopyIsPools, Apart', NEW c \in Client, Remove(c) PROVE CopyIsPools'
<1>1. c \in Task /\ c \in Pairer /\ call[c] = Idle
  BY RemoveIs
<1>2. PICK d \in Device :
         /\ call' = [call EXCEPT ![c] = [do |-> "delete", dev |-> d]]
         /\ pool'[d] = 0 /\ \A e \in Device : e # d => pool'[e] = pool[e]
  BY RemoveIs
<1> DEFINE k == [do |-> "delete", dev |-> d]
<1>3. k.do = "delete" /\ k.dev = d
  OBVIOUS
<1> HIDE DEF k
<1>4. call' = [call EXCEPT ![c] = k]
  BY <1>2 DEF k
<1> SUFFICES ASSUME NEW t \in Task
             PROVE  /\ call'[t].do = "mark"   => t \in Client /\ (deferring' \/ call'[t].ver = pool'[call'[t].dev])
                    /\ call'[t].do = "save"   => \/ call'[t].copy = 0
                                                 \/ ~deferring' /\ t \in Client /\ call'[t].copy = pool'[call'[t].dev]
                    /\ call'[t].do = "delete" => t \in Pairer /\ pool'[call'[t].dev] = 0
  BY DEF CopyIsPools
<1>7. deferring' = deferring
  BY DEF Remove
<1>5. CASE t = c
  <2>1. call'[t] = k
    BY <1>1, <1>4, <1>5 DEF Shape, CallOK
  <2>q. QED BY <1>1, <1>2, <1>3, <1>5, <2>1
<1>6. CASE t # c
  <2>1. call'[t] = call[t]
    BY <1>1, <1>4, <1>6 DEF Shape, CallOK
  <2>2. ASSUME call[t].do \in {"mark", "save"}, t \in Client, ~deferring PROVE pool'[call[t].dev] = pool[call[t].dev]
    <3>1. call[t].dev \in Device
      BY <2>2, CallKinds DEF Shape, CallOK, MarkRec, SaveRec
    <3>2. CASE call[t].dev = d
      <4>1. Busy(t, d)' /\ Busy(c, d)'
        BY <1>1, <1>3, <1>4, <2>1, <2>2, <3>2 DEF Busy, Shape, CallOK
      <4>q. QED BY <1>6, <1>7, <2>2, <4>1 DEF Apart
    <3>q. QED BY <1>2, <3>1, <3>2
  <2>3. ASSUME call[t].do = "delete" PROVE t \in Pairer /\ pool'[call[t].dev] = 0
    <3>1. call[t] \in DeleteRec
      BY <2>3, CallKinds DEF Shape, CallOK
    <3>2. call[t].dev \in Device
      BY <3>1 DEF DeleteRec
    <3>q. QED BY <1>2, <2>3, <3>2 DEF CopyIsPools
  <2>q. QED BY <1>7, <2>1, <2>2, <2>3 DEF CopyIsPools
<1>q. QED BY <1>5, <1>6

LEMMA NextCopies ==
    ASSUME Apart', Shape, CopyIsPools, [Next]_vars
    PROVE  CopyIsPools'
<1>1. CASE UNCHANGED vars
  BY <1>1, CopiesStay DEF vars
<1>2. CASE Cut
  BY <1>2 DEF Cut, CopyIsPools, Idle
<1>3. CASE Load
  <2>1. \A t \in Task : call'[t] = Idle
    BY <1>3 DEF Load, Shape, UpOK
  <2>q. QED BY <2>1 DEF CopyIsPools, Idle
<1>4. ASSUME NEW t \in Task, NEW k, call' = [call EXCEPT ![t] = k], UNCHANGED <<pool, deferring>>, Plain(k) PROVE CopyIsPools'
  BY <1>4, CopiesKept DEF Plain
<1>q. QED BY <1>1, <1>2, <1>3, <1>4, CallSteps, CopiesStay, EditCopies, RemoveCopies, MarkCopies

-----------------------------------------------------------------------------
\* Flash is never ahead of the pool, and the refinement of DeviceMap.

MapStep == [Map!Next]_<<pool, [d \in Device |-> VerIn(row, cnt, d)], {d \in Device : Leaving(call, d)}, fails > 0 \/ leftover>>

LEMMA VerNat == ASSUME Shape, NEW d PROVE VerIn(row, cnt, d) \in Nat
BY RowsAre DEF Durable, RowsOf, VerIn, RowsIn

\* A failed write is not forgotten.
LEMMA FailsStay == ASSUME Shape, Next PROVE fails \in Nat /\ fails' \in Nat /\ (Written \/ (Fails /\ fails' # 0))
<1>1. fails \in Nat
  BY DEF Shape, FlashOK
<1>2. ASSUME Written \/ Fails PROVE fails' \in Nat /\ (Written \/ (Fails /\ fails' # 0))
  BY <1>1, <1>2 DEF Written, Fails
<1>3. Cut \/ Repair \/ RepairErase \/ Load => Written \/ Fails
  BY DEF Cut, Repair, RepairErase, Load, past, Written
<1>4. ASSUME NEW c \in Client, Edit(c) \/ Remove(c) \/ Mark(c) PROVE Written
  BY <1>4 DEF Edit, Remove, Mark, past, Written
<1>5. TableStep => Written
  BY TableStepQuiet DEF Quiet, Written
<1>6. ASSUME NEW f \in Flusher, LastSeen(f) PROVE Written
  BY <1>6 DEF LastSeen, past, Written
<1>7. ASSUME NEW t \in Task, SaveGone(t) \/ SaveShut(t) \/ SaveBegin(t) \/ SaveCount(t) \/ SaveRow(t) PROVE Written \/ Fails
  BY <1>7 DEF SaveGone, SaveShut, SaveBegin, SaveCount, SaveRow, past, Written
<1>8. ASSUME NEW t \in Task, DeleteBegin(t) \/ DeleteMove(t) \/ DeleteShrink(t) \/ DeleteDrop(t) PROVE Written \/ Fails
  BY <1>8 DEF DeleteBegin, DeleteMove, DeleteShrink, DeleteDrop, past
<1>9. Written \/ Fails
  BY <1>3, <1>4, <1>5, <1>6, <1>7, <1>8, NextSteps
<1>q. QED BY <1>1, <1>2, <1>9

\* A step at which nothing is left over, and what it has to show.
Ready ==
    /\ Shape /\ Shape' /\ OneRow /\ ~leftover /\ ~leftover' /\ RowsFaithful /\ RowsFaithful'
    /\ CopyIsPools /\ FlashIsBehind
    /\ fails \in Nat /\ fails' \in Nat /\ (Written \/ (Fails /\ fails' # 0))

Kept == FlashIsBehind' /\ (fails' = 0 => MapStep)

LEMMA ReadyIs == ASSUME Ready PROVE Orderly /\ (fails > 0 => fails' > 0) /\ (fails' = 0 => fails = 0 /\ ~Fails)
<1>1. Orderly
  BY DEF Ready, Orderly
<1>2. (fails > 0 => fails' > 0) /\ (fails' = 0 => fails = 0 /\ ~Fails)
  BY DEF Ready, Written, Fails
<1>q. QED BY <1>1, <1>2

\* What the abstract step is, when no write failed.
LEMMA MapStutters ==
    ASSUME Ready, fails' = 0, pool' = pool, SameVers, \A d \in Device : Leaving(call', d) <=> Leaving(call, d)
    PROVE  MapStep
<1>1. [d \in Device |-> VerIn(row', cnt', d)] = [d \in Device |-> VerIn(row, cnt, d)]
  BY DEF SameVers
<1>2. {d \in Device : Leaving(call', d)} = {d \in Device : Leaving(call, d)}
  OBVIOUS
<1>3. (fails > 0 \/ leftover)' = (fails > 0 \/ leftover)
  BY ReadyIs DEF Ready
<1>q. QED BY <1>1, <1>2, <1>3 DEF MapStep

LEMMA MapMoves ==
    ASSUME Ready, fails' = 0,
           Map!Cut \/ Map!Boot \/ \E d \in Device : Map!Change(d) \/ Map!Leave(d) \/ Map!Persist(d) \/ Map!Erase(d) \/ Map!Done(d)
    PROVE  MapStep
<1>1. (fails > 0 \/ leftover)' = (fails > 0 \/ leftover)
  BY ReadyIs DEF Ready
<1>q. QED BY <1>1 DEF MapStep, Map!Next

\* The abstract variables, and those of the lemmas.
LEMMA Views ==
    /\ \A d : Durable(d) = VerIn(row, cnt, d) /\ (Deleting(d) <=> Leaving(call, d))
    /\ \A d : Durable(d)' = VerIn(row', cnt', d) /\ (Deleting(d)' <=> Leaving(call', d))
<1>1. \A d : Durable(d) = VerIn(row, cnt, d) /\ Durable(d)' = VerIn(row', cnt', d)
  BY DEF Durable, RowsOf, VerIn, RowsIn
<1>2. \A d : Deleting(d) <=> Leaving(call, d)
  BY DEF Deleting, Leaving
<1>3. \A d : Deleting(d)' <=> Leaving(call', d)
  BY DEF Deleting, Leaving
<1>q. QED BY <1>1, <1>2, <1>3

\* The records of the devices and of the pool, once more as numbers.
LEMMA Behind ==
    ASSUME Ready
    PROVE  /\ edits \in Nat /\ \A d \in Device : pool[d] \in Nat /\ pool[d] <= edits
           /\ \A d \in Device : VerIn(row, cnt, d) \in Nat /\ VerIn(row, cnt, d) <= edits
           /\ up = "on" => \A d \in Device : LetGo(call, pool, fails, d) \/ VerIn(row, cnt, d) <= pool[d]
           /\ op.step \in {"more", "row"} =>
                 /\ op.dev \in Device /\ op.ver \in Nat /\ op.ver # 0 /\ op.ver <= edits /\ VerIn(row, cnt, op.dev) <= op.ver
                 /\ LetGo(call, pool, fails, op.dev) \/ op.ver <= pool[op.dev]
<1>1. edits \in Nat /\ \A d \in Device : pool[d] \in Nat /\ VerIn(row, cnt, d) \in Nat
  BY VerNat, Numbers DEF Ready, Shape, PoolOK
<1>2. op.step \in {"more", "row"} => op.dev \in Device /\ op.ver \in Nat
  BY OpKinds DEF Ready, OpSave
<1>q. QED BY <1>1, <1>2 DEF Ready, FlashIsBehind

LEMMA LetGoStays ==
    ASSUME Ready, NEW d \in Device, LetGo(call, pool, fails, d), pool'[d] = pool[d],
           Leaving(call, d) => Leaving(call', d) \/ (fails' > 0 /\ pool[d] = 0)
    PROVE  LetGo(call', pool', fails', d)
BY ReadyIs DEF LetGo

\* The records stay; no operation begins to save.
LEMMA BehindKept ==
    ASSUME Ready, UNCHANGED <<pool, edits>>, up' = up \/ up' # "on",
           \A d \in Device : VerIn(row', cnt', d) = VerIn(row, cnt, d) \/ VerIn(row', cnt', d) = 0,
           \A d \in Device : Leaving(call, d) => Leaving(call', d) \/ fails' > 0 \/ VerIn(row', cnt', d) = 0,
           \/ op'.step \notin {"more", "row"}
           \/ /\ op.step \in {"more", "row"} /\ op'.dev = op.dev /\ op'.ver = op.ver
              /\ Leaving(call, op.dev) => Leaving(call', op.dev)
    PROVE  FlashIsBehind'
<1>1. \A d \in Device : pool'[d] <= edits' /\ VerIn(row', cnt', d) <= edits'
  <2>1. 0 <= edits
    BY Behind
  <2>q. QED BY <2>1, Behind
<1>2. ASSUME up' = "on", NEW d \in Device PROVE LetGo(call', pool', fails', d) \/ VerIn(row', cnt', d) <= pool'[d]
  <2>1. CASE VerIn(row', cnt', d) = 0
    BY <2>1, Behind
  <2>2. CASE VerIn(row', cnt', d) # 0 /\ LetGo(call, pool, fails, d)
    <3>1. Leaving(call, d) => Leaving(call', d) \/ (fails' > 0 /\ pool[d] = 0)
      BY <2>2, Leaves DEF Ready
    <3>q. QED BY <2>2, <3>1, LetGoStays
  <2>3. CASE VerIn(row', cnt', d) = VerIn(row, cnt, d) /\ ~LetGo(call, pool, fails, d)
    BY <1>2, <2>3, Behind
  <2>q. QED BY <2>1, <2>2, <2>3
<1>3. ASSUME op'.step \in {"more", "row"}
      PROVE  /\ op'.ver # 0 /\ op'.ver <= edits' /\ VerIn(row', cnt', op'.dev) <= op'.ver
             /\ LetGo(call', pool', fails', op'.dev) \/ op'.ver <= pool'[op'.dev]
  <2>1. /\ op.step \in {"more", "row"} /\ op'.dev = op.dev /\ op'.ver = op.ver
        /\ Leaving(call, op.dev) => Leaving(call', op.dev)
    BY <1>3
  <2>2. /\ op.dev \in Device /\ op.ver \in Nat /\ op.ver # 0 /\ op.ver <= edits /\ VerIn(row, cnt, op.dev) <= op.ver
        /\ LetGo(call, pool, fails, op.dev) \/ op.ver <= pool[op.dev]
    BY <2>1, Behind
  <2>3. VerIn(row', cnt', op.dev) <= op.ver
    BY <2>2
  <2>4. LetGo(call, pool, fails, op.dev) => LetGo(call', pool', fails', op.dev)
    BY <2>1, <2>2, LetGoStays
  <2>q. QED BY <2>1, <2>2, <2>3, <2>4
<1>q. QED BY <1>1, <1>2, <1>3 DEF FlashIsBehind

\* A step that leaves the records, the pool and the deletes as they are.
LEMMA SteadyKept ==
    ASSUME Ready, UNCHANGED <<pool, edits>>, up' = up \/ up' # "on", SameVers, \A d : Leaving(call', d) <=> Leaving(call, d),
           op'.step \notin {"more", "row"} \/ (op.step \in {"more", "row"} /\ op'.dev = op.dev /\ op'.ver = op.ver)
    PROVE  Kept
<1>1. FlashIsBehind'
  BY BehindKept DEF SameVers
<1>2. fails' = 0 => MapStep
  BY MapStutters
<1>q. QED BY <1>1, <1>2 DEF Kept

\* A step of a task that deletes nothing, away from flash.
LEMMA CallKept ==
    ASSUME Ready, NEW t \in Task, NEW k, call' = [call EXCEPT ![t] = k], UNCHANGED <<flash, pool, edits, up>>, op' = op,
           call[t].do # "delete", k.do # "delete"
    PROVE  Kept
<1>1. \A d : Leaving(call', d) <=> Leaving(call, d)
  BY LeavingSame DEF Ready
<1>2. SameVers
  BY DEF SameVers, flash
<1>q. QED BY <1>1, <1>2, SteadyKept

LEMMA MarkKept == ASSUME Ready, NEW c \in Client, Mark(c) PROVE Kept
<1>1. \E k : call' = [call EXCEPT ![c] = k] /\ k.do # "delete"
  BY DEF Mark, Idle, Saving
<1>2. c \in Task /\ call[c].do = "mark" /\ UNCHANGED <<flash, pool, edits, up>> /\ op' = op
  BY DEF Mark, past, Task
<1>q. QED BY <1>1, <1>2, CallKept

LEMMA LastSeenKept == ASSUME Ready, NEW f \in Flusher, LastSeen(f) PROVE Kept
<1>1. f \in Task /\ UNCHANGED <<flash, pool, edits, up>> /\ op' = op
  BY DEF LastSeen, Task, past
<1>2. \E k : call' = [call EXCEPT ![f] = k] /\ call[f].do # "delete" /\ k.do # "delete"
  <2>1. CASE call[f] = Idle /\ UNCHANGED call
    <3>1. call' = [call EXCEPT ![f] = Idle] /\ Idle.do = "idle"
      BY <2>1 DEF Ready, Shape, CallOK, Idle
    <3>q. QED BY <2>1, <3>1
  <2>2. CASE call[f].do = "lastSeen" /\ call' = [call EXCEPT ![f] = Slots(1, @.owed, TRUE)]
    <3> DEFINE k == Slots(1, call[f].owed, TRUE)
    <3>1. k.do = "slots" /\ call' = [call EXCEPT ![f] = k]
      BY <2>2 DEF Slots
    <3> HIDE DEF k
    <3>q. QED BY <2>2, <3>1
  <2>q. QED BY <2>1, <2>2 DEF LastSeen
<1>q. QED BY <1>1, <1>2, CallKept

LEMMA TableKept == ASSUME Ready, TableStep PROVE Kept
<1>1. PICK t \in Task, k \in CallRec : Quiet(t, k) /\ Plain(k) /\ call[t].do \notin {"mark", "save", "delete"}
  BY TablePlain DEF Ready
<1>q. QED BY <1>1, CallKept DEF Quiet, past, Plain

LEMMA EditKept == ASSUME Ready, Apart', NEW c \in Client, Edit(c) PROVE Kept
<1>1. c \in Task /\ up = "on" /\ call[c] = Idle /\ edits' = edits + 1 /\ edits' \in 1..MaxEdits /\ UNCHANGED <<flash, op, up, fails>>
  BY EditIs DEF Ready
<1>2. PICK d \in Device :
         /\ call' = [call EXCEPT ![c] = [do |-> "mark", dev |-> d, ver |-> edits']]
         /\ pool' = [pool EXCEPT ![d] = edits']
         /\ pool'[d] = edits' /\ (\A e \in Device : e # d => pool'[e] = pool[e]) /\ ~Leaving(call, d)
  BY EditIs DEF Ready
<1>3. \A e : Leaving(call', e) <=> Leaving(call, e)
  <2> DEFINE k == [do |-> "mark", dev |-> d, ver |-> edits']
  <2>1. k.do # "delete" /\ call[c].do # "delete"
    BY <1>1 DEF Idle
  <2> HIDE DEF k
  <2>2. call' = [call EXCEPT ![c] = k]
    BY <1>2 DEF k
  <2>q. QED BY <1>1, <2>1, <2>2, LeavingSame DEF Ready
<1>4. \A e : VerIn(row', cnt', e) = VerIn(row, cnt, e)
  BY <1>1 DEF flash
<1>5. edits \in Nat /\ edits < edits' /\ \A v \in Nat : v <= edits => v <= edits' /\ v < edits'
  BY <1>1, Behind
<1>6. FlashIsBehind'
  <2>1. \A e \in Device : pool'[e] <= edits' /\ VerIn(row', cnt', e) <= edits'
    BY <1>1, <1>2, <1>4, <1>5, Behind
  <2>2. ASSUME NEW e \in Device PROVE LetGo(call', pool', fails', e) \/ VerIn(row', cnt', e) <= pool'[e]
    <3>1. CASE e = d
      BY <1>2, <1>4, <1>5, <3>1, Behind
    <3>2. CASE e # d
      <4>1. LetGo(call, pool, fails, e) => LetGo(call', pool', fails', e)
        BY <1>2, <1>3, <3>2, LetGoStays
      <4>q. QED BY <1>1, <1>2, <1>4, <3>2, <4>1, Behind
    <3>q. QED BY <3>1, <3>2
  <2>3. ASSUME op'.step \in {"more", "row"}
        PROVE  /\ op'.ver # 0 /\ op'.ver <= edits' /\ VerIn(row', cnt', op'.dev) <= op'.ver
               /\ LetGo(call', pool', fails', op'.dev) \/ op'.ver <= pool'[op'.dev]
    <3>1. op' = op
      BY <1>1
    <3>2. /\ op.dev \in Device /\ op.ver \in Nat /\ op.ver # 0 /\ op.ver <= edits /\ VerIn(row, cnt, op.dev) <= op.ver
          /\ LetGo(call, pool, fails, op.dev) \/ op.ver <= pool[op.dev]
      BY <2>3, <3>1, Behind
    <3>3. LetGo(call', pool', fails', op'.dev) \/ op.ver <= pool'[op.dev]
      <4>1. CASE op.dev = d
        BY <1>2, <1>5, <3>2, <4>1
      <4>2. CASE op.dev # d
        BY <1>1, <1>2, <1>3, <3>1, <3>2, <4>2 DEF LetGo
      <4>q. QED BY <4>1, <4>2
    <3>q. QED BY <1>4, <1>5, <3>1, <3>2, <3>3
  <2>q. QED BY <2>1, <2>2, <2>3 DEF FlashIsBehind
<1>7. ASSUME fails' = 0 PROVE MapStep
  <2>1. \A e \in Device : (Deleting(e)' <=> Deleting(e)) /\ Durable(e)' = Durable(e)
    BY <1>3, <1>4, Views
  <2>2. ~Deleting(d)
    BY <1>2, Views
  <2>3. edits' > Durable(d) /\ edits' > pool[d]
    BY <1>1, <1>5, Behind, Views
  <2>4. [e \in Device |-> Durable(e)]' = [e \in Device |-> Durable(e)]
    BY <2>1
  <2>5. {e \in Device : Deleting(e)}' = {e \in Device : Deleting(e)}
    BY <2>1
  <2>6. Map!Change(d)
    BY <1>1, <1>2, <2>2, <2>3, <2>4, <2>5 DEF Map!Change
  <2>q. QED BY <1>7, <2>6, MapMoves
<1>q. QED BY <1>6, <1>7 DEF Kept

LEMMA RemoveKept == ASSUME Ready, Apart', NEW c \in Client, Remove(c) PROVE Kept
<1>1. c \in Task /\ up = "on" /\ edits' = edits /\ UNCHANGED <<flash, op, up, fails>>
  BY RemoveIs DEF Ready
<1>2. PICK d \in Device :
         /\ pool' = [pool EXCEPT ![d] = 0] /\ pool'[d] = 0 /\ (\A e \in Device : e # d => pool'[e] = pool[e])
         /\ ~Leaving(call, d) /\ \A e \in Device : Leaving(call', e) <=> (e = d \/ Leaving(call, e))
  BY RemoveIs DEF Ready
<1>3. \A e : VerIn(row', cnt', e) = VerIn(row, cnt, e)
  BY <1>1 DEF flash
<1>4. \A e \in Device : LetGo(call, pool, fails, e) \/ e = d => LetGo(call', pool', fails', e)
  BY <1>1, <1>2 DEF LetGo
<1>5. FlashIsBehind'
  <2>1. \A e \in Device : pool'[e] <= edits' /\ VerIn(row', cnt', e) <= edits'
    <3>1. 0 <= edits
      BY Behind
    <3>q. QED BY <1>1, <1>2, <1>3, <3>1, Behind
  <2>2. ASSUME NEW e \in Device PROVE LetGo(call', pool', fails', e) \/ VerIn(row', cnt', e) <= pool'[e]
    BY <1>1, <1>2, <1>3, <1>4, Behind
  <2>3. ASSUME op'.step \in {"more", "row"}
        PROVE  /\ op'.ver # 0 /\ op'.ver <= edits' /\ VerIn(row', cnt', op'.dev) <= op'.ver
               /\ LetGo(call', pool', fails', op'.dev) \/ op'.ver <= pool'[op'.dev]
    <3>1. op' = op
      BY <1>1
    <3>2. /\ op.dev \in Device /\ op.ver \in Nat /\ op.ver # 0 /\ op.ver <= edits /\ VerIn(row, cnt, op.dev) <= op.ver
          /\ LetGo(call, pool, fails, op.dev) \/ op.ver <= pool[op.dev]
      BY <2>3, <3>1, Behind
    <3>3. LetGo(call', pool', fails', op'.dev) \/ op.ver <= pool'[op.dev]
      BY <1>1, <1>2, <3>1, <3>2 DEF LetGo
    <3>q. QED BY <1>1, <1>3, <3>1, <3>2, <3>3
  <2>q. QED BY <2>1, <2>2, <2>3 DEF FlashIsBehind
<1>6. ASSUME fails' = 0 PROVE MapStep
  <2>1. \A e \in Device : (Deleting(e)' <=> (e = d \/ Deleting(e))) /\ Durable(e)' = Durable(e)
    BY <1>2, <1>3, Views
  <2>2. ~Deleting(d)
    BY <1>2, Views
  <2>3. [e \in Device |-> Durable(e)]' = [e \in Device |-> Durable(e)]
    BY <2>1
  <2>4. {e \in Device : Deleting(e)}' = {e \in Device : Deleting(e)} \cup {d}
    BY <2>1
  <2>5. Map!Leave(d)
    BY <1>2, <2>2, <2>3, <2>4 DEF Map!Leave
  <2>q. QED BY <1>6, <2>5, MapMoves
<1>q. QED BY <1>5, <1>6 DEF Kept

\* A save that ends without a write.
LEMMA UnsavedKept ==
    ASSUME Ready, NEW t \in Task, NEW ok \in BOOLEAN, call[t].do = "save", Saved(t, ok), UNCHANGED <<pool, edits, up>>, SameVers
    PROVE  Kept
<1>1. PICK k : call' = [call EXCEPT ![t] = k] /\ k.do # "delete"
  BY AfterSave DEF Ready
<1>2. \A d : Leaving(call', d) <=> Leaving(call, d)
  BY <1>1, LeavingSame DEF Ready
<1>3. op'.step \notin {"more", "row"}
  BY DEF Saved, NoOp
<1>q. QED BY <1>2, <1>3, SteadyKept

LEMMA SaveIdleKept == ASSUME Ready, NEW t \in Task, SaveGone(t) \/ SaveShut(t) PROVE Kept
<1>1. call[t].do = "save" /\ (\E ok \in BOOLEAN : Saved(t, ok)) /\ UNCHANGED <<flash, pool, edits, up>>
  BY DEF SaveGone, SaveShut, MaySave, past
<1>2. SameVers
  BY <1>1 DEF SameVers, flash
<1>q. QED BY <1>1, <1>2, UnsavedKept

LEMMA SaveBeginKept == ASSUME Ready, NEW t \in Task, SaveBegin(t) PROVE Kept
<1> DEFINE d == call[t].dev
           v == Record(t)
           Write(step, i) == op' = [step |-> step, task |-> t, dev |-> d, ver |-> v, pos |-> i]
<1>1. call[t].do = "save" /\ op = NoOp /\ UNCHANGED <<flash, pool, edits, up>> /\ v # 0
  BY DEF SaveBegin, MaySave, past
<1>2. call[t] \in SaveRec /\ d \in Device /\ v \in Nat
  BY <1>1, RecordType DEF Ready
<1>3. up = "on"
  BY <1>2, UpKinds DEF SaveRec, Idle, Ready
<1>4. v = pool[d]
  BY <1>1 DEF Record, Ready, CopyIsPools
<1>5. ~LetGo(call, pool, fails, d)
  BY <1>1, <1>2, <1>4, Leaves DEF Ready, LetGo
<1>6. VerIn(row, cnt, d) <= v /\ v <= edits
  BY <1>2, <1>3, <1>4, <1>5, Behind
<1>7. SameVers
  BY SaveBeginRows, ReadyIs
<1>8. ASSUME NEW step \in {"row", "more"}, NEW i, Write(step, i), UNCHANGED call PROVE Kept
  <2> HIDE DEF d, v
  <2>0. op'.dev = d /\ op'.ver = v /\ op'.step \in {"row", "more"}
    BY <1>8
  <2>1. FlashIsBehind'
    <3>1. op'.ver # 0 /\ op'.ver <= edits' /\ VerIn(row', cnt', op'.dev) <= op'.ver /\ op'.ver <= pool'[op'.dev]
      BY <1>1, <1>2, <1>4, <1>6, <1>7, <2>0, Behind DEF SameVers
    <3>2. \A e \in Device : LetGo(call, pool, fails, e) => LetGo(call', pool', fails', e)
      BY <1>1, <1>8, LetGoStays
    <3>3. /\ \A e \in Device : pool'[e] <= edits' /\ VerIn(row', cnt', e) <= edits'
          /\ \A e \in Device : LetGo(call', pool', fails', e) \/ VerIn(row', cnt', e) <= pool'[e]
      BY <1>1, <1>3, <1>7, <3>2, Behind DEF SameVers
    <3>q. QED BY <3>1, <3>3 DEF FlashIsBehind
  <2>2. fails' = 0 => MapStep
    BY <1>1, <1>7, <1>8, MapStutters
  <2>q. QED BY <2>1, <2>2 DEF Kept
<1>9. CASE Saved(t, FALSE)
  BY <1>1, <1>7, <1>9, UnsavedKept
<1>q. QED BY <1>8, <1>9 DEF SaveBegin

LEMMA SaveCountKept == ASSUME Ready, NEW t \in Task, SaveCount(t) PROVE Kept
<1>1. op.step = "more" /\ op.task = t /\ UNCHANGED <<pool, edits, up>> /\ op \in OpSave /\ call[t].do = "save"
  BY OpKinds DEF SaveCount, SaveRec, past, Ready
<1>2. SameVers
  BY SaveCountRows, ReadyIs
<1>3. CASE op' = [op EXCEPT !.step = "row"] /\ UNCHANGED call
  BY <1>1, <1>2, <1>3, SteadyKept DEF OpSave
<1>4. CASE Saved(t, FALSE)
  BY <1>1, <1>2, <1>4, UnsavedKept
<1>q. QED BY <1>3, <1>4 DEF SaveCount

LEMMA SaveRowKept == ASSUME Ready, NEW t \in Task, SaveRow(t) PROVE Kept
<1> DEFINE d == op.dev
           v == op.ver
<1>1. op.step = "row" /\ op.task = t /\ UNCHANGED <<pool, edits, up>> /\ call[t].do = "save" /\ up = "on"
  BY OpKinds DEF SaveRow, SaveRec, past, Ready
<1>2. /\ d \in Device /\ v \in Nat /\ v # 0 /\ v <= edits /\ VerIn(row, cnt, d) <= v /\ VerIn(row, cnt, d) \in Nat
      /\ LetGo(call, pool, fails, d) \/ v <= pool[d]
  BY <1>1, Behind
<1>3. CASE SameVers /\ Saved(t, FALSE)
  BY <1>1, <1>3, UnsavedKept
<1>4. CASE Written /\ NewVer(d, v) /\ Saved(t, TRUE)
  <2> HIDE DEF d, v
  <2>1. VerIn(row', cnt', d) = v /\ \A e \in Device : e # d => VerIn(row', cnt', e) = VerIn(row, cnt, e)
    BY <1>4 DEF NewVer
  <2>2. \A e : Leaving(call', e) <=> Leaving(call, e)
    <3>1. PICK k : call' = [call EXCEPT ![t] = k] /\ k.do # "delete"
      BY <1>1, <1>4, AfterSave DEF Ready
    <3>q. QED BY <1>1, <3>1, LeavingSame DEF Ready
  <2>3. FlashIsBehind'
    <3>1. ASSUME NEW e \in Device
          PROVE  pool'[e] <= edits' /\ VerIn(row', cnt', e) <= edits' /\ (LetGo(call', pool', fails', e) \/ VerIn(row', cnt', e) <= pool'[e])
      <4>1. LetGo(call, pool, fails, e) => LetGo(call', pool', fails', e)
        BY <1>1, <2>2, LetGoStays
      <4>q. QED BY <1>1, <1>2, <2>1, <4>1, Behind
    <3>2. op'.step \notin {"more", "row"}
      BY <1>4 DEF Saved, NoOp
    <3>q. QED BY <3>1, <3>2 DEF FlashIsBehind
  <2>4. ASSUME fails' = 0 PROVE MapStep
    <3>1. CASE v = VerIn(row, cnt, d)
      <4>1. SameVers
        BY <2>1, <3>1 DEF SameVers
      <4>q. QED BY <1>1, <2>2, <2>4, <4>1, MapStutters
    <3>2. CASE v # VerIn(row, cnt, d)
      <4>1. \A e \in Device : Deleting(e)' <=> Deleting(e)
        BY <2>2, Views
      <4>2. \A e \in Device : Durable(e)' = IF e = d THEN v ELSE Durable(e)
        BY <2>1, Views
      <4>3. v > Durable(d) /\ (v <= pool[d] \/ Deleting(d))
        <5>1. Durable(d) = VerIn(row, cnt, d) /\ (LetGo(call, pool, fails, d) => Deleting(d))
          BY <2>4, Views, ReadyIs DEF LetGo
        <5>q. QED BY <1>2, <3>2, <5>1
      <4>4. v \in 1..MaxEdits
        BY <1>2, Numbers DEF Ready, Shape, PoolOK
      <4>5. [e \in Device |-> Durable(e)]' = [[e \in Device |-> Durable(e)] EXCEPT ![d] = v]
        BY <1>2, <4>2
      <4>6. {e \in Device : Deleting(e)}' = {e \in Device : Deleting(e)}
        BY <4>1
      <4>7. Map!Persist(d)
        BY <1>1, <1>2, <4>3, <4>4, <4>5, <4>6 DEF Map!Persist
      <4>q. QED BY <1>2, <2>4, <4>7, MapMoves
    <3>q. QED BY <3>1, <3>2
  <2>q. QED BY <2>3, <2>4 DEF Kept
<1>q. QED BY <1>3, <1>4, SaveRowRows, ReadyIs

\* The end of a delete whose device has no row, or that a failed write ends.
LEMMA DeletedKept ==
    ASSUME Ready, NEW t \in Task, NEW ok \in BOOLEAN, call[t].do = "delete", Deleted(t, ok), UNCHANGED <<pool, edits, up>>,
           VerIn(row, cnt, call[t].dev) = 0 \/ fails' > 0, SameVers
    PROVE  Kept
<1> DEFINE d == call[t].dev
<1>1. d \in Device /\ call[t] = [do |-> "delete", dev |-> d]
  <2>1. call[t] \in DeleteRec
    BY CallKinds DEF Ready, Shape, CallOK
  <2>q. QED BY <2>1 DEF DeleteRec
<1>2. call' = [call EXCEPT ![t] = Idle] /\ op' = NoOp
  BY DEF Deleted
<1> HIDE DEF d
<1>4. \A e \in Device : /\ Leaving(call', e) => Leaving(call, e)
                        /\ e # d => (Leaving(call, e) => Leaving(call', e))
  <2>1. call'[t] = Idle /\ \A s \in Task : s # t => call'[s] = call[s]
    BY <1>2 DEF Ready, Shape, CallOK
  <2>2. \A e : Idle # [do |-> "delete", dev |-> e]
    BY DEF Idle
  <2>3. \A e : e # d => call[t] # [do |-> "delete", dev |-> e]
    BY <1>1
  <2>q. QED BY <2>1, <2>2, <2>3 DEF Leaving
<1>5. FlashIsBehind'
  <2>1. \A e \in Device : Leaving(call, e) => Leaving(call', e) \/ fails' > 0 \/ VerIn(row', cnt', e) = 0
    BY <1>1, <1>4 DEF d, SameVers
  <2>2. op'.step \notin {"more", "row"}
    BY <1>2 DEF NoOp
  <2>q. QED BY <2>1, <2>2, BehindKept DEF SameVers
<1>6. ASSUME fails' = 0 PROVE MapStep
  <2>1. CASE Leaving(call', d)
    <3>1. \A e \in Device : Leaving(call', e) <=> Leaving(call, e)
      BY <1>4, <2>1
    <3>q. QED BY <1>6, <3>1, MapStutters
  <2>2. CASE ~Leaving(call', d)
    <3>1. \A e \in Device : Leaving(call', e) <=> (Leaving(call, e) /\ e # d)
      BY <1>4, <2>2
    <3>2. \A e \in Device : (Deleting(e)' <=> (Deleting(e) /\ e # d)) /\ Durable(e)' = Durable(e)
      BY <3>1, Views DEF SameVers
    <3>3. Durable(d) = 0
      BY <1>6, Views DEF d
    <3>4. [e \in Device |-> Durable(e)]' = [e \in Device |-> Durable(e)]
      BY <3>2
    <3>5. {e \in Device : Deleting(e)}' = {e \in Device : Deleting(e)} \ {d}
      BY <3>2
    <3>6. Map!Done(d)
      BY <1>1, <3>3, <3>4, <3>5 DEF Map!Done
    <3>q. QED BY <1>1, <1>6, <3>6, MapMoves
  <2>q. QED BY <2>1, <2>2
<1>q. QED BY <1>5, <1>6 DEF Kept

\* A write of a delete: the device's last row goes, the others' records stay.
LEMMA ErasedKept ==
    ASSUME Ready, NEW d \in Device, Leaving(call, d), UNCHANGED <<pool, edits, up, call>>, op'.step \notin {"more", "row"},
           NewVer(d, 0)
    PROVE  Kept
<1>1. FlashIsBehind'
  BY BehindKept DEF NewVer
<1>2. ASSUME fails' = 0 PROVE MapStep
  <2>1. \A e \in Device : (Deleting(e)' <=> Deleting(e)) /\ Durable(e)' = IF e = d THEN 0 ELSE Durable(e)
    BY Views DEF NewVer
  <2>2. [e \in Device |-> Durable(e)]' = [[e \in Device |-> Durable(e)] EXCEPT ![d] = 0]
    BY <2>1
  <2>3. {e \in Device : Deleting(e)}' = {e \in Device : Deleting(e)}
    BY <2>1
  <2>4. d \in {e \in Device : Deleting(e)}
    BY Views
  <2>5. Map!Erase(d)
    BY <2>2, <2>3, <2>4 DEF Map!Erase
  <2>q. QED BY <1>2, <2>5, MapMoves
<1>q. QED BY <1>1, <1>2 DEF Kept

LEMMA DeleteBeginKept == ASSUME Ready, NEW t \in Task, DeleteBegin(t) PROVE Kept
<1> DEFINE d == call[t].dev
<1>1. call[t].do = "delete" /\ op = NoOp /\ UNCHANGED <<flash, pool, edits, up>>
  BY DEF DeleteBegin, past
<1>2. up = "on" /\ d \in Device /\ d # 0
  <2>1. call[t] \in DeleteRec
    BY <1>1, CallKinds DEF Ready, Shape, CallOK
  <2>q. QED BY <2>1, UpKinds, Numbers DEF DeleteRec, Idle, Ready
<1>3. SameVers
  BY DeleteBeginRows, ReadyIs
<1>4. CASE Found(d) = {} /\ Deleted(t, FALSE)
  <2>1. \A i \in Slot : i < cnt => row[i].dev # d
    BY <1>1, <1>2, <1>4, IndexFresh DEF Ready, Sound
  <2>2. VerIn(row, cnt, d) = 0
    BY <2>1, VerNow DEF Ready, RowsFaithful
  <2>q. QED BY <1>1, <1>3, <1>4, <2>2, DeletedKept
<1>5. CASE Fails /\ Deleted(t, FALSE)
  <2>1. fails' > 0
    BY <1>5, ReadyIs DEF Ready
  <2>q. QED BY <1>1, <1>3, <1>5, <2>1, DeletedKept
<1>6. CASE /\ UNCHANGED call
           /\ op' = [step |-> IF Min(Found(d)) = cnt - 1 THEN "shrink" ELSE "move",
                     task |-> t, dev |-> d, pos |-> Min(Found(d))]
  BY <1>1, <1>3, <1>6, SteadyKept
<1>q. QED BY <1>4, <1>5, <1>6 DEF DeleteBegin

LEMMA DeleteMoveKept == ASSUME Ready, NEW t \in Task, DeleteMove(t) PROVE Kept
<1>1. op.step = "move" /\ op.task = t /\ UNCHANGED <<pool, edits, up>>
  BY DEF DeleteMove, past
<1>2. op \in OpDelete /\ call[t].do = "delete" /\ call[t].dev = op.dev /\ op.dev \in Device
  BY <1>1, InDeleteKinds DEF Ready
<1>3. CASE Written /\ NewVer(op.dev, 0) /\ op' = [op EXCEPT !.step = "shrink"] /\ call' = call
  <2>1. op'.step \notin {"more", "row"}
    BY <1>2, <1>3 DEF OpDelete
  <2>2. Leaving(call, op.dev)
    <3>1. t \in Task /\ Shape
      BY DEF Ready
    <3>q. QED BY <1>2, <3>1, LeavingIs
  <2>q. QED BY <1>1, <1>2, <1>3, <2>1, <2>2, ErasedKept
<1>4. CASE Fails /\ SameVers /\ Deleted(t, FALSE)
  <2>1. fails' > 0
    BY <1>4, ReadyIs DEF Ready
  <2>q. QED BY <1>1, <1>2, <1>4, <2>1, DeletedKept
<1>q. QED BY <1>3, <1>4, DeleteMoveRows, ReadyIs

LEMMA DeleteShrinkKept == ASSUME Ready, NEW t \in Task, DeleteShrink(t) PROVE Kept
<1>1. op.step = "shrink" /\ op.task = t /\ UNCHANGED <<pool, edits, up>>
  BY DEF DeleteShrink, past
<1>2. op \in OpDelete /\ call[t].do = "delete" /\ call[t].dev = op.dev /\ op.dev \in Device
  BY <1>1, InDeleteKinds DEF Ready
<1>3. CASE Written /\ NewVer(op.dev, 0) /\ op' = [op EXCEPT !.step = "drop"] /\ call' = call
  <2>1. op'.step \notin {"more", "row"}
    BY <1>2, <1>3 DEF OpDelete
  <2>2. Leaving(call, op.dev)
    <3>1. t \in Task /\ Shape
      BY DEF Ready
    <3>q. QED BY <1>2, <3>1, LeavingIs
  <2>q. QED BY <1>1, <1>2, <1>3, <2>1, <2>2, ErasedKept
<1>4. CASE Fails /\ SameVers /\ Deleted(t, FALSE)
  <2>1. fails' > 0
    BY <1>4, ReadyIs DEF Ready
  <2>q. QED BY <1>1, <1>2, <1>4, <2>1, DeletedKept
<1>q. QED BY <1>3, <1>4, DeleteShrinkRows, ReadyIs

LEMMA DeleteDropKept == ASSUME Ready, NEW t \in Task, DeleteDrop(t) PROVE Kept
<1>1. op.step = "drop" /\ op.task = t /\ UNCHANGED <<pool, edits, up>>
  BY DEF DeleteDrop, past
<1>2. call[t].do = "delete" /\ call[t].dev = op.dev
  BY <1>1, InDeleteKinds DEF Ready
<1>3. SameVers /\ Deleted(t, TRUE) /\ NoRow(op.dev, cnt)
  BY DeleteDropRows, ReadyIs DEF Ready
<1>4. VerIn(row, cnt, call[t].dev) = 0
  BY <1>2, <1>3, VerNow DEF NoRow, Ready, RowsFaithful
<1>q. QED BY <1>1, <1>2, <1>3, <1>4, DeletedKept

LEMMA CutKept == ASSUME Ready, Cut PROVE Kept
<1>1. /\ UNCHANGED <<flash, edits>> /\ pool' = [d \in Device |-> 0] /\ call' = [t \in Task |-> Idle]
      /\ op' = NoOp /\ up' = "init"
  BY DEF Cut
<1>2. \A e : VerIn(row', cnt', e) = VerIn(row, cnt, e)
  BY <1>1 DEF flash
<1>3. FlashIsBehind'
  <2>1. 0 <= edits
    BY Behind
  <2>q. QED BY <1>1, <1>2, <2>1 DEF Ready, FlashIsBehind, NoOp
<1>4. \A e : ~Leaving(call', e)
  BY <1>1 DEF Leaving, Idle
<1>5. ASSUME fails' = 0 PROVE MapStep
  <2>1. \A e \in Device : ~Deleting(e)' /\ Durable(e)' = Durable(e)
    BY <1>2, <1>4, Views
  <2>2. [e \in Device |-> Durable(e)]' = [e \in Device |-> Durable(e)]
    BY <2>1
  <2>3. {e \in Device : Deleting(e)}' = {}
    BY <2>1
  <2>4. Map!Cut
    BY <1>1, <2>2, <2>3 DEF Map!Cut, Map!Nothing
  <2>q. QED BY <1>5, <2>4, MapMoves
<1>q. QED BY <1>3, <1>5 DEF Kept

LEMMA RepairKept == ASSUME Ready, Repair \/ RepairErase PROVE Kept
<1>1. up # "on" /\ up' # "on" /\ UNCHANGED <<pool, call, op, edits>>
  BY DEF Repair, RepairErase, past
<1>2. op = NoOp
  BY <1>1 DEF Ready, Shape, UpOK
<1>3. SameVers
  BY RepairRows, RepairEraseRows, ReadyIs DEF Ready
<1>q. QED BY <1>1, <1>2, <1>3, SteadyKept DEF NoOp

LEMMA LoadKept == ASSUME Ready, Load PROVE Kept
<1>1. /\ up = "load" /\ up' = "on" /\ UNCHANGED <<flash, call, op, edits>>
      /\ pool' = [d \in Device |-> Durable(d)]
  BY DEF Load, past
<1>2. op = NoOp /\ (\A t \in Task : call[t] = Idle) /\ (\A e \in Device : pool[e] = 0) /\ pool \in [Device -> Nat]
  BY <1>1 DEF Ready, Shape, UpOK, PoolOK
<1>3. \A e : VerIn(row', cnt', e) = VerIn(row, cnt, e) /\ ~Leaving(call, e)
  BY <1>1, <1>2 DEF flash, Leaving, Idle
<1>4. \A e \in Device : pool'[e] = VerIn(row, cnt, e) /\ VerIn(row, cnt, e) \in Nat
  BY <1>1, Views, VerNat DEF Ready
<1>5. FlashIsBehind'
  <2>1. \A e \in Device : pool'[e] <= edits' /\ VerIn(row', cnt', e) <= edits' /\ VerIn(row', cnt', e) <= pool'[e]
    BY <1>1, <1>3, <1>4, Behind
  <2>q. QED BY <1>1, <1>2, <2>1 DEF FlashIsBehind, NoOp
<1>6. ASSUME fails' = 0 PROVE MapStep
  <2>1. \A e \in Device : ~Deleting(e) /\ ~Deleting(e)' /\ Durable(e)' = Durable(e)
    BY <1>1, <1>3, Views
  <2>2. [e \in Device |-> Durable(e)]' = [e \in Device |-> Durable(e)]
    BY <2>1
  <2>3. {e \in Device : Deleting(e)}' = {} /\ {e \in Device : Deleting(e)} = {}
    BY <2>1
  <2>4. pool = [e \in Device |-> 0]
    BY <1>2
  <2>5. Map!Boot
    BY <1>1, <2>2, <2>3, <2>4 DEF Map!Boot, Map!Nothing
  <2>q. QED BY <1>6, <2>5, MapMoves
<1>q. QED BY <1>5, <1>6 DEF Kept

\* The inductive invariant of what follows.
Trusted == Shape /\ OneRow /\ Tidy /\ CopyIsPools /\ NotAhead

\* The fitting abstract step of every step; a void promise may do anything.
LEMMA NextKept ==
    ASSUME Apart', Trusted, [Next]_vars
    PROVE  Trusted' /\ MapStep
<1>0. Shape' /\ OneRow' /\ Tidy' /\ CopyIsPools'
  BY NextShape, NextOneRow, NextTidy, NextCopies DEF Trusted
<1>1. CASE Next /\ ~leftover'
  <2>1. ~leftover
    BY <1>1, LeftoverStays DEF Trusted
  <2>2. Ready
    BY <1>0, <1>1, <2>1, FailsStay DEF Ready, Trusted, Tidy, NotAhead
  <2>3. Kept
    BY <1>1, <2>2, NextSteps, CutKept, RepairKept, LoadKept, EditKept, RemoveKept, MarkKept,
       TableKept, LastSeenKept, SaveIdleKept, SaveBeginKept, SaveCountKept, SaveRowKept,
       DeleteBeginKept, DeleteMoveKept, DeleteShrinkKept, DeleteDropKept
  <2>4. fails' # 0 => MapStep
    <3>1. fails' # 0 => (fails > 0 \/ leftover)'
      BY <2>2 DEF Ready
    <3>q. QED BY <3>1 DEF MapStep, Map!Next
  <2>q. QED BY <1>0, <2>3, <2>4 DEF Kept, Trusted, NotAhead
<1>2. CASE Next /\ leftover'
  <2>1. Map!Next
    BY <1>2 DEF Map!Next
  <2>q. QED BY <1>0, <1>2, <2>1 DEF MapStep, Trusted, NotAhead
<1>3. CASE UNCHANGED vars
  <2>1. UNCHANGED <<row, cnt, call, op, pool, up, edits, fails, leftover>>
    BY <1>3 DEF vars, flash, past
  <2>2. NotAhead'
    BY <2>1 DEF Trusted, NotAhead, FlashIsBehind, LetGo
  <2>3. MapStep
    BY <2>1 DEF MapStep
  <2>q. QED BY <1>0, <2>2, <2>3 DEF Trusted
<1>q. QED BY <1>1, <1>2, <1>3

LEMMA InitTrusted == ASSUME Init PROVE Trusted /\ Map!Init
<1>1. /\ row = [i \in Slot |-> Hole] /\ cnt = 0 /\ pool = [d \in Device |-> 0] /\ call = [t \in Task |-> Idle]
      /\ op = NoOp /\ up = "on" /\ edits = 0 /\ fails = 0 /\ leftover = FALSE
  BY DEF Init
<1>2. \A i \in Slot : ~(i < cnt) /\ row[i] = Hole
  BY <1>1, SlotNat
<1>3. CopyIsPools
  BY <1>1 DEF CopyIsPools, Idle
<1>4. \A e : VerIn(row, cnt, e) = 0 /\ ~Leaving(call, e)
  BY <1>1, <1>2 DEF VerIn, RowsIn, Leaving, Idle
<1>5. NotAhead
  BY <1>1, <1>4 DEF NotAhead, FlashIsBehind, NoOp
<1>6. Map!Init
  <2>1. [e \in Device |-> Durable(e)] = [e \in Device |-> 0]
    BY <1>4, Views
  <2>2. {e \in Device : Deleting(e)} = {}
    BY <1>4, Views
  <2>3. ~(fails > 0 \/ leftover)
    BY <1>1
  <2>q. QED BY <1>1, <2>1, <2>2, <2>3 DEF Map!Init, Map!Nothing
<1>q. QED BY <1>3, <1>5, <1>6, InitShape, InitOneRow, InitTidy DEF Trusted

LEMMA MapStepIs ==
    MapStep => [Map!Next]_<<pool, [d \in Device |-> Durable(d)], {d \in Device : Deleting(d)}, fails > 0 \/ leftover>>
<1>1. /\ [d \in Device |-> Durable(d)] = [d \in Device |-> VerIn(row, cnt, d)]
      /\ [d \in Device |-> Durable(d)]' = [d \in Device |-> VerIn(row, cnt, d)]'
  BY Views
<1>2. /\ {d \in Device : Deleting(d)} = {d \in Device : Leaving(call, d)}
      /\ {d \in Device : Deleting(d)}' = {d \in Device : Leaving(call, d)}'
  BY Views
<1>q. QED BY <1>1, <1>2 DEF MapStep

\* Through power cuts and repairs, flash follows the pool and forgets a device only while it is
\* deleted, as long as no write fails and no cut leaves a row above the count: for any number of
\* tasks that pair, change and delete devices, if they keep apart from each other at each device.
THEOREM MapImplemented == Spec /\ []Apart => DeviceMapSpec
<1>1. Init => Trusted /\ Map!Init
  BY InitTrusted
<1>2. Trusted /\ Apart' /\ [Next]_vars =>
         Trusted'
         /\ [Map!Next]_<<pool, [d \in Device |-> Durable(d)], {d \in Device : Deleting(d)}, fails > 0 \/ leftover>>
  BY NextKept, MapStepIs
<1>q. QED BY <1>1, <1>2, PTL DEF Spec, DeviceMapSpec, Map!Spec

-----------------------------------------------------------------------------
\* The table of pending saves: a slot is one device's, and a slot in flight has one task
\* that saves it or has its outcome.

InFlight(t, i) == call[t].do \in {"save", "settle"} /\ call[t].slot = i

Table ==
    /\ \A i \in Entry : dirty[i].remarked => dirty[i].flushing
    /\ \A i, j \in Entry : dirty[i].dev = dirty[j].dev /\ dirty[i].dev # 0 => i = j
    /\ \A t \in Task, i \in Entry : InFlight(t, i) =>
          t \in Flusher /\ dirty[i].flushing /\ (call[t].do = "save" => dirty[i].dev = call[t].dev)
    /\ \A t, s \in Task, i \in Entry : InFlight(t, i) /\ InFlight(s, i) => t = s
    /\ \A i \in Entry : dirty[i].flushing => \E t \in Task : InFlight(t, i)
    /\ \A t \in Flusher : call[t].do = "save" => call[t].slot # 0 /\ call[t].copy = 0

\* What the steps of the table leave alone.
Rest  == <<row, cnt, pool, op, up, fails, gone, givenUp, past>>
InUse == {"mark", "save", "delete", "settle"}

\* What a call owes: device d's change v.  One that was told that d is saved, one in its second pass.
Owes(k, d, v) == \/ k.do \in {"look", "take", "flushed"} /\ k.dev = d /\ k.owed = v
                 \/ k.do \in {"lastSeen", "slots", "flushedAll"} /\ k.owed[d] = v
Took(k, d, v) == k.do = "flushed" /\ k.dev = d /\ k.owed = v
Walk(k, d, v) == k.do = "slots" /\ k.pass # 1 /\ k.ok /\ k.owed[d] = v

\* A flusher walks on from call c to call k, by what the table shows it, or takes slot i and
\* goes back to b.
Onward(c, k) ==
    /\ c.do \notin InUse /\ k.do \notin InUse
    /\ k.do = "take" => dirty[k.slot].dev = k.dev
    /\ \A d \in Device : \A v :
          /\ Owes(k, d, v) => Owes(c, d, v) \/ v = Owed(d)
          /\ Took(k, d, v) /\ k.ok =>
                /\ Owes(c, d, v)
                /\ PendingSlots(d) = {} \/ (c.do = "take" /\ dirty[c.slot].dev # d)
          /\ Walk(k, d, v) =>
                \/ Walk(c, d, v) /\ k.at = c.at + 1 /\ c.at \in Entry /\ (dirty[c.at] = Clean \/ dirty[c.at].flushing)
                \/ Owes(c, d, v) /\ NoSlotInFlight /\ k.at = 1
          /\ k.do = "flushedAll" /\ k.ok /\ Owes(k, d, v) =>
                /\ Owes(c, d, v) /\ NoSlotInFlight
                /\ (Walk(c, d, v) /\ c.at = DirtyCap + 1) \/ \A i \in Entry : dirty[i] = Clean
Walks(f, k) == call' = [call EXCEPT ![f] = k] /\ Onward(call[f], k) /\ UNCHANGED <<dirty, Rest>>
Takes(f, i, b) ==
    /\ b \in Back /\ dirty[i] # Clean /\ ~dirty[i].flushing /\ call[f].do \notin InUse
    /\ \A d \in Device : \A v :
          /\ Owes(b, d, v) => Owes(call[f], d, v)
          /\ Took(b, d, v) => ~b.ok /\ dirty[i].dev = d
          /\ Walk(b, d, v) => Walk(call[f], d, v) /\ call[f].at = i /\ b.at = i + 1
    /\ Claimed(f, i, b) /\ UNCHANGED Rest

LEMMA BackKinds == ASSUME NEW k \in Back PROVE k.do \in {"idle", "flushed", "slots"}
BY DEF Back, Idle, FlushedRec, SlotsRec

LEMMA EntryNat == \A i \in Entry : i \in Nat /\ i # 0 /\ i <= DirtyCap
BY Numbers DEF Entry

LEMMA CallTypes ==
    ASSUME Shape, NEW t \in Task
    PROVE  /\ call[t] \in CallRec
           /\ call[t].do = "save"   => call[t] \in SaveRec /\ call[t].dev \in Device /\ call[t].slot \in {0} \cup Entry /\ call[t].back \in Back
           /\ call[t].do = "settle" => call[t] \in SettleRec /\ call[t].slot \in Entry /\ call[t].ok \in BOOLEAN /\ call[t].back \in Back
           /\ call[t].do = "take"   => call[t] \in TakeRec /\ call[t].slot \in Entry /\ call[t].dev \in Device /\ call[t].owed \in Nat
           /\ call[t].do = "look"   => call[t] \in LookRec /\ call[t].dev \in Device /\ call[t].owed \in Nat
           /\ call[t].do = "slots"  => call[t] \in SlotsRec
           /\ call[t].do = "flushed" => call[t] \in FlushedRec
           /\ call[t].do = "lastSeen" => call[t] \in LastSeenRec
           /\ call[t].do = "flushedAll" => call[t] \in FlushedAllRec
           /\ call[t].do = "mark"   => call[t] \in MarkRec /\ call[t].dev \in Device
           /\ call[t].do = "delete" => call[t] \in DeleteRec /\ call[t].dev \in Device
           /\ call[t].do = "idle"   => call[t] = Idle
<1> DEFINE k == call[t]
<1>1. k \in CallRec
  BY DEF Shape, CallOK
<1> HIDE DEF k
<1>2. k.do \in {"save", "mark", "delete"} => k \in SaveRec \cup MarkRec \cup DeleteRec
  BY <1>1, CallKinds
<1>3. k \in SaveRec => k.do = "save" /\ k.dev \in Device /\ k.slot \in {0} \cup Entry /\ k.back \in Back
  BY DEF SaveRec
<1>4. k \in MarkRec => k.do = "mark" /\ k.dev \in Device
  BY DEF MarkRec
<1>5. k \in DeleteRec => k.do = "delete" /\ k.dev \in Device
  BY DEF DeleteRec
<1>6. k \in SettleRec => k.do = "settle" /\ k.slot \in Entry /\ k.ok \in BOOLEAN /\ k.back \in Back
  BY DEF SettleRec
<1>7. k \in TakeRec => k.do = "take" /\ k.slot \in Entry /\ k.dev \in Device /\ k.owed \in Nat
  BY DEF TakeRec
<1>8. k \in LookRec => k.do = "look" /\ k.dev \in Device /\ k.owed \in Nat
  BY DEF LookRec
<1>9. (k \in SlotsRec => k.do = "slots") /\ (k \in FlushedRec => k.do = "flushed")
  BY DEF SlotsRec, FlushedRec
<1>10. (k \in LastSeenRec => k.do = "lastSeen") /\ (k \in FlushedAllRec => k.do = "flushedAll")
  BY DEF LastSeenRec, FlushedAllRec
<1>11. k = Idle => k.do = "idle"
  BY DEF Idle
<1>12. \/ k \in SaveRec \/ k \in MarkRec \/ k \in DeleteRec \/ k \in SettleRec \/ k \in TakeRec \/ k \in LookRec
       \/ k \in SlotsRec \/ k \in FlushedRec \/ k \in LastSeenRec \/ k \in FlushedAllRec \/ k = Idle
  BY <1>1 DEF CallRec, Other, Back
<1>13. call[t] = k
  BY DEF k
<1>q. QED BY <1>1, <1>3, <1>4, <1>5, <1>6, <1>7, <1>8, <1>9, <1>10, <1>11, <1>12, <1>13

\* A flusher that returns, when nothing is pending for its device or it gives up.
LEMMA OnwardFlushed ==
    ASSUME NEW c, c.do = "look" \/ c.do = "take"
    PROVE  /\ PendingSlots(c.dev) = {} \/ (c.do = "take" /\ dirty[c.slot].dev # c.dev)
                 => Onward(c, Flushed(c.dev, c.owed, TRUE))
           /\ Onward(c, Flushed(c.dev, c.owed, FALSE))
<1>1. ASSUME PendingSlots(c.dev) = {} \/ (c.do = "take" /\ dirty[c.slot].dev # c.dev)
      PROVE  Onward(c, Flushed(c.dev, c.owed, TRUE))
  <2> DEFINE k == Flushed(c.dev, c.owed, TRUE)
  <2>1. k.do = "flushed" /\ k.dev = c.dev /\ k.owed = c.owed
    BY DEF Flushed
  <2> HIDE DEF k
  <2>2. Onward(c, k)
    BY <1>1, <2>1 DEF Onward, Owes, Took, Walk, InUse
  <2>q. QED BY <2>2 DEF k
<1>2. Onward(c, Flushed(c.dev, c.owed, FALSE))
  <2> DEFINE k == Flushed(c.dev, c.owed, FALSE)
  <2>1. k.do = "flushed" /\ k.dev = c.dev /\ k.owed = c.owed /\ ~k.ok
    BY DEF Flushed
  <2> HIDE DEF k
  <2>2. Onward(c, k)
    BY <2>1 DEF Onward, Owes, Took, Walk, InUse
  <2>q. QED BY <2>2 DEF k
<1>q. QED BY <1>1, <1>2

\* The steps of the flushers on the table, LastSeen's included.
LEMMA FlusherSteps ==
    ASSUME Shape, TableStep \/ \E f \in Flusher : LastSeen(f)
    PROVE  /\ up = "on"
           /\ \E f \in Flusher : \/ \E k : Walks(f, k)
                                 \/ \E i \in Entry : \E b : Takes(f, i, b)
                                 \/ Settle(f) /\ UNCHANGED Rest
<1>0. \A f \in Flusher : f \in Task
  BY DEF Task
<1>1. up = "on"
  BY TableStepQuiet DEF LastSeen
<1>2. Idle.do = "idle" /\ Idle \in Back /\ \A d, v, ok : Flushed(d, v, ok).do = "flushed"
  BY DEF Idle, Flushed, Back
<1>2a. \A d, v : ~Owes(Idle, d, v) /\ ~Took(Idle, d, v) /\ ~Walk(Idle, d, v)
  BY <1>2 DEF Owes, Took, Walk
<1>3. ASSUME NEW f \in Tick, NEW i \in Entry, Claim(f, i) PROVE Takes(f, i, Idle) /\ f \in Flusher
  BY <1>2, <1>2a, <1>3 DEF Claim, Takes, Rest, flash, past, InUse, Flusher
<1>4. ASSUME NEW f \in Barrier, FlushDevice(f) PROVE f \in Flusher /\ \E k : Walks(f, k)
  <2>1. PICK d \in Device : call' = [call EXCEPT ![f] = [do |-> "look", dev |-> d, owed |-> Owed(d)]]
    BY <1>4 DEF FlushDevice
  <2> DEFINE k == [do |-> "look", dev |-> d, owed |-> Owed(d)]
  <2>2. k.do = "look" /\ \A e, v : Owes(k, e, v) => v = Owed(e)
    BY DEF Owes
  <2>3. call' = [call EXCEPT ![f] = k]
    BY <2>1
  <2> HIDE DEF k
  <2>4. call[f].do = "idle"
    BY <1>2, <1>4 DEF FlushDevice
  <2>5. Onward(call[f], k)
    BY <2>2, <2>4 DEF Onward, InUse, Took, Walk
  <2>q. QED BY <1>4, <2>3, <2>5 DEF FlushDevice, Walks, Rest, flash, Flusher
<1>5. ASSUME NEW f \in Shutdown, FlushNow(f) PROVE f \in Flusher /\ \E k : Walks(f, k)
  <2> DEFINE k == [do |-> "lastSeen", owed |-> [d \in Device |-> Owed(d)]]
  <2>2. k.do = "lastSeen" /\ \A e \in Device : \A v : Owes(k, e, v) => v = Owed(e)
    BY DEF Owes
  <2>3. call' = [call EXCEPT ![f] = k]
    BY <1>5 DEF FlushNow
  <2> HIDE DEF k
  <2>4. call[f].do = "idle"
    BY <1>2, <1>5 DEF FlushNow
  <2>5. Onward(call[f], k)
    BY <2>2, <2>4 DEF Onward, InUse, Took, Walk
  <2>q. QED BY <1>5, <2>3, <2>5 DEF FlushNow, Walks, Rest, flash, Flusher
<1>6. ASSUME NEW f \in Flusher, Look(f) PROVE \E k : Walks(f, k)
  <2> DEFINE d == call[f].dev
             o == call[f].owed
             found == SlotsToWaitFor(d)
             look == [do |-> "take", dev |-> d, owed |-> o, slot |-> Min(found)]
             k == CASE found = {} -> Flushed(d, o, TRUE)
                    [] found # {} /\ ~dirty[Min(found)].flushing -> look
                    [] OTHER -> Flushed(d, o, FALSE)
  <2>1. call' = [call EXCEPT ![f] = k] /\ call[f].do = "look"
    BY <1>6 DEF Look
  <2>2. call[f].do = "look"
    BY <2>1
  <2>2a. Owes(call[f], d, o)
    BY <2>2 DEF Owes
  <2>3. CASE found = {}
    <3>1. k = Flushed(d, o, TRUE)
      BY <2>3
    <3>s. Onward(call[f], Flushed(call[f].dev, call[f].owed, TRUE))
      BY <2>2, <2>3, OnwardFlushed DEF SlotsToWaitFor
    <3>2. Onward(call[f], k)
      BY <3>s, <3>1
    <3> HIDE DEF k
    <3>q. QED BY <1>6, <2>1, <3>2 DEF Look, Walks, Rest, flash
  <2>4. CASE found # {} /\ ~dirty[Min(found)].flushing
    <3>1. k = look
      BY <2>4
    <3>2. look.do = "take" /\ look.slot = Min(found) /\ look.dev = d
          /\ \A e, v : Owes(look, e, v) => e = d /\ v = o
      BY DEF Owes
    <3>3. found \in SUBSET Nat
      BY EntryNat DEF SlotsToWaitFor, PendingSlots
    <3>4. Min(found) \in found
      BY <2>4, <3>3, MinExists
    <3>5. dirty[Min(found)].dev = d
      BY <3>4 DEF SlotsToWaitFor, PendingSlots
    <3> HIDE DEF look, k, found
    <3>6. Onward(call[f], look)
      BY <2>2, <2>2a, <3>2, <3>5 DEF Onward, InUse, Took, Walk, d, o
    <3>q. QED BY <1>6, <2>1, <3>1, <3>6 DEF Look, Walks, Rest, flash
  <2>5. CASE found # {} /\ dirty[Min(found)].flushing
    <3>1. k = Flushed(d, o, FALSE)
      BY <2>5
    <3>s. Onward(call[f], Flushed(call[f].dev, call[f].owed, FALSE))
      BY <2>2, OnwardFlushed
    <3>2. Onward(call[f], k)
      BY <3>s, <3>1
    <3> HIDE DEF k
    <3>q. QED BY <1>6, <2>1, <3>2 DEF Look, Walks, Rest, flash
  <2>q. QED BY <2>3, <2>4, <2>5
<1>7. ASSUME NEW f \in Flusher, Take(f) PROVE (\E k : Walks(f, k)) \/ \E i \in Entry : \E b : Takes(f, i, b)
  <2> DEFINE i == call[f].slot
             d == call[f].dev
             o == call[f].owed
             k == [do |-> "look", dev |-> d, owed |-> o]
             b == Flushed(d, o, FALSE)
  <2>1. i \in Entry /\ d \in Device /\ call[f].do = "take" /\ o \in Nat /\ d # 0
    BY <1>0, <1>7, CallTypes, Numbers DEF Take
  <2>2. Owes(call[f], d, o)
    BY <2>1 DEF Owes
  <2>3. b \in Back
    BY <2>1 DEF Flushed, FlushedRec, Back
  <2>r. UNCHANGED Rest
    BY <1>7 DEF Take, Rest, flash
  <2>4. CASE dirty[i].flushing /\ call' = [call EXCEPT ![f] = k] /\ UNCHANGED dirty
    <3>1. k.do = "look" /\ \A e, v : Owes(k, e, v) => e = d /\ v = o
      BY DEF Owes
    <3> HIDE DEF k
    <3>2. Onward(call[f], k)
      BY <2>1, <2>2, <3>1 DEF Onward, InUse, Took, Walk
    <3>q. QED BY <2>r, <2>4, <3>2 DEF Walks
  <2>5. CASE dirty[i].dev # d /\ call' = [call EXCEPT ![f] = Flushed(d, o, TRUE)] /\ UNCHANGED dirty
    <3>1. Onward(call[f], Flushed(d, o, TRUE))
      BY <2>1, <2>5, OnwardFlushed
    <3>q. QED BY <2>r, <2>5, <3>1 DEF Walks
  <2>6. CASE ~dirty[i].flushing /\ dirty[i].dev = d /\ Claimed(f, i, b)
    <3>1. dirty[i] # Clean
      BY <2>1, <2>6 DEF Clean
    <3>2. \A e \in Device : \A v : /\ Owes(b, e, v) => Owes(call[f], e, v)
                                   /\ Took(b, e, v) => ~b.ok /\ dirty[i].dev = e
                                   /\ ~Walk(b, e, v)
      <4>1. b.do = "flushed" /\ b.dev = d /\ b.owed = o /\ b.ok = FALSE
        BY DEF Flushed
      <4> HIDE DEF b
      <4>q. QED BY <2>1, <2>6, <4>1 DEF Owes, Took, Walk
    <3>3. call[f].do \notin InUse
      BY <2>1 DEF InUse
    <3> HIDE DEF b, i, d
    <3>4. Takes(f, i, b)
      BY <2>r, <2>3, <2>6, <3>1, <3>2, <3>3 DEF Takes
    <3>q. QED BY <2>1, <3>4
  <2>q. QED BY <1>7, <2>4, <2>5, <2>6 DEF Take
<1>8. ASSUME NEW f \in Flusher, FlushReturn(f) PROVE \E k : Walks(f, k)
  <2>1. Onward(call[f], Idle)
    BY <1>2, <1>2a, <1>8 DEF FlushReturn, Onward, InUse
  <2>q. QED BY <1>8, <2>1 DEF FlushReturn, Walks, Rest, flash
<1>9. ASSUME NEW f \in Flusher, NextSlot(f) PROVE (\E k : Walks(f, k)) \/ \E i \in Entry : \E b : Takes(f, i, b)
  <2> DEFINE c == call[f]
             i == c.at
             k == [c EXCEPT !.at = @ + 1]
  <2>1. c \in SlotsRec /\ i \in Entry /\ i + 1 \in 1..(DirtyCap + 1) /\ c.do = "slots"
    BY <1>0, <1>9, CallTypes, Numbers DEF NextSlot, Entry
  <2>2. k \in SlotsRec /\ k.at = i + 1 /\ k.pass = c.pass /\ k.ok = c.ok /\ k.owed = c.owed
    BY <2>1 DEF SlotsRec
  <2>3. k \in Back /\ k.do = "slots"
    BY <2>2 DEF Back, SlotsRec
  <2>r. UNCHANGED Rest
    BY <1>9 DEF NextSlot, Rest, flash
  <2>u. c.do \notin InUse /\ k.do \notin InUse
    BY <2>1, <2>3 DEF InUse
  <2> HIDE DEF k
  <2>o. \A d \in Device : \A v : /\ Owes(k, d, v) => Owes(c, d, v)
                                 /\ ~Took(k, d, v)
                                 /\ Walk(k, d, v) => Walk(c, d, v)
    BY <2>1, <2>2, <2>3 DEF Owes, Took, Walk
  <2>4. CASE dirty[i] # Clean /\ ~dirty[i].flushing /\ Claimed(f, i, k)
    BY <2>1, <2>2, <2>3, <2>4, <2>o, <2>r, <2>u DEF Takes
  <2>5. CASE (dirty[i] = Clean \/ dirty[i].flushing) /\ call' = [call EXCEPT ![f] = k] /\ UNCHANGED dirty
    <3>1. Onward(c, k)
      BY <2>1, <2>2, <2>3, <2>5, <2>o, <2>u DEF Onward
    <3>q. QED BY <2>5, <2>r, <3>1 DEF Walks
  <2>q. QED BY <1>9, <2>4, <2>5 DEF NextSlot, k
<1>10. ASSUME NEW f \in Flusher, Settles(f) PROVE \E k : Walks(f, k)
  <2>1. PICK timely \in BOOLEAN :
          /\ timely => NoSlotInFlight
          /\ call' = [call EXCEPT ![f] =
                IF call[f].pass = 2 \/ \A i \in Entry : dirty[i] = Clean
                  THEN [do |-> "flushedAll", owed |-> @.owed, ok |-> @.ok /\ timely]
                  ELSE Slots(2, @.owed, @.ok /\ timely)]
    BY <1>10 DEF Settles
  <2> DEFINE c   == call[f]
             all == [do |-> "flushedAll", owed |-> c.owed, ok |-> c.ok /\ timely]
             two == Slots(2, c.owed, c.ok /\ timely)
  <2>2. c.do = "slots" /\ c.at = DirtyCap + 1
    BY <1>10 DEF Settles
  <2>r. UNCHANGED <<dirty, Rest>>
    BY <1>10 DEF Settles, Rest, flash
  <2>3. CASE call[f].pass = 2 \/ \A i \in Entry : dirty[i] = Clean
    <3>1. call' = [call EXCEPT ![f] = all]
      BY <2>1, <2>3
    <3>2. all.do = "flushedAll" /\ all.owed = c.owed /\ (all.ok => c.ok /\ NoSlotInFlight)
      BY <2>1
    <3> HIDE DEF all
    <3>3. Onward(c, all)
      BY <2>2, <2>3, <3>2 DEF Onward, Owes, Took, Walk, InUse
    <3>q. QED BY <2>r, <3>1, <3>3 DEF Walks
  <2>4. CASE ~(call[f].pass = 2 \/ \A i \in Entry : dirty[i] = Clean)
    <3>1. call' = [call EXCEPT ![f] = two]
      BY <2>1, <2>4
    <3>2. two.do = "slots" /\ two.owed = c.owed /\ two.at = 1 /\ (two.ok => c.ok /\ NoSlotInFlight)
      BY <2>1 DEF Slots
    <3> HIDE DEF two
    <3>3. Onward(c, two)
      BY <2>2, <3>2 DEF Onward, Owes, Took, Walk, InUse
    <3>q. QED BY <2>r, <3>1, <3>3 DEF Walks
  <2>q. QED BY <2>3, <2>4
<1>11. ASSUME NEW f \in Flusher, Settle(f) PROVE UNCHANGED Rest
  BY <1>11 DEF Settle, Rest, flash
<1>12. ASSUME NEW f \in Flusher, LastSeen(f) PROVE \E k : Walks(f, k)
  <2>r. UNCHANGED <<dirty, Rest>>
    BY <1>12 DEF LastSeen, Rest, flash
  <2>1. CASE call[f] = Idle /\ UNCHANGED call
    <3>1. call' = [call EXCEPT ![f] = Idle]
      BY <1>0, <2>1 DEF Shape, CallOK
    <3>2. Onward(call[f], Idle)
      BY <1>2, <1>2a, <2>1 DEF Onward, InUse
    <3>q. QED BY <2>r, <3>1, <3>2 DEF Walks
  <2>2. CASE call[f].do = "lastSeen" /\ call' = [call EXCEPT ![f] = Slots(1, @.owed, TRUE)]
    <3> DEFINE k == Slots(1, call[f].owed, TRUE)
    <3>1. k.do = "slots" /\ k.pass = 1 /\ k.owed = call[f].owed /\ call' = [call EXCEPT ![f] = k]
      BY <2>2 DEF Slots
    <3> HIDE DEF k
    <3>2. Onward(call[f], k)
      BY <2>2, <3>1 DEF Onward, Owes, Took, Walk, InUse
    <3>q. QED BY <2>r, <3>1, <3>2 DEF Walks
  <2>q. QED BY <1>12, <2>1, <2>2 DEF LastSeen
<1>q. QED BY <1>1, <1>3, <1>4, <1>5, <1>6, <1>7, <1>8, <1>9, <1>10, <1>11, <1>12 DEF TableStep, Flush

\* The ways a save and a delete come to an end, and their other steps.
NoRoom(t) == MaySave(t) /\ Record(t) # 0 /\ Found(call[t].dev) = {} /\ cnt >= Cap
Ends(t, ok) ==
    /\ call[t].do = "save" /\ (op = NoOp \/ op.task = t) /\ Saved(t, ok)
    /\ ~ok => Fails \/ NoRoom(t)
    /\ ok => (op = NoOp /\ Record(t) = 0) \/ (op.step = "row" /\ op.task = t /\ SaveRow(t) /\ Written)
    /\ UNCHANGED <<dirty, pool, up, gone, edits, cuts, left>>
Erases(t, ok) ==
    /\ call[t].do = "delete" /\ (op = NoOp \/ op.task = t) /\ Deleted(t, ok)
    /\ ok => DeleteDrop(t)
    /\ UNCHANGED <<dirty, pool, up, edits, cuts, left>>
GoesOn(t) ==
    /\ call[t].do \in {"save", "delete"} /\ (op = NoOp \/ op.task = t) /\ op'.task = t /\ op' # NoOp
    /\ op'.step \in {"more", "row"} =>
          /\ call[t].do = "save" /\ op'.dev = call[t].dev
          /\ \/ op = NoOp /\ op'.ver = Record(t) /\ Record(t) # 0
             \/ op.step = "more" /\ op'.ver = op.ver
    /\ UNCHANGED <<call, dirty, pool, up, gone, givenUp, edits, cuts, left>>

LEMMA SaveSteps ==
    ASSUME Shape, NEW t \in Task, SaveGone(t) \/ SaveShut(t) \/ SaveBegin(t) \/ SaveCount(t) \/ SaveRow(t)
    PROVE  Ends(t, TRUE) \/ Ends(t, FALSE) \/ GoesOn(t)
<1>1. CASE SaveGone(t) \/ SaveShut(t)
  BY <1>1 DEF SaveGone, SaveShut, MaySave, Ends, past
<1>2. CASE SaveBegin(t)
  <2> DEFINE d == call[t].dev
             Write(step, i) == op' = [step |-> step, task |-> t, dev |-> d, ver |-> Record(t), pos |-> i]
  <2>1. CASE Write("row", Min(Found(d))) /\ UNCHANGED <<call, givenUp>>
    <3>1. op'.task = t /\ op'.step = "row" /\ op'.ver = Record(t) /\ op'.dev = d
      BY <2>1
    <3>q. QED BY <1>2, <2>1, <3>1 DEF SaveBegin, MaySave, GoesOn, past, NoOp
  <2>2. CASE Write("more", cnt) /\ UNCHANGED <<call, givenUp>>
    <3>1. op'.task = t /\ op'.step = "more" /\ op'.ver = Record(t) /\ op'.dev = d
      BY <2>2
    <3>q. QED BY <1>2, <2>2, <3>1 DEF SaveBegin, MaySave, GoesOn, past, NoOp
  <2>3. CASE Found(d) = {} /\ cnt >= Cap /\ Saved(t, FALSE)
    BY <1>2, <2>3 DEF SaveBegin, MaySave, NoRoom, Ends, past
  <2>q. QED BY <1>2, <2>1, <2>2, <2>3 DEF SaveBegin
<1>3. CASE SaveCount(t)
  <2>1. op \in OpSave /\ call[t] \in SaveRec /\ call[t].dev = op.dev /\ op.task = t
    BY <1>3, OpKinds DEF SaveCount
  <2>2. call[t].do = "save"
    BY <2>1 DEF SaveRec
  <2>3. CASE op' = [op EXCEPT !.step = "row"] /\ UNCHANGED <<call, givenUp>>
    <3>1. op'.task = t /\ op'.step = "row" /\ op'.ver = op.ver /\ op'.dev = op.dev
      BY <2>1, <2>3 DEF OpSave
    <3>q. QED BY <1>3, <2>1, <2>2, <2>3, <3>1 DEF SaveCount, GoesOn, past, NoOp
  <2>4. CASE Fails /\ Saved(t, FALSE)
    BY <1>3, <2>2, <2>4 DEF SaveCount, Ends, past
  <2>q. QED BY <1>3, <2>3, <2>4 DEF SaveCount
<1>4. CASE SaveRow(t)
  <2>1. call[t] \in SaveRec /\ op.task = t
    BY <1>4, OpKinds DEF SaveRow
  <2>2. call[t].do = "save"
    BY <2>1 DEF SaveRec
  <2>q. QED BY <1>4, <2>1, <2>2 DEF SaveRow, Ends
<1>q. QED BY <1>1, <1>2, <1>3, <1>4

LEMMA DeleteSteps ==
    ASSUME Shape, NEW t \in Task, DeleteBegin(t) \/ DeleteMove(t) \/ DeleteShrink(t) \/ DeleteDrop(t)
    PROVE  Erases(t, TRUE) \/ Erases(t, FALSE) \/ GoesOn(t)
<1>1. CASE DeleteBegin(t)
  <2> DEFINE d == call[t].dev
             s == IF Min(Found(d)) = cnt - 1 THEN "shrink" ELSE "move"
  <2>1. CASE Deleted(t, FALSE)
    BY <1>1, <2>1 DEF DeleteBegin, Erases, past
  <2>2. CASE op' = [step |-> s, task |-> t, dev |-> d, pos |-> Min(Found(d))] /\ UNCHANGED <<call, gone, givenUp>>
    <3>1. op'.task = t /\ op'.step = s /\ s \in {"shrink", "move"}
      BY <2>2
    <3>q. QED BY <1>1, <2>2, <3>1 DEF DeleteBegin, GoesOn, past, NoOp
  <2>q. QED BY <1>1, <2>1, <2>2 DEF DeleteBegin
<1>2. CASE DeleteMove(t) \/ DeleteShrink(t)
  <2>1. op \in OpDelete /\ call[t].do = "delete" /\ op.task = t
    BY <1>2, InDeleteKinds DEF DeleteMove, DeleteShrink
  <2>2. CASE Deleted(t, FALSE)
    BY <1>2, <2>1, <2>2 DEF DeleteMove, DeleteShrink, Erases, past
  <2>3. CASE (op' = [op EXCEPT !.step = "shrink"] \/ op' = [op EXCEPT !.step = "drop"]) /\ UNCHANGED <<call, gone, givenUp>>
    <3>1. \A s : [op EXCEPT !.step = s].task = t /\ [op EXCEPT !.step = s].step = s
      BY <2>1 DEF OpDelete
    <3>2. op'.task = t /\ op'.step \in {"shrink", "drop"}
      BY <2>3, <3>1
    <3>3. op'.step # "none"
      BY <3>2
    <3>4. op' # NoOp
      BY <3>3 DEF NoOp
    <3>5. UNCHANGED <<dirty, pool, up, gone, edits, cuts, left, call, givenUp>>
      BY <1>2, <2>3 DEF DeleteMove, DeleteShrink, past
    <3>6. op'.step \notin {"more", "row"}
      BY <3>2
    <3>q. QED BY <2>1, <3>2, <3>4, <3>5, <3>6 DEF GoesOn
  <2>q. QED BY <1>2, <2>2, <2>3 DEF DeleteMove, DeleteShrink
<1>3. CASE DeleteDrop(t)
  <2>1. call[t].do = "delete" /\ op.task = t
    BY <1>3, InDeleteKinds DEF DeleteDrop
  <2>q. QED BY <1>3, <2>1 DEF DeleteDrop, Erases
<1>q. QED BY <1>1, <1>2, <1>3

\* Every step is one of these.
LEMMA StepKinds ==
    ASSUME Shape, Next
    PROVE  \/ Cut
           \/ (Repair \/ RepairErase \/ Load) /\ UNCHANGED <<call, dirty, op, edits, left, gone, givenUp>>
           \/ \E c \in Client : Edit(c) \/ Remove(c) \/ Mark(c)
           \/ \E f \in Flusher : (\E k : Walks(f, k)) \/ (\E i \in Entry : \E b : Takes(f, i, b)) \/ (Settle(f) /\ UNCHANGED Rest)
           \/ \E t \in Task : Ends(t, TRUE) \/ Ends(t, FALSE) \/ Erases(t, TRUE) \/ Erases(t, FALSE) \/ GoesOn(t)
<1>1. Repair \/ RepairErase \/ Load => UNCHANGED <<call, dirty, op, edits, left, gone, givenUp>>
  BY DEF Repair, RepairErase, Load, past
<1>q. QED BY <1>1, NextSteps, FlusherSteps, SaveSteps, DeleteSteps

LEMMA CallMoved ==
    ASSUME Shape, NEW t \in Task, NEW k, call' = [call EXCEPT ![t] = k]
    PROVE  call'[t] = k /\ \A s \in Task : s # t => call'[s] = call[s]
BY DEF Shape, CallOK

\* A mark changes one slot, its device's or a free one.
LEMMA MarkSlotIs ==
    ASSUME Shape, Table, NEW d \in Device, MarkSlot(d)
    PROVE  \E i \in Entry :
              /\ \A j \in Entry : j # i => dirty'[j] = dirty[j]
              /\ dirty'[i].dev = d /\ (dirty'[i].flushing <=> dirty[i].flushing) /\ (dirty'[i].remarked <=> dirty[i].flushing)
              /\ dirty[i].dev = d \/ (dirty[i] = Clean /\ PendingSlots(d) = {})
<1>0. dirty \in [Entry -> DirtyRec] /\ d # 0
  BY Numbers DEF Shape, PoolOK
<1>1. CASE PendingSlots(d) # {} /\ dirty' = [i \in Entry |->
              IF i \in PendingSlots(d) THEN [dirty[i] EXCEPT !.remarked = dirty[i].flushing] ELSE dirty[i]]
  <2>1. PICK i \in Entry : dirty[i].dev = d
    BY <1>1 DEF PendingSlots
  <2>2. \A j \in Entry : j # i => j \notin PendingSlots(d)
    BY <1>0, <2>1 DEF PendingSlots, Table
  <2>3. i \in PendingSlots(d)
    BY <2>1 DEF PendingSlots
  <2>4. dirty'[i] = [dirty[i] EXCEPT !.remarked = dirty[i].flushing] /\ \A j \in Entry : j # i => dirty'[j] = dirty[j]
    BY <1>1, <2>2, <2>3
  <2>5. dirty[i] \in DirtyRec
    BY <1>0
  <2>6. dirty'[i].dev = d /\ (dirty'[i].flushing <=> dirty[i].flushing) /\ (dirty'[i].remarked <=> dirty[i].flushing)
    BY <2>1, <2>4, <2>5 DEF DirtyRec
  <2>q. QED BY <2>1, <2>4, <2>6
<1>2. CASE PendingSlots(d) = {} /\ FreeSlots # {} /\ dirty' = [dirty EXCEPT ![Min(FreeSlots)] = [Clean EXCEPT !.dev = d]]
  <2> DEFINE i == Min(FreeSlots)
  <2>1. FreeSlots \in SUBSET Nat
    BY EntryNat DEF FreeSlots
  <2>2. i \in FreeSlots
    BY <1>2, <2>1, MinExists
  <2>3. i \in Entry /\ dirty[i] = Clean
    BY <2>2 DEF FreeSlots
  <2>4. dirty' = [dirty EXCEPT ![i] = [Clean EXCEPT !.dev = d]]
    BY <1>2
  <2> HIDE DEF i
  <2>5. dirty'[i] = [dev |-> d, flushing |-> FALSE, remarked |-> FALSE] /\ \A j \in Entry : j # i => dirty'[j] = dirty[j]
    BY <1>0, <2>3, <2>4 DEF Clean
  <2>q. QED BY <1>2, <2>3, <2>5 DEF Clean
<1>q. QED BY <1>1, <1>2 DEF MarkSlot

LEMMA MarkIs ==
    ASSUME Shape, NEW c \in Client, Mark(c)
    PROVE  /\ c \in Task /\ c \notin Flusher /\ call[c].do = "mark" /\ call[c].dev \in Device
           /\ \/ MarkSlot(call[c].dev) /\ call' = [call EXCEPT ![c] = Idle]
              \/ /\ UNCHANGED dirty
                 /\ \E v \in {0, call[c].ver} : call' = [call EXCEPT ![c] = Saving(call[c].dev, v, 0, Idle)]
           /\ UNCHANGED Rest
<1>1. c \in Task /\ c \notin Flusher
  BY ZapConstants DEF Task, Flusher
<1>2. call[c].do = "mark" /\ call[c].dev \in Device
  BY <1>1, CallTypes DEF Mark
<1>q. QED BY <1>1, <1>2 DEF Mark, Rest, flash, ReadAtWrite

\* The slot that a flusher takes.
LEMMA TakesIs ==
    ASSUME Shape, NEW f \in Flusher, NEW i \in Entry, NEW b, Takes(f, i, b)
    PROVE  /\ f \in Task /\ dirty[i].dev \in Device
           /\ \A j \in Entry : j # i => dirty'[j] = dirty[j]
           /\ dirty'[i].dev = dirty[i].dev /\ dirty'[i].flushing /\ ~dirty'[i].remarked
           /\ call'[f] = [do |-> "save", dev |-> dirty[i].dev, copy |-> 0, slot |-> i, back |-> b]
           /\ \A s \in Task : s # f => call'[s] = call[s]
<1>1. f \in Task
  BY DEF Task
<1>2. dirty \in [Entry -> DirtyRec] /\ dirty[i] \in DirtyRec /\ dirty[i].dev # 0
  BY DEF Shape, PoolOK, Takes
<1>3. dirty' = [dirty EXCEPT ![i] = [dirty[i] EXCEPT !.flushing = TRUE, !.remarked = FALSE]]
  BY <1>2 DEF Takes, Claimed
<1>4. call' = [call EXCEPT ![f] = [do |-> "save", dev |-> dirty[i].dev, copy |-> 0, slot |-> i, back |-> b]]
  BY DEF Takes, Claimed, Saving, ReadAtWrite
<1>5. dirty[i].dev \in Device
  BY <1>2 DEF DirtyRec
<1>6. dirty'[i].dev = dirty[i].dev /\ dirty'[i].flushing /\ ~dirty'[i].remarked /\ \A j \in Entry : j # i => dirty'[j] = dirty[j]
  BY <1>2, <1>3 DEF DirtyRec
<1>q. QED BY <1>1, <1>4, <1>5, <1>6, CallMoved

\* The slot that a flusher settles: free, or open again.
LEMMA SettleIs ==
    ASSUME Shape, NEW f \in Flusher, Settle(f)
    PROVE  \E i \in Entry :
              /\ f \in Task /\ call[f].do = "settle" /\ call[f].slot = i /\ call[f].back \in Back /\ call[f].ok \in BOOLEAN
              /\ \A j \in Entry : j # i => dirty'[j] = dirty[j]
              /\ ~dirty'[i].flushing /\ ~dirty'[i].remarked
              /\ IF call[f].ok /\ ~dirty[i].remarked THEN dirty'[i] = Clean ELSE dirty'[i].dev = dirty[i].dev
              /\ call'[f] = IF call[f].back.do = "flushed" THEN [call[f].back EXCEPT !.ok = call[f].ok] ELSE call[f].back
              /\ \A s \in Task : s # f => call'[s] = call[s]
<1> DEFINE i == call[f].slot
           k == IF call[f].back.do = "flushed" THEN [call[f].back EXCEPT !.ok = call[f].ok] ELSE call[f].back
<1>1. f \in Task
  BY DEF Task
<1>2. call[f].do = "settle" /\ i \in Entry /\ call[f].back \in Back /\ call[f].ok \in BOOLEAN
  BY <1>1, CallTypes DEF Settle
<1>3. dirty \in [Entry -> DirtyRec] /\ dirty[i] \in DirtyRec
  BY <1>2 DEF Shape, PoolOK
<1>4. dirty' = [dirty EXCEPT ![i] = IF call[f].ok /\ ~dirty[i].remarked THEN Clean
                                    ELSE [dirty[i] EXCEPT !.flushing = FALSE, !.remarked = FALSE]]
  BY <1>2, <1>3 DEF Settle, Settled
<1>5. call' = [call EXCEPT ![f] = k]
  BY <1>1 DEF Settle
<1>6. call'[f] = k /\ \A s \in Task : s # f => call'[s] = call[s]
  <2> HIDE DEF k
  <2>q. QED BY <1>1, <1>5, CallMoved
<1> HIDE DEF i
<1>7. dirty'[i] = (IF call[f].ok /\ ~dirty[i].remarked THEN Clean ELSE [dirty[i] EXCEPT !.flushing = FALSE, !.remarked = FALSE])
      /\ \A j \in Entry : j # i => dirty'[j] = dirty[j]
  BY <1>2, <1>3, <1>4
<1>8. ~dirty'[i].flushing /\ ~dirty'[i].remarked
      /\ (IF call[f].ok /\ ~dirty[i].remarked THEN dirty'[i] = Clean ELSE dirty'[i].dev = dirty[i].dev)
  BY <1>3, <1>7 DEF DirtyRec, Clean
<1>q. QED BY <1>1, <1>2, <1>6, <1>7, <1>8 DEF i

\* What becomes of a call whose save is over.
LEMMA EndsIs ==
    ASSUME Shape, NEW t \in Task, NEW ok \in BOOLEAN, Ends(t, ok)
    PROVE  /\ call[t].dev \in Device /\ call[t].slot \in {0} \cup Entry /\ call[t].back \in Back
           /\ call'[t] = IF call[t].slot = 0 THEN call[t].back
                         ELSE [do |-> "settle", slot |-> call[t].slot, ok |-> ok, back |-> call[t].back]
           /\ \A s \in Task : s # t => call'[s] = call[s]
<1> DEFINE k == IF call[t].slot = 0 THEN call[t].back
                ELSE [do |-> "settle", slot |-> call[t].slot, ok |-> ok, back |-> call[t].back]
<1>1. call' = [call EXCEPT ![t] = k]
  BY DEF Ends, Saved
<1>2. call'[t] = k /\ \A s \in Task : s # t => call'[s] = call[s]
  <2> HIDE DEF k
  <2>q. QED BY <1>1, CallMoved
<1>q. QED BY <1>2, CallTypes DEF Ends

LEMMA ErasesIs ==
    ASSUME Shape, NEW t \in Task, NEW ok, Erases(t, ok)
    PROVE  call[t].do = "delete" /\ call[t].dev \in Device /\ call'[t] = Idle /\ \A s \in Task : s # t => call'[s] = call[s]
<1>1. call' = [call EXCEPT ![t] = Idle]
  BY DEF Erases, Deleted
<1>q. QED BY <1>1, CallMoved, CallTypes DEF Erases

LEMMA EditMoves ==
    ASSUME Shape, NEW c \in Client, Edit(c)
    PROVE  /\ c \in Task /\ c \notin Flusher /\ up = "on" /\ call[c] = Idle /\ edits' = edits + 1 /\ edits \in Nat
           /\ UNCHANGED <<row, cnt, dirty, op, up, fails, givenUp, left, cuts>>
           /\ \E d \in Device :
                 /\ pool'[d] = edits' /\ \A e \in Device : e # d => pool'[e] = pool[e]
                 /\ gone' = gone \ {d}
                 /\ call'[c] = [do |-> "mark", dev |-> d, ver |-> edits'] /\ \A s \in Task : s # c => call'[s] = call[s]
<1>1. c \in Task /\ c \notin Flusher
  BY ZapConstants DEF Task, Flusher
<1>2. PICK d \in Device : /\ pool' = [pool EXCEPT ![d] = edits'] /\ gone' = gone \ {d}
                          /\ call' = [call EXCEPT ![c] = [do |-> "mark", dev |-> d, ver |-> edits']]
  BY DEF Edit
<1>3. pool'[d] = edits' /\ \A e \in Device : e # d => pool'[e] = pool[e]
  BY <1>2 DEF Shape, PoolOK
<1>4. call'[c] = [do |-> "mark", dev |-> d, ver |-> edits'] /\ \A s \in Task : s # c => call'[s] = call[s]
  BY <1>1, <1>2, CallMoved
<1>5. edits \in Nat
  BY Numbers DEF Shape, PoolOK
<1>q. QED BY <1>1, <1>2, <1>3, <1>4, <1>5 DEF Edit, flash

LEMMA RemoveMoves ==
    ASSUME Shape, left \in [Device -> Nat], NEW c \in Client, Remove(c)
    PROVE  /\ c \in Task /\ c \notin Flusher /\ up = "on" /\ call[c] = Idle
           /\ UNCHANGED <<row, cnt, dirty, op, up, fails, gone, givenUp, edits, cuts>>
           /\ \E d \in Device :
                 /\ pool'[d] = 0 /\ \A e \in Device : e # d => pool'[e] = pool[e]
                 /\ left' = [left EXCEPT ![d] = edits] /\ left'[d] = edits /\ \A e \in Device : e # d => left'[e] = left[e]
                 /\ call'[c] = [do |-> "delete", dev |-> d] /\ \A s \in Task : s # c => call'[s] = call[s]
<1>1. c \in Task /\ c \notin Flusher
  BY ZapConstants DEF Task, Flusher
<1>2. PICK d \in Device : /\ pool' = [pool EXCEPT ![d] = 0] /\ left' = [left EXCEPT ![d] = edits]
                          /\ call' = [call EXCEPT ![c] = [do |-> "delete", dev |-> d]]
  BY DEF Remove
<1>3. pool'[d] = 0 /\ \A e \in Device : e # d => pool'[e] = pool[e]
  BY <1>2 DEF Shape, PoolOK
<1>4. call'[c] = [do |-> "delete", dev |-> d] /\ \A s \in Task : s # c => call'[s] = call[s]
  BY <1>1, <1>2, CallMoved
<1>q. QED BY <1>1, <1>2, <1>3, <1>4 DEF Remove, flash

\* The numbers of the changes that are on flash, in the pool, or on their way.
Bounded ==
    /\ \A i \in Slot : row[i] # Hole => row[i].ver # 0 /\ row[i].ver <= edits
    /\ \A d \in Device : pool[d] <= edits
    /\ \A t \in Task : /\ call[t].do = "mark" => call[t].ver # 0 /\ call[t].ver <= edits
                       /\ call[t].do = "save" => call[t].copy <= edits
    /\ op.step \in {"more", "row"} => op.ver # 0 /\ op.ver <= edits

\* A device is removed before its next pairing, if at all.
Lefts ==
    /\ left \in [Device -> Nat]
    /\ \A d \in Device : left[d] <= edits /\ (pool[d] = 0 \/ left[d] < pool[d]) /\ (up # "on" => left[d] = 0)

LEMMA NextLefts == ASSUME Shape, Shape', Bounded, Lefts, Next PROVE Lefts'
<1>0. edits \in Nat /\ left \in [Device -> Nat] /\ pool \in [Device -> Nat] /\ pool' \in [Device -> Nat]
  BY Numbers DEF Shape, PoolOK, Lefts
<1>1. CASE Cut
  BY <1>0, <1>1 DEF Cut, Lefts, Shape, PoolOK
<1>2. CASE Repair \/ RepairErase \/ Load
  <2>1. UNCHANGED <<left, edits>> /\ up # "on" /\ (Load \/ pool' = pool)
    BY <1>2 DEF Repair, RepairErase, Load, past
  <2>2. \A d \in Device : left[d] = 0
    BY <2>1 DEF Lefts
  <2>3. \A d \in Device : pool'[d] = 0 \/ left'[d] < pool'[d]
    BY <1>0, <2>1, <2>2
  <2>q. QED BY <1>0, <2>1, <2>2, <2>3 DEF Lefts
<1>3. ASSUME NEW c \in Client, Edit(c) PROVE Lefts'
  <2>1. PICK d \in Device : pool'[d] = edits + 1 /\ \A e \in Device : e # d => pool'[e] = pool[e]
    BY <1>3, EditMoves
  <2>2. UNCHANGED <<left, up>> /\ edits' = edits + 1
    BY <1>3, EditMoves
  <2>q. QED BY <1>0, <2>1, <2>2 DEF Lefts
<1>4. ASSUME NEW c \in Client, Remove(c) PROVE Lefts'
  <2>1. PICK d \in Device : /\ pool'[d] = 0 /\ \A e \in Device : e # d => pool'[e] = pool[e]
                            /\ left' = [left EXCEPT ![d] = edits] /\ left'[d] = edits
                            /\ \A e \in Device : e # d => left'[e] = left[e]
    BY <1>0, <1>4, RemoveMoves
  <2>2. UNCHANGED <<edits, up>> /\ up = "on"
    BY <1>0, <1>4, RemoveMoves
  <2>q. QED BY <1>0, <2>1, <2>2 DEF Lefts
<1>5. ASSUME UNCHANGED <<left, edits, pool, up>> PROVE Lefts'
  BY <1>5 DEF Lefts
<1>6. ASSUME NEW t \in Task, Ends(t, TRUE) \/ Ends(t, FALSE) \/ Erases(t, TRUE) \/ Erases(t, FALSE) \/ GoesOn(t) PROVE Lefts'
  BY <1>5, <1>6 DEF Ends, Erases, GoesOn
<1>7. ASSUME NEW f \in Flusher, (\E k : Walks(f, k)) \/ (\E i \in Entry : \E b : Takes(f, i, b)) \/ (Settle(f) /\ UNCHANGED Rest) PROVE Lefts'
  BY <1>5, <1>7 DEF Walks, Takes, Rest, past
<1>8. ASSUME NEW c \in Client, Mark(c) PROVE Lefts'
  BY <1>5, <1>8, MarkIs DEF Rest, past
<1>q. QED BY <1>1, <1>2, <1>3, <1>4, <1>6, <1>7, <1>8, StepKinds

LEMMA RowsBounded ==
    ASSUME Shape, Bounded, Next
    PROVE  \A i \in Slot : row'[i] # Hole => row'[i].ver # 0 /\ row'[i].ver <= edits
<1>1. CASE row' = row
  BY <1>1 DEF Bounded
<1>2. ASSUME NEW t \in Task, SaveRow(t), row' # row
      PROVE  \A i \in Slot : row'[i] # Hole => row'[i].ver # 0 /\ row'[i].ver <= edits
  <2>1. op.step = "row" /\ row' = [row EXCEPT ![op.pos] = [dev |-> op.dev, ver |-> op.ver]]
    BY <1>2 DEF SaveRow
  <2>2. row \in [Slot -> RowRec]
    BY DEF Shape, FlashOK
  <2>q. QED BY <2>1, <2>2 DEF Bounded
<1>3. ASSUME NEW t \in Task, DeleteMove(t), row' # row
      PROVE  \A i \in Slot : row'[i] # Hole => row'[i].ver # 0 /\ row'[i].ver <= edits
  <2>1. row' = [row EXCEPT ![op.pos] = Tail(op.dev)] /\ op.step = "move"
    BY <1>3 DEF DeleteMove
  <2>2. row \in [Slot -> RowRec] /\ cnt - 1 \in Slot
    BY <2>1, OpKinds, Numbers DEF Shape, FlashOK, Slot
  <2>3. Tail(op.dev) = Hole \/ Tail(op.dev) = row[cnt - 1]
    BY DEF Tail
  <2>q. QED BY <2>1, <2>2, <2>3 DEF Bounded
<1>4. ASSUME row' = [row EXCEPT ![cnt] = Hole]
      PROVE  \A i \in Slot : row'[i] # Hole => row'[i].ver # 0 /\ row'[i].ver <= edits
  <2>1. row \in [Slot -> RowRec]
    BY DEF Shape, FlashOK
  <2>q. QED BY <1>4, <2>1 DEF Bounded
<1>5. row' = row \/ row' = [row EXCEPT ![cnt] = Hole] \/ \E t \in Task : SaveRow(t) \/ DeleteMove(t)
  <2>1. CASE TableStep
    BY <2>1, TableStepQuiet DEF Quiet, flash
  <2>2. CASE Cut \/ Repair \/ RepairErase \/ Load
    BY <2>2 DEF Cut, Repair, RepairErase, Load, flash
  <2>3. CASE (\E c \in Client : Edit(c) \/ Remove(c) \/ Mark(c)) \/ \E f \in Flusher : LastSeen(f)
    BY <2>3 DEF Edit, Remove, Mark, LastSeen, flash
  <2>4. ASSUME NEW t \in Task, SaveGone(t) \/ SaveShut(t) \/ SaveBegin(t) \/ SaveCount(t) PROVE row' = row
    BY <2>4 DEF SaveGone, SaveShut, SaveBegin, SaveCount, flash
  <2>5. ASSUME NEW t \in Task, DeleteBegin(t) \/ DeleteShrink(t) \/ DeleteDrop(t) PROVE row' = row \/ row' = [row EXCEPT ![cnt] = Hole]
    BY <2>5 DEF DeleteBegin, DeleteShrink, DeleteDrop, flash
  <2>q. QED BY <2>1, <2>2, <2>3, <2>4, <2>5, NextSteps
<1>q. QED BY <1>1, <1>2, <1>3, <1>4, <1>5

LEMMA NextBounded == ASSUME Shape, Bounded, Next PROVE Bounded'
<1>0. edits \in Nat /\ pool \in [Device -> Nat]
  BY Numbers DEF Shape, PoolOK
<1> DEFINE Rows  == \A i \in Slot : row'[i] # Hole => row'[i].ver # 0 /\ row'[i].ver <= edits
           Pool  == \A d \in Device : pool'[d] <= edits'
           Calls == \A t \in Task : /\ call'[t].do = "mark" => call'[t].ver # 0 /\ call'[t].ver <= edits'
                                    /\ call'[t].do = "save" => call'[t].copy <= edits'
           Op    == op'.step \in {"more", "row"} => op'.ver # 0 /\ op'.ver <= edits'
<1>1. Rows
  BY RowsBounded
<1>2. Idle.do = "idle" /\ \A k \in Back : k.do \notin {"mark", "save"}
  BY BackKinds DEF Idle
<1>3. \A k \in Back : \A ok : [k EXCEPT !.ok = ok].do = k.do
  BY DEF Back, Idle, FlushedRec, SlotsRec
<1>4. ASSUME edits' = edits, Pool, Calls, Op PROVE Bounded'
  BY <1>1, <1>4 DEF Bounded
<1>5. CASE Cut
  <2>1. edits' = edits /\ Pool /\ Calls /\ Op
    BY <1>0, <1>2, <1>5 DEF Cut, NoOp
  <2>q. QED BY <1>4, <2>1
<1>6. CASE (Repair \/ RepairErase \/ Load) /\ UNCHANGED <<call, dirty, op, edits, left, gone, givenUp>>
  <2>1. Calls /\ Op
    BY <1>6 DEF Bounded
  <2>2. CASE pool' = pool
    BY <1>4, <1>6, <2>1, <2>2 DEF Bounded
  <2>3. CASE Load
    <3>1. ASSUME NEW d \in Device PROVE Durable(d) <= edits
      <4>1. CASE RowsOf(d) = {}
        BY <1>0, <4>1, RowsAre
      <4>2. CASE RowsOf(d) # {}
        <5>1. PICK i \in Slot : row[i].dev = d /\ Durable(d) = row[i].ver
          BY <4>2, RowsAre
        <5>2. row[i] # Hole
          BY <5>1, Numbers DEF Hole
        <5>q. QED BY <5>1, <5>2 DEF Bounded
      <4>q. QED BY <4>1, <4>2
    <3>2. Pool
      BY <1>6, <2>3, <3>1 DEF Load
    <3>q. QED BY <1>4, <1>6, <2>1, <3>2
  <2>q. QED BY <1>6, <2>2, <2>3 DEF Repair, RepairErase
<1>7. ASSUME NEW c \in Client, Edit(c) PROVE Bounded'
  <2>1. PICK d \in Device :
           /\ pool'[d] = edits' /\ \A e \in Device : e # d => pool'[e] = pool[e]
           /\ call'[c] = [do |-> "mark", dev |-> d, ver |-> edits'] /\ \A s \in Task : s # c => call'[s] = call[s]
    BY <1>7, EditMoves
  <2>2. op' = op /\ edits' = edits + 1
    BY <1>7, EditMoves
  <2>3. \A t \in Task : /\ call[t].do = "mark" => call[t].ver \in Nat
                        /\ call[t].do = "save" => call[t].copy \in Nat
    BY CallTypes DEF MarkRec, SaveRec
  <2>4. op.step \in {"more", "row"} => op.ver \in Nat
    BY OpKinds DEF OpSave
  <2>5. \A i \in Slot : row'[i] # Hole => row'[i].ver \in Nat /\ row'[i].ver <= edits + 1
    <3>1. row' = row /\ \A i \in Slot : row[i].ver \in Nat
      BY <1>7, EditMoves DEF Shape, FlashOK, RowRec
    <3>q. QED BY <1>0, <1>1, <3>1
  <2>6. \A t \in Task : /\ call'[t].do = "mark" => call'[t].ver # 0 /\ call'[t].ver <= edits + 1
                        /\ call'[t].do = "save" => call'[t].copy <= edits + 1
    <3> SUFFICES ASSUME NEW t \in Task
                 PROVE  /\ call'[t].do = "mark" => call'[t].ver # 0 /\ call'[t].ver <= edits + 1
                        /\ call'[t].do = "save" => call'[t].copy <= edits + 1
      OBVIOUS
    <3>1. CASE t = c
      BY <1>0, <2>1, <2>2, <3>1
    <3>2. CASE t # c
      BY <1>0, <2>1, <2>3, <3>2 DEF Bounded
    <3>q. QED BY <3>1, <3>2
  <2>7. \A e \in Device : pool'[e] <= edits + 1
    BY <1>0, <2>1, <2>2 DEF Bounded
  <2>8. op'.step \in {"more", "row"} => op'.ver # 0 /\ op'.ver <= edits + 1
    BY <1>0, <2>2, <2>4 DEF Bounded
  <2>q. QED BY <1>1, <2>2, <2>5, <2>6, <2>7, <2>8 DEF Bounded
<1>8. ASSUME NEW c \in Client, Remove(c) PROVE Bounded'
  <2>1. PICK d \in Device : /\ pool' = [pool EXCEPT ![d] = 0]
                            /\ call' = [call EXCEPT ![c] = [do |-> "delete", dev |-> d]]
    BY <1>8 DEF Remove
  <2>2. c \in Task /\ op' = op /\ edits' = edits
    BY <1>8 DEF Remove, Task
  <2>3. Pool
    BY <1>0, <2>1, <2>2 DEF Bounded
  <2>4. call'[c].do = "delete" /\ \A s \in Task : s # c => call'[s] = call[s]
    <3> DEFINE k == [do |-> "delete", dev |-> d]
    <3>1. k.do = "delete" /\ call' = [call EXCEPT ![c] = k]
      BY <2>1
    <3> HIDE DEF k
    <3>q. QED BY <2>2, <3>1, CallMoved
  <2>5. Calls /\ Op
    BY <2>2, <2>4 DEF Bounded
  <2>q. QED BY <1>4, <2>2, <2>3, <2>5
<1>9. ASSUME NEW c \in Client, Mark(c) PROVE Bounded'
  <2>1. /\ c \in Task /\ call[c].do = "mark" /\ UNCHANGED <<op, edits, pool>>
        /\ \/ call' = [call EXCEPT ![c] = Idle]
           \/ \E v \in {0, call[c].ver} : call' = [call EXCEPT ![c] = Saving(call[c].dev, v, 0, Idle)]
    BY <1>9, MarkIs DEF Rest, past
  <2>2. PICK k : call' = [call EXCEPT ![c] = k] /\ (k = Idle \/ \E v \in {0, call[c].ver} : k = Saving(call[c].dev, v, 0, Idle))
    BY <2>1
  <2>3. k.do # "mark" /\ (k.do = "save" => k.copy <= edits)
    BY <1>0, <1>2, <2>1, <2>2 DEF Saving, Bounded
  <2>4. call'[c] = k /\ \A s \in Task : s # c => call'[s] = call[s]
    BY <2>1, <2>2, CallMoved
  <2>5. Pool /\ Calls /\ Op
    BY <2>1, <2>3, <2>4 DEF Bounded
  <2>q. QED BY <1>4, <2>1, <2>5
<1>10. ASSUME NEW f \in Task, UNCHANGED <<op, edits, pool>>, \A s \in Task : s # f => call'[s] = call[s],
              call'[f].do # "mark", call'[f].do = "save" => call'[f].copy = 0
       PROVE  Bounded'
  <2>1. Pool /\ Calls /\ Op
    BY <1>0, <1>10 DEF Bounded
  <2>q. QED BY <1>4, <1>10, <2>1
<1>f. \A f \in Flusher : f \in Task
  BY DEF Task
<1>11. ASSUME NEW f \in Flusher, NEW k, Walks(f, k) PROVE Bounded'
  <2>1. call'[f] = k /\ (\A s \in Task : s # f => call'[s] = call[s]) /\ k.do \notin {"mark", "save"}
    BY <1>11, <1>f, CallMoved DEF Walks, Onward, InUse
  <2>q. QED BY <1>10, <1>11, <1>f, <2>1 DEF Walks, Rest, past
<1>12. ASSUME NEW f \in Flusher, NEW i \in Entry, NEW b, Takes(f, i, b) PROVE Bounded'
  <2>0. /\ call'[f] = [do |-> "save", dev |-> dirty[i].dev, copy |-> 0, slot |-> i, back |-> b]
        /\ \A s \in Task : s # f => call'[s] = call[s]
    BY <1>12, TakesIs
  <2>1. call'[f].do = "save" /\ call'[f].copy = 0 /\ \A s \in Task : s # f => call'[s] = call[s]
    BY <2>0
  <2>q. QED BY <1>10, <1>12, <1>f, <2>1 DEF Takes, Rest, past
<1>13. ASSUME NEW f \in Flusher, Settle(f), UNCHANGED Rest PROVE Bounded'
  <2>1. /\ call[f].back \in Back
        /\ call'[f] = IF call[f].back.do = "flushed" THEN [call[f].back EXCEPT !.ok = call[f].ok] ELSE call[f].back
        /\ \A s \in Task : s # f => call'[s] = call[s]
    BY <1>13, SettleIs
  <2>2. call'[f].do = call[f].back.do
    BY <1>3, <2>1
  <2>q. QED BY <1>2, <1>10, <1>13, <1>f, <2>1, <2>2 DEF Rest, past
<1>14. ASSUME NEW t \in Task, NEW ok \in BOOLEAN, Ends(t, ok) PROVE Bounded'
  <2>0. /\ call[t].back \in Back
        /\ call'[t] = IF call[t].slot = 0 THEN call[t].back
                      ELSE [do |-> "settle", slot |-> call[t].slot, ok |-> ok, back |-> call[t].back]
        /\ \A s \in Task : s # t => call'[s] = call[s]
    BY <1>14, EndsIs
  <2>1. call'[t].do \notin {"mark", "save"} /\ \A s \in Task : s # t => call'[s] = call[s]
    BY <1>2, <2>0
  <2>2. op' = NoOp /\ UNCHANGED <<edits, pool>>
    BY <1>14 DEF Ends, Saved
  <2>3. Pool /\ Calls /\ Op
    BY <2>1, <2>2 DEF Bounded, NoOp
  <2>q. QED BY <1>4, <2>2, <2>3
<1>15. ASSUME NEW t \in Task, NEW ok \in BOOLEAN, Erases(t, ok) PROVE Bounded'
  <2>1. call'[t].do = "idle" /\ \A s \in Task : s # t => call'[s] = call[s]
    BY <1>2, <1>15, ErasesIs
  <2>2. op' = NoOp /\ UNCHANGED <<edits, pool>>
    BY <1>15 DEF Erases, Deleted
  <2>3. Pool /\ Calls /\ Op
    BY <2>1, <2>2 DEF Bounded, NoOp
  <2>q. QED BY <1>4, <2>2, <2>3
<1>16. ASSUME NEW t \in Task, GoesOn(t) PROVE Bounded'
  <2>1. UNCHANGED <<call, edits, pool>>
    BY <1>16 DEF GoesOn
  <2>2. Op
    <3> SUFFICES ASSUME op'.step \in {"more", "row"} PROVE op'.ver # 0 /\ op'.ver <= edits
      BY <2>1
    <3>1. CASE op = NoOp /\ op'.ver = Record(t) /\ Record(t) # 0
      <4>1. call[t].do = "save"
        BY <1>16 DEF GoesOn
      <4>2. call[t].dev \in Device
        BY <4>1, CallTypes
      <4>q. QED BY <3>1, <4>1, <4>2 DEF Record, Bounded
    <3>2. CASE op.step = "more" /\ op'.ver = op.ver
      BY <3>2 DEF Bounded
    <3>q. QED BY <1>16, <3>1, <3>2 DEF GoesOn
  <2>3. Pool /\ Calls
    BY <2>1 DEF Bounded
  <2>q. QED BY <1>4, <2>1, <2>2, <2>3
<1>q. QED BY <1>5, <1>6, <1>7, <1>8, <1>9, <1>11, <1>12, <1>13, <1>14, <1>15, <1>16, StepKinds

\* The table stays as it is, and so do those that are at its slots.
LEMMA TableStays ==
    ASSUME Table, dirty' = dirty,
           \A t \in Task : \A i \in Entry : InFlight(t, i)' <=> InFlight(t, i),
           \A t \in Task : call'[t].do = "save" /\ call'[t].slot # 0 => call'[t] = call[t],
           \A t \in Flusher : call'[t].do = "save" => call'[t] = call[t]
    PROVE  Table'
<1>1. \A i \in Entry : i # 0
  BY EntryNat
<1>2. \A t \in Task, i \in Entry : InFlight(t, i)' =>
          t \in Flusher /\ dirty'[i].flushing /\ (call'[t].do = "save" => dirty'[i].dev = call'[t].dev)
  <2> SUFFICES ASSUME NEW t \in Task, NEW i \in Entry, InFlight(t, i)'
               PROVE  t \in Flusher /\ dirty'[i].flushing /\ (call'[t].do = "save" => dirty'[i].dev = call'[t].dev)
    OBVIOUS
  <2>1. InFlight(t, i)
    OBVIOUS
  <2>2. call'[t].do = "save" => call'[t] = call[t]
    BY <1>1 DEF InFlight
  <2>q. QED BY <2>1, <2>2 DEF Table
<1>q. QED BY <1>2 DEF Table

LEMMA NextTable == ASSUME Shape, Shape', Table, Next PROVE Table'
<1>0. Idle.do = "idle" /\ \A k \in Back : k.do \notin InUse
  BY BackKinds DEF Idle, InUse
<1>1. \A i \in Entry : i # 0
  BY EntryNat
<1>f. \A f \in Flusher : f \in Task
  BY DEF Task
<1>2. CASE Cut
  <2>1. \A i \in Entry : dirty'[i].dev = 0 /\ ~dirty'[i].flushing /\ ~dirty'[i].remarked
    BY <1>2 DEF Cut, Clean
  <2>2. \A t \in Task : call'[t].do = "idle"
    BY <1>0, <1>2 DEF Cut
  <2>q. QED BY <1>f, <2>1, <2>2 DEF Table, InFlight
<1>3. ASSUME dirty' = dirty, NEW t \in Task, call'[t].do \notin {"save", "settle"}, call[t].do \notin {"save", "settle"},
             \A s \in Task : s # t => call'[s] = call[s]
      PROVE  Table'
  BY <1>3, <1>f, TableStays DEF InFlight
<1>4. ASSUME UNCHANGED <<dirty, call>> PROVE Table'
  BY <1>4, TableStays DEF InFlight
<1>5. ASSUME NEW c \in Client, Edit(c) PROVE Table'
  <2>1. c \in Task /\ call[c] = Idle /\ dirty' = dirty
    BY <1>5, EditMoves
  <2>2. PICK d \in Device : call'[c] = [do |-> "mark", dev |-> d, ver |-> edits'] /\ \A s \in Task : s # c => call'[s] = call[s]
    BY <1>5, EditMoves
  <2>3. call'[c].do = "mark"
    BY <2>2
  <2>q. QED BY <1>0, <1>3, <2>1, <2>2, <2>3
<1>6. ASSUME NEW c \in Client, Remove(c) PROVE Table'
  <2>1. PICK d \in Device : call' = [call EXCEPT ![c] = [do |-> "delete", dev |-> d]]
    BY <1>6 DEF Remove
  <2>2. c \in Task /\ call[c] = Idle /\ dirty' = dirty
    BY <1>6 DEF Remove, Task
  <2> DEFINE k == [do |-> "delete", dev |-> d]
  <2>3. k.do = "delete" /\ call' = [call EXCEPT ![c] = k]
    BY <2>1
  <2> HIDE DEF k
  <2>4. call'[c] = k /\ \A s \in Task : s # c => call'[s] = call[s]
    BY <2>2, <2>3, CallMoved
  <2>q. QED BY <1>0, <1>3, <2>2, <2>3, <2>4
<1>7. ASSUME NEW c \in Client, Mark(c) PROVE Table'
  <2>1. c \in Task /\ c \notin Flusher /\ call[c].do = "mark" /\ call[c].dev \in Device
    BY <1>7, MarkIs
  <2>2. CASE MarkSlot(call[c].dev) /\ call' = [call EXCEPT ![c] = Idle]
    <3> DEFINE d == call[c].dev
    <3>1. PICK i \in Entry :
              /\ \A j \in Entry : j # i => dirty'[j] = dirty[j]
              /\ dirty'[i].dev = d /\ (dirty'[i].flushing <=> dirty[i].flushing) /\ (dirty'[i].remarked <=> dirty[i].flushing)
              /\ dirty[i].dev = d \/ (dirty[i] = Clean /\ PendingSlots(d) = {})
      BY <2>1, <2>2, MarkSlotIs
    <3>2. call'[c] = Idle /\ \A s \in Task : s # c => call'[s] = call[s]
      BY <2>1, <2>2, CallMoved
    <3>3. \A t \in Task : \A j \in Entry : InFlight(t, j)' <=> InFlight(t, j)
      BY <1>0, <2>1, <3>2 DEF InFlight
    <3>4. \A j \in Entry : dirty'[j].flushing <=> dirty[j].flushing
      BY <3>1
    <3>5. \A j \in Entry : dirty[j].flushing => dirty'[j].dev = dirty[j].dev
      BY <3>1 DEF Clean
    <3>6. \A j \in Entry : j # i => dirty[j].dev # d
      BY <2>1, <3>1, Numbers DEF Table, PendingSlots
    <3>7. \A j, k \in Entry : dirty'[j].dev = dirty'[k].dev /\ dirty'[j].dev # 0 => j = k
      <4> SUFFICES ASSUME NEW j \in Entry, NEW k \in Entry, dirty'[j].dev = dirty'[k].dev, dirty'[j].dev # 0 PROVE j = k
        OBVIOUS
      <4>1. CASE j = i \/ k = i
        BY <3>1, <3>6, <4>1
      <4>2. CASE j # i /\ k # i
        BY <3>1, <4>2 DEF Table
      <4>q. QED BY <4>1, <4>2
    <3>8. \A t \in Task : call'[t].do = "save" => call'[t] = call[t]
      BY <1>0, <3>2
    <3>9. \A t \in Task, j \in Entry : InFlight(t, j)' =>
              t \in Flusher /\ dirty'[j].flushing /\ (call'[t].do = "save" => dirty'[j].dev = call'[t].dev)
      BY <3>3, <3>4, <3>5, <3>8 DEF Table
    <3>10. \A j \in Entry : dirty'[j].remarked => dirty'[j].flushing
      BY <3>1 DEF Table
    <3>11. \A t, s \in Task, j \in Entry : InFlight(t, j)' /\ InFlight(s, j)' => t = s
      BY <3>3 DEF Table
    <3>12. \A j \in Entry : dirty'[j].flushing => \E t \in Task : InFlight(t, j)'
      BY <3>3, <3>4 DEF Table
    <3>13. \A t \in Flusher : call'[t].do = "save" => call'[t].slot # 0 /\ call'[t].copy = 0
      BY <1>f, <3>8 DEF Table
    <3>q. QED BY <3>7, <3>9, <3>10, <3>11, <3>12, <3>13 DEF Table
  <2>3. ASSUME dirty' = dirty, NEW v, call' = [call EXCEPT ![c] = Saving(call[c].dev, v, 0, Idle)] PROVE Table'
    <3> DEFINE k == Saving(call[c].dev, v, 0, Idle)
    <3>1. k.do = "save" /\ k.slot = 0
      BY DEF Saving
    <3>2. call' = [call EXCEPT ![c] = k]
      BY <2>3
    <3> HIDE DEF k
    <3>3. call'[c] = k /\ \A s \in Task : s # c => call'[s] = call[s]
      BY <2>1, <3>2, CallMoved
    <3>4. \A t \in Task : \A i \in Entry : InFlight(t, i)' <=> InFlight(t, i)
      BY <1>1, <2>1, <3>1, <3>3 DEF InFlight
    <3>5. /\ \A t \in Task : call'[t].do = "save" /\ call'[t].slot # 0 => call'[t] = call[t]
          /\ \A t \in Flusher : call'[t].do = "save" => call'[t] = call[t]
      BY <1>f, <2>1, <3>1, <3>3
    <3>q. QED BY <2>3, <3>4, <3>5, TableStays
  <2>q. QED BY <1>7, <2>2, <2>3, MarkIs
<1>8. ASSUME NEW f \in Flusher, NEW k, Walks(f, k) PROVE Table'
  <2>1. call'[f] = k /\ \A s \in Task : s # f => call'[s] = call[s]
    BY <1>8, <1>f, CallMoved DEF Walks
  <2>q. QED BY <1>3, <1>8, <1>f, <2>1 DEF Walks, Onward, InUse
<1>9. ASSUME NEW f \in Flusher, NEW i \in Entry, NEW b, Takes(f, i, b) PROVE Table'
  <2>1. /\ f \in Task /\ dirty[i].dev \in Device
        /\ \A j \in Entry : j # i => dirty'[j] = dirty[j]
        /\ dirty'[i].dev = dirty[i].dev /\ dirty'[i].flushing /\ ~dirty'[i].remarked
        /\ call'[f] = [do |-> "save", dev |-> dirty[i].dev, copy |-> 0, slot |-> i, back |-> b]
        /\ \A s \in Task : s # f => call'[s] = call[s]
    BY <1>9, TakesIs
  <2>2. call'[f].do = "save" /\ call'[f].dev = dirty[i].dev /\ call'[f].copy = 0 /\ call'[f].slot = i
    BY <2>1
  <2>3. ~dirty[i].flushing /\ call[f].do \notin {"save", "settle"}
    BY <1>9 DEF Takes, InUse
  <2>4. \A t \in Task : ~InFlight(t, i)
    BY <2>3 DEF Table
  <2>5. \A t \in Task : \A j \in Entry : InFlight(t, j)' <=> (InFlight(t, j) \/ (t = f /\ j = i))
    BY <2>1, <2>2, <2>3 DEF InFlight
  <2>6. \A j \in Entry : dirty'[j].dev = dirty[j].dev
    BY <2>1
  <2>7. \A t \in Task, j \in Entry : InFlight(t, j)' =>
              t \in Flusher /\ dirty'[j].flushing /\ (call'[t].do = "save" => dirty'[j].dev = call'[t].dev)
    <3> SUFFICES ASSUME NEW t \in Task, NEW j \in Entry, InFlight(t, j)'
                 PROVE  t \in Flusher /\ dirty'[j].flushing /\ (call'[t].do = "save" => dirty'[j].dev = call'[t].dev)
      OBVIOUS
    <3>1. CASE t = f /\ j = i
      BY <2>1, <2>2, <3>1
    <3>2. CASE InFlight(t, j)
      <4>1. t # f /\ j # i
        BY <2>3, <2>4, <3>2 DEF InFlight
      <4>q. QED BY <2>1, <3>2, <4>1 DEF Table
    <3>q. QED BY <2>5, <3>1, <3>2
  <2>8. \A t, s \in Task, j \in Entry : InFlight(t, j)' /\ InFlight(s, j)' => t = s
    <3> SUFFICES ASSUME NEW t \in Task, NEW s \in Task, NEW j \in Entry, InFlight(t, j)', InFlight(s, j)' PROVE t = s
      OBVIOUS
    <3>1. (InFlight(t, j) \/ (t = f /\ j = i)) /\ (InFlight(s, j) \/ (s = f /\ j = i))
      BY <2>5
    <3>q. QED BY <2>4, <3>1 DEF Table
  <2>9. \A j \in Entry : dirty'[j].flushing => \E t \in Task : InFlight(t, j)'
    BY <2>1, <2>5 DEF Table
  <2>10. \A t \in Flusher : call'[t].do = "save" => call'[t].slot # 0 /\ call'[t].copy = 0
    BY <1>1, <1>f, <2>1, <2>2 DEF Table
  <2>11. /\ \A j \in Entry : dirty'[j].remarked => dirty'[j].flushing
         /\ \A j, k \in Entry : dirty'[j].dev = dirty'[k].dev /\ dirty'[j].dev # 0 => j = k
    BY <2>1, <2>6 DEF Table
  <2>q. QED BY <2>7, <2>8, <2>9, <2>10, <2>11 DEF Table
<1>10. ASSUME NEW f \in Flusher, Settle(f) PROVE Table'
  <2>1. PICK i \in Entry :
              /\ f \in Task /\ call[f].do = "settle" /\ call[f].slot = i /\ call[f].back \in Back /\ call[f].ok \in BOOLEAN
              /\ \A j \in Entry : j # i => dirty'[j] = dirty[j]
              /\ ~dirty'[i].flushing /\ ~dirty'[i].remarked
              /\ IF call[f].ok /\ ~dirty[i].remarked THEN dirty'[i] = Clean ELSE dirty'[i].dev = dirty[i].dev
              /\ call'[f] = IF call[f].back.do = "flushed" THEN [call[f].back EXCEPT !.ok = call[f].ok] ELSE call[f].back
              /\ \A s \in Task : s # f => call'[s] = call[s]
    BY <1>10, SettleIs
  <2>2. \A k \in Back : \A ok : [k EXCEPT !.ok = ok].do = k.do
    BY DEF Back, Idle, FlushedRec, SlotsRec
  <2>3. call'[f].do \notin {"save", "settle"}
    <3>1. call'[f].do = call[f].back.do
      BY <2>1, <2>2
    <3>q. QED BY <1>0, <2>1, <3>1 DEF InUse
  <2>4. InFlight(f, i) /\ \A t \in Task : InFlight(t, i) => t = f
    BY <2>1 DEF InFlight, Table
  <2>5. \A t \in Task : \A j \in Entry : InFlight(t, j)' <=> (InFlight(t, j) /\ j # i)
    BY <2>1, <2>3, <2>4 DEF InFlight
  <2>6. \A t \in Task : call'[t].do = "save" => call'[t] = call[t]
    BY <2>1, <2>3
  <2>7. dirty'[i].dev \in {0, dirty[i].dev}
    BY <2>1 DEF Clean
  <2>8. \A j, k \in Entry : dirty'[j].dev = dirty'[k].dev /\ dirty'[j].dev # 0 => j = k
    <3> SUFFICES ASSUME NEW j \in Entry, NEW k \in Entry, dirty'[j].dev = dirty'[k].dev, dirty'[j].dev # 0 PROVE j = k
      OBVIOUS
    <3>1. dirty[j].dev = dirty'[j].dev /\ dirty[k].dev = dirty'[k].dev
      BY <2>1, <2>7
    <3>q. QED BY <3>1 DEF Table
  <2>9. \A t \in Task, j \in Entry : InFlight(t, j)' =>
              t \in Flusher /\ dirty'[j].flushing /\ (call'[t].do = "save" => dirty'[j].dev = call'[t].dev)
    BY <2>1, <2>5, <2>6 DEF Table
  <2>10. \A t, s \in Task, j \in Entry : InFlight(t, j)' /\ InFlight(s, j)' => t = s
    BY <2>5 DEF Table
  <2>11. \A j \in Entry : dirty'[j].flushing => \E t \in Task : InFlight(t, j)'
    BY <2>1, <2>5 DEF Table
  <2>12. \A t \in Flusher : call'[t].do = "save" => call'[t].slot # 0 /\ call'[t].copy = 0
    BY <1>f, <2>6 DEF Table
  <2>13. \A j \in Entry : dirty'[j].remarked => dirty'[j].flushing
    BY <2>1 DEF Table
  <2>q. QED BY <2>8, <2>9, <2>10, <2>11, <2>12, <2>13 DEF Table
<1>11. ASSUME NEW t \in Task, NEW ok \in BOOLEAN, Ends(t, ok) PROVE Table'
  <2>1. /\ call[t].slot \in {0} \cup Entry /\ call[t].back \in Back /\ call[t].do = "save" /\ dirty' = dirty
        /\ call'[t] = IF call[t].slot = 0 THEN call[t].back
                      ELSE [do |-> "settle", slot |-> call[t].slot, ok |-> ok, back |-> call[t].back]
        /\ \A s \in Task : s # t => call'[s] = call[s]
    BY <1>11, EndsIs DEF Ends
  <2>2. call'[t].do \in {"settle"} \cup {call[t].back.do} /\ call'[t].do # "save"
    BY <1>0, <2>1 DEF InUse
  <2>3. \A i \in Entry : InFlight(t, i)' <=> InFlight(t, i)
    <3>1. CASE call[t].slot = 0
      BY <1>0, <1>1, <2>1, <3>1 DEF InFlight, InUse
    <3>2. CASE call[t].slot # 0
      BY <2>1, <3>2 DEF InFlight
    <3>q. QED BY <3>1, <3>2
  <2>4. \A s \in Task : \A i \in Entry : InFlight(s, i)' <=> InFlight(s, i)
    BY <2>1, <2>3 DEF InFlight
  <2>5. \A s \in Task : call'[s].do = "save" => call'[s] = call[s]
    BY <2>1, <2>2
  <2>q. QED BY <1>f, <2>1, <2>4, <2>5, TableStays
<1>12. ASSUME NEW t \in Task, NEW ok \in BOOLEAN, Erases(t, ok) PROVE Table'
  <2>1. call[t].do = "delete" /\ call'[t] = Idle /\ dirty' = dirty /\ \A s \in Task : s # t => call'[s] = call[s]
    BY <1>12, ErasesIs DEF Erases
  <2>q. QED BY <1>0, <1>3, <2>1
<1>13. ASSUME NEW t \in Task, GoesOn(t) PROVE Table'
  BY <1>4, <1>13 DEF GoesOn
<1>q. QED BY <1>2, <1>4, <1>5, <1>6, <1>7, <1>8, <1>9, <1>10, <1>11, <1>12, <1>13, StepKinds

-----------------------------------------------------------------------------
\* What a flush may promise of a device's change v, and what stands for it until it is kept:
\* flash has it or a later one, a flusher saves it, its slot is pending, or a flusher is about
\* to make it pending again.

Reached(d, v) == VerIn(row, cnt, d) >= v \/ v <= left[d]
Owable(d, v)  == v <= pool[d] \/ v <= left[d]
Saves(t)      == op.step \in {"more", "row"} /\ op.task = t
Covered(d, v) == \E t \in Flusher : call[t].do = "save" /\ call[t].dev = d /\ (Saves(t) => op.ver >= v)
Open(i)       == ~dirty[i].flushing \/ dirty[i].remarked
Pending(d)    == \E i \in Entry : dirty[i].dev = d /\ Open(i)
Refused(d)    == \E t \in Flusher : call[t].do = "settle" /\ ~call[t].ok /\ dirty[call[t].slot].dev = d
Owing(d, v)   == Reached(d, v) \/ Covered(d, v) \/ Pending(d) \/ Refused(d)

\* A step of the running system, and what it can be.
OnStep ==
    /\ Ready /\ Next /\ up = "on" /\ up' = "on"
    /\ Table /\ Table' /\ Lefts /\ Lefts'

LEMMA OnKinds ==
    ASSUME OnStep
    PROVE  \/ \E c \in Client : Edit(c) \/ Remove(c) \/ Mark(c)
           \/ \E f \in Flusher : (\E k : Walks(f, k)) \/ (\E i \in Entry : \E b : Takes(f, i, b)) \/ (Settle(f) /\ UNCHANGED Rest)
           \/ \E t \in Task : Ends(t, TRUE) \/ Ends(t, FALSE) \/ Erases(t, TRUE) \/ Erases(t, FALSE) \/ GoesOn(t)
<1>1. ~Cut /\ ~Repair /\ ~RepairErase /\ ~Load
  BY DEF OnStep, Cut, Repair, RepairErase, Load
<1>q. QED BY <1>1, StepKinds DEF OnStep, Ready

LEMMA SavesIs == ASSUME Shape, NEW t, Saves(t) PROVE t \in Task /\ call[t].do = "save" /\ op # NoOp /\ op.dev = call[t].dev
BY OpKinds DEF Saves, SaveRec

LEMMA Numbered ==
    ASSUME OnStep
    PROVE  \A d \in Device : /\ pool[d] \in Nat /\ pool'[d] \in Nat /\ left[d] \in Nat /\ left'[d] \in Nat
                             /\ VerIn(row, cnt, d) \in Nat /\ VerIn(row', cnt', d) \in Nat
                             /\ pool[d] <= edits /\ edits \in Nat
<1>1. \A d \in Device : VerIn(row', cnt', d) \in Nat
  <2>1. ASSUME NEW d \in Device PROVE VerIn(row', cnt', d) \in Nat
    <3>1. RowsIn(row', cnt', d) # {} => Min(RowsIn(row', cnt', d)) \in Slot
      <4>1. RowsIn(row', cnt', d) \in SUBSET Nat
        BY SlotNat DEF RowsIn
      <4>2. RowsIn(row', cnt', d) # {} => Min(RowsIn(row', cnt', d)) \in RowsIn(row', cnt', d)
        BY <4>1, MinExists
      <4>q. QED BY <4>2 DEF RowsIn
    <3>2. \A i \in Slot : row'[i].ver \in Nat
      BY DEF OnStep, Ready, Shape, FlashOK, RowRec
    <3>q. QED BY <3>1, <3>2 DEF VerIn
  <2>q. QED BY <2>1
<1>2. \A d \in Device : pool[d] \in Nat /\ pool[d] <= edits /\ VerIn(row, cnt, d) \in Nat /\ edits \in Nat
  BY Behind DEF OnStep
<1>3. \A d \in Device : pool'[d] \in Nat /\ left[d] \in Nat /\ left'[d] \in Nat
  BY DEF OnStep, Ready, Shape, PoolOK, Lefts
<1>q. QED BY <1>1, <1>2, <1>3

\* The pool and the removals only go on.
LEMMA PoolMoves ==
    ASSUME OnStep, NEW d \in Device
    PROVE  left[d] <= left'[d] /\ (pool[d] <= pool'[d] \/ pool[d] <= left'[d])
<1>1. ASSUME UNCHANGED <<left, pool>> PROVE left[d] <= left'[d] /\ (pool[d] <= pool'[d] \/ pool[d] <= left'[d])
  BY <1>1, Numbered
<1>2. ASSUME NEW c \in Client, Edit(c) PROVE left[d] <= left'[d] /\ (pool[d] <= pool'[d] \/ pool[d] <= left'[d])
  <2>1. PICK e \in Device : pool'[e] = edits' /\ \A x \in Device : x # e => pool'[x] = pool[x]
    BY <1>2, EditMoves DEF OnStep, Ready
  <2>2. edits' = edits + 1 /\ left' = left
    BY <1>2, EditMoves DEF OnStep, Ready
  <2>q. QED BY <2>1, <2>2, Numbered
<1>3. ASSUME NEW c \in Client, Remove(c) PROVE left[d] <= left'[d] /\ (pool[d] <= pool'[d] \/ pool[d] <= left'[d])
  <2>1. PICK e \in Device : /\ pool'[e] = 0 /\ \A x \in Device : x # e => pool'[x] = pool[x]
                            /\ left'[e] = edits /\ \A x \in Device : x # e => left'[x] = left[x]
    BY <1>3, RemoveMoves DEF OnStep, Ready, Lefts
  <2>2. left[d] <= edits
    BY DEF OnStep, Lefts
  <2>q. QED BY <2>1, <2>2, Numbered
<1>4. ASSUME NEW c \in Client, Mark(c) PROVE UNCHANGED <<left, pool>>
  BY <1>4, MarkIs DEF Rest, past, OnStep, Ready
<1>5. ASSUME NEW f \in Flusher, (\E k : Walks(f, k)) \/ (\E i \in Entry : \E b : Takes(f, i, b)) \/ (Settle(f) /\ UNCHANGED Rest)
      PROVE  UNCHANGED <<left, pool>>
  BY <1>5 DEF Walks, Takes, Rest, past
<1>6. ASSUME NEW t \in Task, Ends(t, TRUE) \/ Ends(t, FALSE) \/ Erases(t, TRUE) \/ Erases(t, FALSE) \/ GoesOn(t)
      PROVE  UNCHANGED <<left, pool>>
  BY <1>6 DEF Ends, Erases, GoesOn
<1>q. QED BY <1>1, <1>2, <1>3, <1>4, <1>5, <1>6, OnKinds

LEMMA OwableKept == ASSUME OnStep, NEW d \in Device, NEW v \in Nat, Owable(d, v) PROVE Owable(d, v)'
BY PoolMoves, Numbered DEF Owable

\* Flash forgets a device's record only when it is deleted, out of the pool.
LEMMA VerGrows ==
    ASSUME OnStep, NEW d \in Device
    PROVE  VerIn(row, cnt, d) <= VerIn(row', cnt', d) \/ (pool[d] = 0 /\ left' = left)
<1>0. Shape /\ OneRow /\ Tidy /\ Next /\ ~leftover' /\ CopyIsPools
  BY DEF OnStep, Ready, Tidy
<1>1. CASE SameVers
  BY <1>1, Numbered DEF SameVers
<1>2. ASSUME NEW t \in Task, SaveRow(t), NewVer(op.dev, op.ver)
      PROVE  VerIn(row, cnt, d) <= VerIn(row', cnt', d)
  <2>1. op.step = "row"
    BY <1>2 DEF SaveRow
  <2>2. VerIn(row, cnt, op.dev) <= op.ver
    BY <2>1, Behind DEF OnStep
  <2>q. QED BY <1>2, <2>2, Numbered DEF NewVer
<1>3. ASSUME NEW t \in Task, DeleteMove(t) \/ DeleteShrink(t), NewVer(op.dev, 0)
      PROVE  VerIn(row, cnt, d) <= VerIn(row', cnt', d) \/ (pool[d] = 0 /\ left' = left)
  <2>1. op \in OpDelete /\ call[op.task] \in DeleteRec /\ call[op.task].dev = op.dev /\ op.task \in Task
    BY <1>0, <1>3, OpKinds DEF DeleteMove, DeleteShrink
  <2>2. pool[op.dev] = 0
    BY <1>0, <2>1 DEF CopyIsPools, DeleteRec
  <2>3. left' = left
    BY <1>3 DEF DeleteMove, DeleteShrink, past
  <2>q. QED BY <1>3, <2>2, <2>3, Numbered DEF NewVer
<1>q. QED BY <1>0, <1>1, <1>2, <1>3, NextRows

LEMMA ReachedKept == ASSUME OnStep, NEW d \in Device, NEW v \in Nat, Owable(d, v), Reached(d, v) PROVE Reached(d, v)'
<1>1. CASE v <= left[d]
  BY <1>1, PoolMoves, Numbered DEF Reached
<1>2. CASE VerIn(row, cnt, d) >= v /\ VerIn(row, cnt, d) <= VerIn(row', cnt', d)
  BY <1>2, Numbered DEF Reached
<1>3. CASE VerIn(row, cnt, d) >= v /\ pool[d] = 0 /\ left' = left
  <2>1. v <= left[d] \/ v = 0
    BY <1>3, Numbered DEF Owable
  <2>q. QED BY <1>3, <2>1, Numbered DEF Reached
<1>q. QED BY <1>1, <1>2, <1>3, VerGrows DEF Reached

\* What a flusher has in its slot.
LEMMA FlusherSaves ==
    ASSUME Shape, Table, NEW t \in Flusher
    PROVE  /\ t \in Task
           /\ call[t].do = "save" => /\ call[t].slot \in Entry /\ call[t].copy = 0 /\ call[t].dev \in Device
                                     /\ dirty[call[t].slot].dev = call[t].dev /\ Record(t) = pool[call[t].dev]
           /\ call[t].do \in {"save", "settle"} => /\ call[t].slot \in Entry /\ dirty[call[t].slot].flushing
                                                   /\ \A s \in Task : InFlight(s, call[t].slot) => s = t
<1>1. t \in Task
  BY DEF Task
<1>2. call[t].do = "save" => /\ call[t].slot \in Entry /\ call[t].copy = 0 /\ call[t].dev \in Device
                             /\ dirty[call[t].slot].dev = call[t].dev
  BY <1>1, CallTypes DEF Table, InFlight
<1>3. call[t].do = "settle" => call[t].slot \in Entry
  BY <1>1, CallTypes
<1>4. call[t].do \in {"save", "settle"} => /\ call[t].slot \in Entry /\ dirty[call[t].slot].flushing
                                           /\ \A s \in Task : InFlight(s, call[t].slot) => s = t
  BY <1>1, <1>2, <1>3 DEF Table, InFlight
<1>5. call[t].do = "save" => Record(t) = pool[call[t].dev]
  BY <1>2 DEF Record
<1>q. QED BY <1>1, <1>2, <1>4, <1>5

\* The tasks that a step leaves alone.
LEMMA OthersStay ==
    ASSUME OnStep
    PROVE  /\ \A c \in Client : Edit(c) \/ Remove(c) \/ Mark(c) =>
                 c \in Task /\ c \notin Flusher /\ op' = op /\ \A s \in Task : s # c => call'[s] = call[s]
           /\ \A f \in Flusher : \A k : Walks(f, k) =>
                 f \in Task /\ op' = op /\ dirty' = dirty /\ call'[f] = k /\ call[f].do \notin InUse /\ k.do \notin InUse
                 /\ \A s \in Task : s # f => call'[s] = call[s]
<1>0. Shape /\ left \in [Device -> Nat]
  BY DEF OnStep, Ready, Lefts
<1>1. ASSUME NEW c \in Client, Edit(c) \/ Remove(c) \/ Mark(c)
      PROVE  c \in Task /\ c \notin Flusher /\ op' = op /\ \A s \in Task : s # c => call'[s] = call[s]
  <2>1. c \in Task /\ c \notin Flusher
    BY ZapConstants DEF Task, Flusher
  <2>2. \E k : call' = [call EXCEPT ![c] = k]
    BY <1>1 DEF Edit, Remove, Mark
  <2>3. op' = op
    BY <1>1 DEF Edit, Remove, Mark
  <2>q. QED BY <1>0, <2>1, <2>2, <2>3, CallMoved
<1>2. ASSUME NEW f \in Flusher, NEW k, Walks(f, k)
      PROVE  f \in Task /\ op' = op /\ dirty' = dirty /\ call'[f] = k /\ call[f].do \notin InUse /\ k.do \notin InUse
             /\ \A s \in Task : s # f => call'[s] = call[s]
  <2>1. f \in Task
    BY DEF Task
  <2>2. call'[f] = k /\ \A s \in Task : s # f => call'[s] = call[s]
    BY <1>0, <1>2, <2>1, CallMoved DEF Walks
  <2>q. QED BY <1>2, <2>1, <2>2 DEF Walks, Onward, Rest
<1>q. QED BY <1>1, <1>2

\* A save that is under way keeps to it, unless it fails.
LEMMA CoveredKept ==
    ASSUME OnStep, NEW d \in Device, NEW v \in Nat, Owable(d, v), Covered(d, v)
    PROVE  Covered(d, v)' \/ Reached(d, v)' \/ (Refused(d)' /\ \E t \in Task : Ends(t, FALSE))
<1>0. Shape /\ OneRow /\ Tidy /\ Next /\ ~leftover' /\ fails \in Nat
  BY DEF OnStep, Ready, Tidy
<1>1. PICK t \in Flusher : call[t].do = "save" /\ call[t].dev = d /\ (Saves(t) => op.ver >= v)
  BY DEF Covered
<1>2. /\ t \in Task /\ call[t].slot \in Entry /\ dirty[call[t].slot].dev = d /\ Record(t) = pool[d]
      /\ call[t].slot # 0
  BY <1>0, <1>1, FlusherSaves, EntryNat DEF OnStep
<1>3. ASSUME call'[t] = call[t], Saves(t)' => op'.ver >= v PROVE Covered(d, v)'
  BY <1>1, <1>3 DEF Covered
<1>4. ASSUME call'[t] = call[t], op' = op PROVE Covered(d, v)'
  BY <1>1, <1>3, <1>4 DEF Saves
<1>5. ASSUME NEW c \in Client, Edit(c) \/ Remove(c) \/ Mark(c) PROVE Covered(d, v)'
  BY <1>2, <1>4, <1>5, OthersStay
<1>6. ASSUME NEW f \in Flusher, NEW k, Walks(f, k) PROVE Covered(d, v)'
  BY <1>1, <1>2, <1>4, <1>6, OthersStay DEF InUse
<1>7. ASSUME NEW f \in Flusher, NEW i \in Entry, NEW b, Takes(f, i, b) PROVE Covered(d, v)'
  <2>1. f # t /\ op' = op
    BY <1>1, <1>7 DEF Takes, InUse, Rest
  <2>q. QED BY <1>0, <1>2, <1>4, <1>7, <2>1, TakesIs
<1>8. ASSUME NEW f \in Flusher, Settle(f), UNCHANGED Rest PROVE Covered(d, v)'
  <2>1. f # t /\ op' = op
    BY <1>1, <1>8 DEF Settle, Rest
  <2>2. \A s \in Task : s # f => call'[s] = call[s]
    BY <1>0, <1>8, SettleIs
  <2>q. QED BY <1>2, <1>4, <2>1, <2>2
<1>9. ASSUME NEW s \in Task, s # t, \A x \in Task : x # s => call'[x] = call[x], op' = NoOp PROVE Covered(d, v)'
  BY <1>2, <1>3, <1>9 DEF Saves, NoOp
<1>10. ASSUME Ends(t, TRUE) PROVE Reached(d, v)'
  <2>1. CASE Record(t) = 0
    <3>1. v <= left[d] \/ v = 0
      BY <1>2, <2>1, Numbered DEF Owable
    <3>2. Reached(d, v)
      BY <3>1, Numbered DEF Reached
    <3>q. QED BY <3>2, ReachedKept
  <2>2. CASE op.step = "row" /\ op.task = t /\ SaveRow(t) /\ Written
    <3>1. op.dev = d /\ op.ver >= v
      BY <1>0, <1>1, <2>2, SavesIs DEF Saves
    <3>2. NewVer(op.dev, op.ver)
      <4>1. Orderly
        BY ReadyIs DEF OnStep
      <4>2. ~Fails
        BY <1>0, <2>2 DEF Written, Fails
      <4>q. QED BY <1>2, <2>2, <4>1, <4>2, SaveRowRows
    <3>q. QED BY <3>1, <3>2 DEF NewVer, Reached
  <2>q. QED BY <1>10, <2>1, <2>2 DEF Ends
<1>11. ASSUME Ends(t, FALSE) PROVE Refused(d)'
  <2>1. call'[t] = [do |-> "settle", slot |-> call[t].slot, ok |-> FALSE, back |-> call[t].back]
    BY <1>0, <1>2, <1>11, EndsIs
  <2>2. dirty' = dirty
    BY <1>11 DEF Ends
  <2>q. QED BY <1>2, <2>1, <2>2 DEF Refused
<1>12. ASSUME NEW s \in Task, NEW ok \in BOOLEAN, Ends(s, ok), s # t PROVE Covered(d, v)'
  <2>1. op' = NoOp
    BY <1>12 DEF Ends, Saved
  <2>q. QED BY <1>0, <1>9, <1>12, <2>1, EndsIs
<1>13. ASSUME NEW s \in Task, NEW ok \in BOOLEAN, Erases(s, ok) PROVE Covered(d, v)'
  <2>1. op' = NoOp /\ s # t
    BY <1>1, <1>13 DEF Erases, Deleted
  <2>q. QED BY <1>0, <1>9, <1>13, <2>1, ErasesIs
<1>14. ASSUME NEW s \in Task, GoesOn(s) PROVE Covered(d, v)' \/ Reached(d, v)'
  <2>1. call'[t] = call[t] /\ op'.task = s
    BY <1>14 DEF GoesOn
  <2>2. CASE ~Saves(t)'
    BY <1>3, <2>1, <2>2
  <2>3. CASE Saves(t)'
    <3>1. s = t /\ op'.step \in {"more", "row"}
      BY <2>1, <2>3 DEF Saves
    <3>2. CASE op = NoOp /\ op'.ver = Record(t)
      <4>1. CASE v <= pool[d]
        BY <1>2, <1>3, <2>1, <3>2, <4>1, Numbered
      <4>2. CASE v <= left[d]
        BY <4>2, ReachedKept DEF Reached
      <4>q. QED BY <4>1, <4>2 DEF Owable
    <3>3. CASE op.step = "more" /\ op'.ver = op.ver
      <4>1. op # NoOp
        BY <3>3 DEF NoOp
      <4>2. op.task = t
        BY <1>14, <3>1, <4>1 DEF GoesOn
      <4>q. QED BY <1>1, <1>3, <2>1, <3>3, <4>2 DEF Saves
    <3>q. QED BY <1>14, <3>1, <3>2, <3>3 DEF GoesOn
  <2>q. QED BY <2>2, <2>3
<1>q. QED BY <1>5, <1>6, <1>7, <1>8, <1>10, <1>11, <1>12, <1>13, <1>14, OnKinds

LEMMA PendingKept ==
    ASSUME OnStep, NEW d \in Device, Pending(d)
    PROVE  Pending(d)' \/ \A v : Covered(d, v)'
<1>0. Shape /\ d # 0
  BY Numbers DEF OnStep, Ready
<1>1. PICK i \in Entry : dirty[i].dev = d /\ Open(i)
  BY DEF Pending
<1>2. ASSUME dirty'[i] = dirty[i] PROVE Pending(d)'
  BY <1>1, <1>2 DEF Pending, Open
<1>3. ASSUME NEW c \in Client, Edit(c) \/ Remove(c) PROVE Pending(d)'
  BY <1>2, <1>3 DEF Edit, Remove
<1>4. ASSUME NEW c \in Client, Mark(c) PROVE Pending(d)'
  <2>1. CASE dirty' = dirty
    BY <1>2, <2>1
  <2>2. CASE MarkSlot(call[c].dev)
    <3> DEFINE e == call[c].dev
    <3>1. e \in Device
      BY <1>0, <1>4, MarkIs
    <3>2. PICK j \in Entry :
              /\ \A k \in Entry : k # j => dirty'[k] = dirty[k]
              /\ dirty'[j].dev = e /\ (dirty'[j].flushing <=> dirty[j].flushing) /\ (dirty'[j].remarked <=> dirty[j].flushing)
              /\ dirty[j].dev = e \/ (dirty[j] = Clean /\ PendingSlots(e) = {})
      BY <1>0, <2>2, <3>1, MarkSlotIs DEF OnStep
    <3>3. CASE i = j
      <4>1. e = d
        BY <1>0, <1>1, <3>2, <3>3 DEF Clean
      <4>q. QED BY <3>2, <3>3, <4>1 DEF Pending, Open
    <3>4. CASE i # j
      BY <1>2, <3>2, <3>4
    <3>q. QED BY <3>3, <3>4
  <2>q. QED BY <1>0, <1>4, <2>1, <2>2, MarkIs
<1>5. ASSUME NEW f \in Flusher, NEW k, Walks(f, k) PROVE Pending(d)'
  BY <1>2, <1>5 DEF Walks
<1>6. ASSUME NEW f \in Flusher, NEW j \in Entry, NEW b, Takes(f, j, b) PROVE Pending(d)' \/ \A v : Covered(d, v)'
  <2>1. /\ f \in Task
        /\ \A k \in Entry : k # j => dirty'[k] = dirty[k]
        /\ call'[f] = [do |-> "save", dev |-> dirty[j].dev, copy |-> 0, slot |-> j, back |-> b]
    BY <1>0, <1>6, TakesIs
  <2>2. CASE i # j
    BY <1>2, <2>1, <2>2
  <2>3. CASE i = j
    <3>1. call'[f].do = "save" /\ call'[f].dev = d
      BY <1>1, <2>1, <2>3
    <3>2. ~Saves(f)
      BY <1>0, <1>6, SavesIs DEF Takes, InUse
    <3>3. op' = op
      BY <1>6 DEF Takes, Rest
    <3>q. QED BY <3>1, <3>2, <3>3 DEF Covered, Saves
  <2>q. QED BY <2>2, <2>3
<1>7. ASSUME NEW f \in Flusher, Settle(f) PROVE Pending(d)'
  <2>1. PICK j \in Entry :
              /\ call[f].do = "settle" /\ call[f].slot = j
              /\ \A k \in Entry : k # j => dirty'[k] = dirty[k]
              /\ ~dirty'[j].flushing /\ ~dirty'[j].remarked
              /\ IF call[f].ok /\ ~dirty[j].remarked THEN dirty'[j] = Clean ELSE dirty'[j].dev = dirty[j].dev
    BY <1>0, <1>7, SettleIs
  <2>2. CASE i # j
    BY <1>2, <2>1, <2>2
  <2>3. CASE i = j
    <3>1. dirty[j].flushing
      BY <1>0, <2>1, FlusherSaves DEF OnStep
    <3>q. QED BY <1>1, <2>1, <2>3, <3>1 DEF Pending, Open
  <2>q. QED BY <2>2, <2>3
<1>8. ASSUME NEW t \in Task, Ends(t, TRUE) \/ Ends(t, FALSE) \/ Erases(t, TRUE) \/ Erases(t, FALSE) \/ GoesOn(t) PROVE Pending(d)'
  BY <1>2, <1>8 DEF Ends, Erases, GoesOn
<1>q. QED BY <1>3, <1>4, <1>5, <1>6, <1>7, <1>8, OnKinds

LEMMA RefusedKept ==
    ASSUME OnStep, NEW d \in Device, Refused(d)
    PROVE  Refused(d)' \/ Pending(d)'
<1>0. Shape /\ Table /\ d # 0
  BY Numbers DEF OnStep, Ready
<1>1. PICK t \in Flusher : call[t].do = "settle" /\ ~call[t].ok /\ dirty[call[t].slot].dev = d
  BY DEF Refused
<1> DEFINE i == call[t].slot
<1>2. t \in Task /\ i \in Entry /\ dirty[i].flushing /\ \A s \in Task : InFlight(s, i) => s = t
  BY <1>0, <1>1, FlusherSaves
<1>3. ASSUME call'[t] = call[t], dirty'[i].dev = d PROVE Refused(d)'
  BY <1>1, <1>3 DEF Refused
<1>4. ASSUME NEW c \in Client, Edit(c) \/ Remove(c) PROVE Refused(d)'
  <2>1. dirty' = dirty /\ call'[t] = call[t]
    BY <1>2, <1>4, OthersStay DEF Edit, Remove
  <2>q. QED BY <1>1, <1>3, <2>1
<1>5. ASSUME NEW c \in Client, Mark(c) PROVE Refused(d)'
  <2>0. call'[t] = call[t]
    BY <1>2, <1>5, OthersStay
  <2>1. CASE dirty' = dirty
    BY <1>1, <1>3, <2>0, <2>1
  <2>2. CASE MarkSlot(call[c].dev)
    <3> DEFINE e == call[c].dev
    <3>1. e \in Device
      BY <1>0, <1>5, MarkIs
    <3>2. PICK j \in Entry :
              /\ \A k \in Entry : k # j => dirty'[k] = dirty[k]
              /\ dirty'[j].dev = e
              /\ dirty[j].dev = e \/ (dirty[j] = Clean /\ PendingSlots(e) = {})
      BY <1>0, <2>2, <3>1, MarkSlotIs
    <3>3. dirty'[i].dev = d
      BY <1>0, <1>1, <1>2, <3>2 DEF Clean
    <3>q. QED BY <1>3, <2>0, <3>3
  <2>q. QED BY <1>0, <1>5, <2>1, <2>2, MarkIs
<1>6. ASSUME NEW f \in Flusher, NEW k, Walks(f, k) PROVE Refused(d)'
  <2>1. dirty' = dirty /\ call'[t] = call[t]
    BY <1>1, <1>2, <1>6, OthersStay DEF InUse
  <2>q. QED BY <1>1, <1>3, <2>1
<1>7. ASSUME NEW f \in Flusher, NEW j \in Entry, NEW b, Takes(f, j, b) PROVE Refused(d)'
  <2>1. f # t
    BY <1>1, <1>7 DEF Takes, InUse
  <2>2. dirty'[i].dev = dirty[i].dev /\ call'[t] = call[t]
    BY <1>0, <1>2, <1>7, <2>1, TakesIs
  <2>q. QED BY <1>1, <1>3, <2>2
<1>8. ASSUME NEW f \in Flusher, Settle(f) PROVE Refused(d)' \/ Pending(d)'
  <2>1. PICK j \in Entry :
              /\ f \in Task /\ call[f].do = "settle" /\ call[f].slot = j
              /\ \A k \in Entry : k # j => dirty'[k] = dirty[k]
              /\ ~dirty'[j].flushing /\ ~dirty'[j].remarked
              /\ IF call[f].ok /\ ~dirty[j].remarked THEN dirty'[j] = Clean ELSE dirty'[j].dev = dirty[j].dev
              /\ \A s \in Task : s # f => call'[s] = call[s]
    BY <1>0, <1>8, SettleIs
  <2>2. CASE f = t
    BY <1>1, <2>1, <2>2 DEF Pending, Open
  <2>3. CASE f # t
    <3>1. i # j
      BY <1>2, <2>1, <2>3 DEF InFlight
    <3>q. QED BY <1>1, <1>2, <1>3, <2>1, <2>3, <3>1
  <2>q. QED BY <2>2, <2>3
<1>9. ASSUME NEW s \in Task, NEW ok \in BOOLEAN, Ends(s, ok) PROVE Refused(d)'
  <2>1. s # t /\ dirty' = dirty
    BY <1>1, <1>9 DEF Ends
  <2>q. QED BY <1>0, <1>1, <1>2, <1>3, <1>9, <2>1, EndsIs
<1>10. ASSUME NEW s \in Task, NEW ok \in BOOLEAN, Erases(s, ok) PROVE Refused(d)'
  <2>1. s # t /\ dirty' = dirty
    BY <1>1, <1>10 DEF Erases
  <2>q. QED BY <1>0, <1>1, <1>2, <1>3, <1>10, <2>1, ErasesIs
<1>11. ASSUME NEW s \in Task, GoesOn(s) PROVE Refused(d)'
  BY <1>1, <1>3, <1>11 DEF GoesOn
<1>q. QED BY <1>4, <1>5, <1>6, <1>7, <1>8, <1>9, <1>10, <1>11, OnKinds

LEMMA OwingKept == ASSUME OnStep, NEW d \in Device, NEW v \in Nat, Owable(d, v), Owing(d, v) PROVE Owing(d, v)'
BY ReachedKept, CoveredKept, PendingKept, RefusedKept DEF Owing

-----------------------------------------------------------------------------
\* Nothing that the pool has is forgotten.

\* Another task is on the way with a later change.
Waits(d) == \E t \in Task : t # op.task /\ call[t].do \in {"mark", "save"} /\ call[t].dev = d
\* What is being written is the pool's record, or the change since is still to come.
Current == op.step \in {"more", "row"} =>
              pool[op.dev] = 0 \/ op.ver >= pool[op.dev] \/ Pending(op.dev) \/ Waits(op.dev)
Heeded(d) == pool[d] = 0 \/ d \in givenUp \/ (\E c \in Client : Busy(c, d)) \/ Owing(d, pool[d])
Safe == up = "on" => \A d \in Device : Heeded(d)

LEMMA MarkMakesPending == ASSUME Shape, Table, NEW d \in Device, MarkSlot(d) PROVE Pending(d)'
BY MarkSlotIs DEF Pending, Open

LEMMA PendingGoesOn ==
    ASSUME OnStep, NEW d \in Device, Pending(d), op' = op, op.step \in {"more", "row"}
    PROVE  Pending(d)' \/ Waits(d)' \/ op.ver >= pool'[d]
<1>1. CASE \A v : Covered(d, v)'
  <2>2. PICK t \in Flusher : call'[t].do = "save" /\ call'[t].dev = d /\ (Saves(t)' => op'.ver >= pool'[d])
    BY <1>1 DEF Covered
  <2>3. CASE t = op.task
    BY <2>2, <2>3 DEF Saves
  <2>4. CASE t # op.task
    BY <2>2, <2>4 DEF Waits, Task
  <2>q. QED BY <2>3, <2>4
<1>q. QED BY <1>1, PendingKept

LEMMA NextCurrent == ASSUME OnStep, Current PROVE Current'
<1>0. Shape /\ Table /\ CopyIsPools
  BY DEF OnStep, Ready
<1> PICK d : d = op.dev
  OBVIOUS
<1> DEFINE Goal == pool'[d] = 0 \/ op.ver >= pool'[d] \/ Pending(d)' \/ Waits(d)'
<1>1. ASSUME op.step \in {"more", "row"}
      PROVE  op.task \in Task /\ call[op.task].do = "save" /\ d \in Device /\ op # NoOp /\ op.ver \in Nat /\ call[op.task].dev = d
  <2>1. op \in OpSave /\ call[op.task] \in SaveRec /\ op.dev \in Device /\ call[op.task].dev = d /\ op # NoOp
    BY <1>0, <1>1, OpKinds
  <2>q. QED BY <2>1 DEF OpSave, SaveRec
<1>2. ASSUME op' = op, op.step \in {"more", "row"} => Goal PROVE Current'
  BY <1>2 DEF Current
<1>3. ASSUME op' = op, op.step \in {"more", "row"}, Pending(d) PROVE Pending(d)' \/ Waits(d)' \/ op.ver >= pool'[d]
  BY <1>1, <1>3, PendingGoesOn
<1>4. ASSUME NEW c \in Client, Edit(c) PROVE Current'
  <2>1. PICK e \in Device : /\ \A x \in Device : x # e => pool'[x] = pool[x]
                            /\ call'[c] = [do |-> "mark", dev |-> e, ver |-> edits']
                            /\ \A s \in Task : s # c => call'[s] = call[s]
    BY <1>0, <1>4, EditMoves
  <2>2. c \in Task /\ call[c] = Idle /\ op' = op /\ dirty' = dirty
    BY <1>0, <1>4, EditMoves
  <2>3. call'[c].do = "mark" /\ call'[c].dev = e /\ call[c].do = "idle"
    BY <2>1, <2>2 DEF Idle
  <2>4. ASSUME op.step \in {"more", "row"} PROVE Goal
    <3>1. op.task # c
      BY <1>1, <2>3, <2>4
    <3>2. CASE e = d
      BY <2>2, <2>3, <3>1, <3>2 DEF Waits
    <3>3. CASE e # d
      <4>1. pool'[d] = pool[d]
        BY <1>1, <2>1, <2>4, <3>3
      <4>2. Waits(d) => Waits(d)'
        BY <2>1, <2>2, <2>3 DEF Waits
      <4>q. QED BY <2>2, <2>4, <4>1, <4>2 DEF Current, Pending, Open
    <3>q. QED BY <3>2, <3>3
  <2>q. QED BY <1>2, <2>2, <2>4
<1>5. ASSUME NEW c \in Client, Remove(c) PROVE Current'
  <2>1. PICK e \in Device : /\ pool'[e] = 0 /\ \A x \in Device : x # e => pool'[x] = pool[x]
                            /\ \A s \in Task : s # c => call'[s] = call[s]
    BY <1>0, <1>5, RemoveMoves DEF OnStep, Lefts
  <2>2. c \in Task /\ call[c] = Idle /\ op' = op /\ dirty' = dirty
    BY <1>0, <1>5, RemoveMoves DEF OnStep, Lefts
  <2>3. call[c].do = "idle"
    BY <2>2 DEF Idle
  <2>4. ASSUME op.step \in {"more", "row"} PROVE Goal
    <3>1. pool'[d] = 0 \/ pool'[d] = pool[d]
      BY <1>1, <2>1, <2>4
    <3>2. Waits(d) => Waits(d)'
      BY <2>1, <2>2, <2>3 DEF Waits
    <3>q. QED BY <2>2, <2>4, <3>1, <3>2 DEF Current, Pending, Open
  <2>q. QED BY <1>2, <2>2, <2>4
<1>6. ASSUME NEW c \in Client, Mark(c) PROVE Current'
  <2>1. /\ c \in Task /\ call[c].do = "mark" /\ call[c].dev \in Device /\ pool' = pool /\ op' = op
        /\ \A s \in Task : s # c => call'[s] = call[s]
    BY <1>0, <1>6, MarkIs, OthersStay DEF Rest
  <2>2. ASSUME op.step \in {"more", "row"} PROVE Goal
    <3>1. op.task # c
      BY <1>1, <2>1, <2>2
    <3>2. CASE Waits(d)
      <4>1. PICK t \in Task : t # op.task /\ call[t].do \in {"mark", "save"} /\ call[t].dev = d
        BY <3>2 DEF Waits
      <4>2. CASE t # c
        BY <2>1, <4>1, <4>2 DEF Waits
      <4>3. CASE t = c /\ MarkSlot(d)
        BY <1>0, <1>1, <2>2, <4>3, MarkMakesPending
      <4>4. ASSUME t = c, NEW v, call' = [call EXCEPT ![c] = Saving(d, v, 0, Idle)] PROVE Waits(d)'
        <5> DEFINE k == Saving(d, v, 0, Idle)
        <5>1. k.do = "save" /\ k.dev = d
          BY DEF Saving
        <5> HIDE DEF k
        <5>2. call'[c] = k
          BY <1>0, <2>1, <4>4, CallMoved DEF k
        <5>q. QED BY <2>1, <3>1, <5>1, <5>2 DEF Waits
      <4>q. QED BY <1>0, <1>6, <4>1, <4>2, <4>3, <4>4, MarkIs
    <3>q. QED BY <1>3, <2>1, <2>2, <3>2 DEF Current
  <2>q. QED BY <1>2, <2>1, <2>2
<1>7. ASSUME NEW f \in Flusher, f \in Task, call[f].do \notin {"mark", "save"}, \A s \in Task : s # f => call'[s] = call[s],
             UNCHANGED <<op, pool>>
      PROVE  Current'
  <2>1. Waits(d) => Waits(d)'
    BY <1>7 DEF Waits
  <2>q. QED BY <1>2, <1>3, <1>7, <2>1 DEF Current
<1>8. ASSUME NEW f \in Flusher, NEW k, Walks(f, k) PROVE Current'
  BY <1>7, <1>8, OthersStay DEF Walks, Rest, InUse
<1>9. ASSUME NEW f \in Flusher, NEW i \in Entry, NEW b, Takes(f, i, b) PROVE Current'
  <2>1. f \in Task /\ \A s \in Task : s # f => call'[s] = call[s]
    BY <1>0, <1>9, TakesIs
  <2>q. QED BY <1>7, <1>9, <2>1 DEF Takes, Rest, InUse
<1>10. ASSUME NEW f \in Flusher, Settle(f), UNCHANGED Rest PROVE Current'
  <2>1. f \in Task /\ \A s \in Task : s # f => call'[s] = call[s]
    BY <1>0, <1>10, SettleIs
  <2>q. QED BY <1>7, <1>10, <2>1 DEF Settle, Rest
<1>11. ASSUME op' = NoOp PROVE Current'
  BY <1>11 DEF Current, NoOp
<1>12. ASSUME NEW t \in Task, Ends(t, TRUE) \/ Ends(t, FALSE) \/ Erases(t, TRUE) \/ Erases(t, FALSE) PROVE Current'
  BY <1>11, <1>12 DEF Ends, Saved, Erases, Deleted
<1>13. ASSUME NEW t \in Task, GoesOn(t) PROVE Current'
  <2> SUFFICES ASSUME NEW e, e = op'.dev, op'.step \in {"more", "row"}
               PROVE  pool'[e] = 0 \/ op'.ver >= pool'[e] \/ Pending(e)' \/ Waits(e)'
    BY DEF Current
  <2>1. /\ call[t].do = "save" /\ e = call[t].dev /\ op'.task = t /\ UNCHANGED <<call, dirty, pool>>
        /\ \/ op = NoOp /\ op'.ver = Record(t) /\ Record(t) # 0
           \/ op.step = "more" /\ op'.ver = op.ver
    BY <1>13 DEF GoesOn
  <2>2. CASE op = NoOp /\ op'.ver = Record(t)
    <3>1. Record(t) = pool[call[t].dev]
      BY <1>0, <2>1 DEF Record, CopyIsPools
    <3>2. call[t].dev \in Device
      BY <1>0, <2>1, CallTypes
    <3>q. QED BY <2>1, <2>2, <3>1, <3>2, Numbered
  <2>3. CASE op.step = "more" /\ op'.ver = op.ver
    <3>1. op # NoOp
      BY <2>3 DEF NoOp
    <3>2. op.task = t /\ op.dev = call[t].dev
      BY <1>0, <1>13, <2>3, <3>1, OpKinds DEF GoesOn
    <3>3. e = d /\ op'.task = op.task
      BY <2>1, <3>2
    <3>4. pool[d] = 0 \/ op.ver >= pool[d] \/ Pending(d) \/ Waits(d)
      BY <2>3 DEF Current
    <3>5. (Pending(d) => Pending(d)') /\ (Waits(d) => Waits(d)')
      BY <2>1, <3>3 DEF Pending, Open, Waits
    <3>q. QED BY <2>1, <2>3, <3>3, <3>4, <3>5
  <2>q. QED BY <2>1, <2>2, <2>3
<1>q. QED BY <1>4, <1>5, <1>6, <1>8, <1>9, <1>10, <1>12, <1>13, OnKinds

\* A save that succeeds leaves the device heeded.
LEMMA HeededBy == ASSUME NEW d, NEW v, v = pool'[d], Owing(d, v)' PROVE Heeded(d)'
BY DEF Heeded, Owing, Reached, Covered

LEMMA SavedHeeded ==
    ASSUME OnStep, Current, NEW t \in Task, Ends(t, TRUE), NEW d \in Device, d = call[t].dev
    PROVE  Heeded(d)'
<1>0. Shape /\ Table /\ CopyIsPools /\ Orderly /\ fails \in Nat
  BY ReadyIs DEF OnStep, Ready
<1>1. PICK v : v = pool[d]
  OBVIOUS
<1>2. call[t].do = "save" /\ op' = NoOp /\ UNCHANGED <<pool, dirty>> /\ \A s \in Task : s # t => call'[s] = call[s]
  BY <1>0, EndsIs DEF Ends, Saved
<1>3. CASE Record(t) = 0
  <2>1. pool[d] = 0
    BY <1>0, <1>2, <1>3 DEF Record, CopyIsPools
  <2>q. QED BY <1>2, <2>1 DEF Heeded
<1>4. CASE op.step = "row" /\ op.task = t /\ SaveRow(t) /\ Written
  <2>1. op.dev = d
    BY <1>0, <1>4, SavesIs DEF Saves
  <2>2. VerIn(row', cnt', d) = op.ver
    <3>1. ~Fails
      BY <1>0, <1>4 DEF Written, Fails
    <3>q. QED BY <1>0, <1>4, <2>1, <3>1, SaveRowRows DEF NewVer
  <2>3. CASE pool[d] = 0
    BY <1>2, <2>3 DEF Heeded
  <2>4. CASE op.ver >= pool[d]
    <3>1. Owing(d, v)'
      BY <1>1, <2>2, <2>4 DEF Owing, Reached
    <3>q. QED BY <1>1, <1>2, <3>1, HeededBy
  <2>5. CASE Pending(d)
    <3>1. Owing(d, v)'
      BY <1>2, <2>5 DEF Owing, Pending, Open
    <3>q. QED BY <1>1, <1>2, <3>1, HeededBy
  <2>6. CASE Waits(d)
    <3>1. PICK s \in Task : s # t /\ call[s].do \in {"mark", "save"} /\ call[s].dev = d
      BY <1>4, <2>6 DEF Waits
    <3>2. call'[s] = call[s]
      BY <1>2, <3>1
    <3>3. CASE s \in Client
      BY <3>1, <3>2, <3>3 DEF Heeded, Busy
    <3>4. CASE s \notin Client
      <4>1. s \in Flusher /\ call[s].do = "save"
        BY <1>0, <3>1, <3>4 DEF CopyIsPools, Task
      <4>2. ~Saves(s)'
        BY <1>2 DEF Saves, NoOp
      <4>3. Owing(d, v)'
        BY <3>1, <3>2, <4>1, <4>2 DEF Owing, Covered
      <4>q. QED BY <1>1, <1>2, <4>3, HeededBy
    <3>q. QED BY <3>3, <3>4
  <2>q. QED BY <1>4, <2>1, <2>3, <2>4, <2>5, <2>6 DEF Current
<1>q. QED BY <1>3, <1>4 DEF Ends

LEMMA NextSafe == ASSUME OnStep, Current, Safe PROVE Safe'
<1>0. Shape /\ Table /\ CopyIsPools /\ left \in [Device -> Nat]
  BY DEF OnStep, Ready, Lefts
<1> SUFFICES ASSUME NEW d \in Device PROVE Heeded(d)'
  BY DEF Safe
<1>1. Heeded(d)
  BY DEF OnStep, Safe
<1>2. PICK v \in Nat : v = pool[d]
  BY Numbered
<1>3. ASSUME pool'[d] = pool[d], d \in givenUp => d \in givenUp',
             (\E c \in Client : Busy(c, d)) => \E c \in Client : Busy(c, d)'
      PROVE  Heeded(d)'
  <2>1. CASE Owing(d, v)
    <3>1. Owable(d, v)
      BY <1>2, Numbered DEF Owable
    <3>2. Owing(d, v)'
      BY <2>1, <3>1, OwingKept
    <3>q. QED BY <1>2, <1>3, <3>2, HeededBy
  <2>2. CASE pool[d] = 0 \/ d \in givenUp \/ \E c \in Client : Busy(c, d)
    BY <1>3, <2>2 DEF Heeded
  <2>q. QED BY <1>1, <1>2, <2>1, <2>2 DEF Heeded
<1>4. ASSUME NEW c \in Client, Edit(c) PROVE Heeded(d)'
  <2>1. PICK e \in Device : /\ \A x \in Device : x # e => pool'[x] = pool[x]
                            /\ call'[c] = [do |-> "mark", dev |-> e, ver |-> edits']
                            /\ \A s \in Task : s # c => call'[s] = call[s]
    BY <1>0, <1>4, EditMoves
  <2>2. c \in Task /\ call[c] = Idle /\ givenUp' = givenUp
    BY <1>0, <1>4, EditMoves
  <2>3. call'[c].do = "mark" /\ call'[c].dev = e /\ call[c].do = "idle"
    BY <2>1, <2>2 DEF Idle
  <2>4. CASE e = d
    BY <2>3, <2>4 DEF Heeded, Busy
  <2>5. CASE e # d
    <3>1. \A x \in Client : Busy(x, d) => Busy(x, d)'
      BY <2>1, <2>3 DEF Busy, Task
    <3>q. QED BY <1>3, <2>1, <2>2, <2>5, <3>1
  <2>q. QED BY <2>4, <2>5
<1>5. ASSUME NEW c \in Client, Remove(c) PROVE Heeded(d)'
  <2>1. PICK e \in Device : /\ pool'[e] = 0 /\ \A x \in Device : x # e => pool'[x] = pool[x]
                            /\ \A s \in Task : s # c => call'[s] = call[s]
    BY <1>0, <1>5, RemoveMoves
  <2>2. call[c] = Idle /\ givenUp' = givenUp
    BY <1>0, <1>5, RemoveMoves
  <2>3. call[c].do = "idle"
    BY <2>2 DEF Idle
  <2>4. \A x \in Client : Busy(x, d) => Busy(x, d)'
    BY <2>1, <2>3 DEF Busy, Task
  <2>5. CASE e = d
    BY <2>1, <2>5 DEF Heeded
  <2>6. CASE e # d
    BY <1>3, <2>1, <2>2, <2>4, <2>6
  <2>q. QED BY <2>5, <2>6
<1>6. ASSUME NEW c \in Client, Mark(c) PROVE Heeded(d)'
  <2>1. /\ c \in Task /\ call[c].do = "mark" /\ call[c].dev \in Device /\ UNCHANGED <<pool, givenUp>>
        /\ \A s \in Task : s # c => call'[s] = call[s]
    BY <1>0, <1>6, MarkIs, OthersStay DEF Rest
  <2>2. CASE call[c].dev # d
    <3>1. \A x \in Client : Busy(x, d) => Busy(x, d)'
      BY <2>1, <2>2 DEF Busy, Task
    <3>q. QED BY <1>3, <2>1, <3>1
  <2>3. CASE call[c].dev = d /\ MarkSlot(d)
    <3>1. Owing(d, v)'
      BY <1>0, <2>3, MarkMakesPending DEF Owing
    <3>q. QED BY <1>2, <2>1, <3>1, HeededBy
  <2>4. ASSUME NEW w, call' = [call EXCEPT ![c] = Saving(d, w, 0, Idle)] PROVE Heeded(d)'
    <3> DEFINE k == Saving(d, w, 0, Idle)
    <3>1. k.do = "save" /\ k.dev = d
      BY DEF Saving
    <3> HIDE DEF k
    <3>2. call'[c] = k
      BY <1>0, <2>1, <2>4, CallMoved DEF k
    <3>q. QED BY <3>1, <3>2 DEF Heeded, Busy
  <2>q. QED BY <1>0, <1>6, <2>2, <2>3, <2>4, MarkIs
<1>c. \A c \in Client : c \in Task /\ c \notin Flusher
  BY ZapConstants DEF Task, Flusher
<1>7. ASSUME NEW f \in Flusher, \A s \in Task : s # f => call'[s] = call[s], UNCHANGED <<pool, givenUp>> PROVE Heeded(d)'
  <2>1. \A x \in Client : Busy(x, d) => Busy(x, d)'
    BY <1>7, <1>c DEF Busy
  <2>q. QED BY <1>3, <1>7, <2>1
<1>8. ASSUME NEW f \in Flusher, NEW k, Walks(f, k) PROVE Heeded(d)'
  BY <1>7, <1>8, OthersStay DEF Walks, Rest
<1>9. ASSUME NEW f \in Flusher, NEW i \in Entry, NEW b, Takes(f, i, b) PROVE Heeded(d)'
  <2>1. \A s \in Task : s # f => call'[s] = call[s]
    BY <1>0, <1>9, TakesIs
  <2>q. QED BY <1>7, <1>9, <2>1 DEF Takes, Rest
<1>10. ASSUME NEW f \in Flusher, Settle(f), UNCHANGED Rest PROVE Heeded(d)'
  <2>1. \A s \in Task : s # f => call'[s] = call[s]
    BY <1>0, <1>10, SettleIs
  <2>q. QED BY <1>7, <1>10, <2>1 DEF Rest
<1>11. ASSUME NEW t \in Task, Ends(t, TRUE) \/ Ends(t, FALSE), call[t].dev # d PROVE Heeded(d)'
  <2>1. /\ pool' = pool /\ (givenUp' = givenUp \ {call[t].dev} \/ givenUp' = givenUp \cup {call[t].dev} \/ givenUp' = givenUp)
        /\ \A s \in Task : s # t => call'[s] = call[s]
    BY <1>0, <1>11, EndsIs DEF Ends, Saved
  <2>2. \A x \in Client : Busy(x, d) => Busy(x, d)'
    BY <1>11, <1>c, <2>1 DEF Busy
  <2>q. QED BY <1>3, <1>11, <2>1, <2>2
<1>12. ASSUME NEW t \in Task, Ends(t, FALSE), call[t].dev = d PROVE Heeded(d)'
  <2>1. /\ pool' = pool /\ call[t].do = "save" /\ call[t].slot \in {0} \cup Entry
        /\ givenUp' = (IF call[t].slot = 0 THEN givenUp \cup {d} ELSE givenUp)
        /\ \A s \in Task : s # t => call'[s] = call[s]
    BY <1>0, <1>12, EndsIs DEF Ends, Saved
  <2>2. CASE call[t].slot = 0
    BY <2>1, <2>2 DEF Heeded
  <2>3. CASE call[t].slot # 0
    <3>1. t \in Flusher
      BY <1>0, <2>1, <2>3 DEF Table, InFlight
    <3>q. QED BY <1>7, <2>1, <2>3, <3>1
  <2>q. QED BY <2>2, <2>3
<1>13. ASSUME NEW t \in Task, NEW ok \in BOOLEAN, Erases(t, ok) PROVE Heeded(d)'
  <2>1. /\ pool' = pool /\ call[t].do = "delete"
        /\ givenUp' = givenUp \ {call[t].dev} \/ givenUp' = givenUp \cup {call[t].dev}
        /\ \A s \in Task : s # t => call'[s] = call[s]
    BY <1>0, <1>13, ErasesIs DEF Erases, Deleted
  <2>2. CASE call[t].dev = d
    BY <1>0, <2>1, <2>2 DEF CopyIsPools, Heeded
  <2>3. CASE call[t].dev # d
    <3>1. \A x \in Client : Busy(x, d) => Busy(x, d)'
      BY <1>c, <2>1, <2>3 DEF Busy
    <3>q. QED BY <1>3, <2>1, <2>3, <3>1
  <2>q. QED BY <2>2, <2>3
<1>14. ASSUME NEW t \in Task, GoesOn(t) PROVE Heeded(d)'
  <2>1. UNCHANGED <<pool, givenUp, call>>
    BY <1>14 DEF GoesOn
  <2>q. QED BY <1>3, <2>1 DEF Busy
<1>q. QED BY <1>4, <1>5, <1>6, <1>8, <1>9, <1>10, <1>11, <1>12, <1>13, <1>14, SavedHeeded, OnKinds

-----------------------------------------------------------------------------
\* What the flushers were told that is saved, is.

\* A flusher's call stays, walks on, takes a slot, settles it, or its save is over.
LEMMA FlusherMoves ==
    ASSUME OnStep, NEW f \in Flusher
    PROVE  \/ call'[f] = call[f]
           \/ \E k : Walks(f, k)
           \/ \E i \in Entry : \E b : Takes(f, i, b)
           \/ Settle(f)
           \/ Ends(f, TRUE) \/ Ends(f, FALSE)
<1>c. f \in Task /\ f \notin Client
  BY ZapConstants DEF Task, Flusher
<1>0. Shape /\ f \in Task /\ f \notin Client
  BY <1>c DEF OnStep, Ready
<1>1. ASSUME NEW c \in Client, Edit(c) \/ Remove(c) \/ Mark(c) PROVE call'[f] = call[f]
  BY <1>0, <1>1, OthersStay
<1>2. ASSUME NEW g \in Flusher, g # f, (\E k : Walks(g, k)) \/ (\E i \in Entry : \E b : Takes(g, i, b)) \/ Settle(g)
      PROVE  call'[f] = call[f]
  <2>1. ASSUME NEW k, Walks(g, k) PROVE call'[f] = call[f]
    BY <1>0, <1>2, <2>1, OthersStay
  <2>2. ASSUME NEW i \in Entry, NEW b, Takes(g, i, b) PROVE call'[f] = call[f]
    BY <1>0, <1>2, <2>2, TakesIs
  <2>3. ASSUME Settle(g) PROVE call'[f] = call[f]
    BY <1>0, <1>2, <2>3, SettleIs
  <2>q. QED BY <1>2, <2>1, <2>2, <2>3
<1>3. ASSUME NEW t \in Task, t # f, Ends(t, TRUE) \/ Ends(t, FALSE) PROVE call'[f] = call[f]
  BY <1>0, <1>3, EndsIs
<1>4. ASSUME NEW t \in Task, Erases(t, TRUE) \/ Erases(t, FALSE) PROVE call'[f] = call[f]
  <2>1. t # f
    <3>1. call[t].do = "delete" /\ CopyIsPools
      BY <1>4 DEF Erases, OnStep, Ready
    <3>q. QED BY <1>0, <3>1, ZapConstants DEF CopyIsPools
  <2>q. QED BY <1>0, <1>4, <2>1, ErasesIs
<1>5. ASSUME NEW t \in Task, GoesOn(t) PROVE call'[f] = call[f]
  BY <1>5 DEF GoesOn
<1>q. QED BY <1>1, <1>2, <1>3, <1>4, <1>5, OnKinds

\* A flusher that saves goes on with the version it has, or takes the pool's.
LEMMA SaveGoesOn ==
    ASSUME OnStep, NEW f \in Flusher, call[f].do = "save", call'[f] = call[f], Saves(f)'
    PROVE  (Saves(f) /\ op'.ver = op.ver) \/ op'.ver = pool[call[f].dev]
<1>0. Shape /\ f \in Task /\ Record(f) = pool[call[f].dev]
  BY FlusherSaves DEF OnStep, Ready
<1>1. ASSUME op' = op PROVE Saves(f) /\ op'.ver = op.ver
  BY <1>1 DEF Saves
<1>2. ASSUME op' = NoOp PROVE FALSE
  BY <1>2 DEF Saves, NoOp
<1>3. ASSUME NEW c \in Client, Edit(c) \/ Remove(c) \/ Mark(c) PROVE op' = op
  BY <1>3, OthersStay
<1>4. ASSUME NEW g \in Flusher, (\E k : Walks(g, k)) \/ (\E i \in Entry : \E b : Takes(g, i, b)) \/ Settle(g)
      PROVE  op' = op
  BY <1>4 DEF Walks, Takes, Settle, Rest
<1>5. ASSUME NEW t \in Task, Ends(t, TRUE) \/ Ends(t, FALSE) \/ Erases(t, TRUE) \/ Erases(t, FALSE) PROVE op' = NoOp
  BY <1>5 DEF Ends, Saved, Erases, Deleted
<1>6. ASSUME NEW t \in Task, GoesOn(t) PROVE (Saves(f) /\ op'.ver = op.ver) \/ op'.ver = pool[call[f].dev]
  <2>1. t = f /\ op'.step \in {"more", "row"}
    BY <1>6 DEF GoesOn, Saves
  <2>2. CASE op = NoOp /\ op'.ver = Record(t)
    BY <1>0, <2>1, <2>2
  <2>3. CASE op.step = "more" /\ op'.ver = op.ver
    <3>1. op # NoOp
      BY <2>3 DEF NoOp
    <3>q. QED BY <1>6, <2>1, <2>3, <3>1 DEF GoesOn, Saves
  <2>q. QED BY <1>6, <2>1, <2>2, <2>3 DEF GoesOn
<1>q. QED BY <1>1, <1>2, <1>3, <1>4, <1>5, <1>6, OnKinds

\* A flusher's save that succeeds reaches what it was to.
LEMMA EndsReach ==
    ASSUME OnStep, NEW f \in Flusher, Ends(f, TRUE), NEW d \in Device, d = call[f].dev, NEW v \in Nat, Owable(d, v),
           Saves(f) => op.ver >= v \/ Reached(d, v)
    PROVE  Reached(d, v)'
<1>0. Shape /\ Orderly /\ fails \in Nat /\ f \in Task /\ Record(f) = pool[d]
  BY ReadyIs, FlusherSaves DEF OnStep, Ready, Ends
<1>1. CASE Record(f) = 0
  <2>1. v <= left[d] \/ v = 0
    BY <1>0, <1>1, Numbered DEF Owable
  <2>2. Reached(d, v)
    BY <2>1, Numbered DEF Reached
  <2>q. QED BY <2>2, ReachedKept
<1>2. CASE op.step = "row" /\ op.task = f /\ SaveRow(f) /\ Written
  <2>1. op.dev = d /\ (op.ver >= v \/ Reached(d, v))
    BY <1>0, <1>2, SavesIs DEF Saves
  <2>2. NewVer(op.dev, op.ver)
    <3>1. ~Fails
      BY <1>0, <1>2 DEF Written, Fails
    <3>q. QED BY <1>0, <1>2, <3>1, SaveRowRows
  <2>3. CASE op.ver >= v
    BY <2>1, <2>2, <2>3 DEF NewVer, Reached
  <2>q. QED BY <2>1, <2>3, ReachedKept
<1>q. QED BY <1>1, <1>2 DEF Ends

\* Between two calls only a flusher's wait and an idle task are possible, and both owe nothing new.
LEMMA BackOwes ==
    ASSUME NEW k \in Back, NEW ok
    PROVE  /\ k.do \notin InUse /\ k.do # "take" /\ k.do # "flushedAll"
           /\ k.do = "flushed" => LET b == [k EXCEPT !.ok = ok]
                                  IN  /\ b.do = "flushed" /\ b.ok = ok
                                      /\ \A d, v : (Owes(b, d, v) <=> Owes(k, d, v)) /\ (Took(b, d, v) <=> Took(k, d, v)) /\ ~Walk(b, d, v)
<1>1. k.do \notin InUse /\ k.do # "take" /\ k.do # "flushedAll"
  BY BackKinds DEF InUse
<1>2. ASSUME k.do = "flushed"
      PROVE  LET b == [k EXCEPT !.ok = ok]
             IN  /\ b.do = "flushed" /\ b.ok = ok
                 /\ \A d, v : (Owes(b, d, v) <=> Owes(k, d, v)) /\ (Took(b, d, v) <=> Took(k, d, v)) /\ ~Walk(b, d, v)
  <2> DEFINE b == [k EXCEPT !.ok = ok]
  <2>1. k \in FlushedRec
    BY <1>2 DEF Back, Idle, SlotsRec
  <2>2. b.do = "flushed" /\ b.ok = ok /\ b.dev = k.dev /\ b.owed = k.owed
    BY <2>1 DEF FlushedRec
  <2> HIDE DEF b
  <2>3. \A d, v : (Owes(b, d, v) <=> Owes(k, d, v)) /\ (Took(b, d, v) <=> Took(k, d, v)) /\ ~Walk(b, d, v)
    BY <1>2, <2>2 DEF Owes, Took, Walk
  <2>q. QED BY <2>2, <2>3 DEF b
<1>q. QED BY <1>1, <1>2

\* What a flusher owes was in the pool, and is on flash or on its way there.
Debt(f, d, v) == Owes(call[f], d, v) \/ (call[f].do \in {"save", "settle"} /\ Owes(call[f].back, d, v))
Debts == \A f \in Flusher : \A d \in Device : \A v \in Nat : Debt(f, d, v) => Owable(d, v) /\ Owing(d, v)

\* The call after a save or a settle, and its debts.
LEMMA SettleMoves ==
    ASSUME OnStep, NEW f \in Flusher, Settle(f)
    PROVE  /\ call[f].do = "settle" /\ call'[f].do \notin InUse /\ call'[f].do \notin {"take", "flushedAll"}
           /\ \A d, v : /\ Owes(call'[f], d, v) => Owes(call[f].back, d, v)
                        /\ Took(call'[f], d, v) /\ call'[f].ok => Took(call[f].back, d, v) /\ call[f].ok
                        /\ Walk(call'[f], d, v) => Walk(call[f].back, d, v) /\ call'[f].at = call[f].back.at
<1>1. /\ call[f].do = "settle" /\ call[f].back \in Back
      /\ call'[f] = IF call[f].back.do = "flushed" THEN [call[f].back EXCEPT !.ok = call[f].ok] ELSE call[f].back
  BY SettleIs DEF OnStep, Ready
<1> DEFINE b == call[f].back
           e == [b EXCEPT !.ok = call[f].ok]
<1>2. b.do \notin InUse /\ b.do # "take" /\ b.do # "flushedAll"
  BY <1>1, BackOwes
<1>3. CASE b.do = "flushed"
  <2>1. /\ e.do = "flushed" /\ e.ok = call[f].ok
        /\ \A d, v : (Owes(e, d, v) <=> Owes(b, d, v)) /\ (Took(e, d, v) <=> Took(b, d, v)) /\ ~Walk(e, d, v)
    BY <1>1, <1>3, BackOwes
  <2>2. call'[f] = e
    BY <1>1, <1>3
  <2> HIDE DEF e
  <2>q. QED BY <1>1, <1>2, <2>1, <2>2 DEF InUse
<1>4. CASE b.do # "flushed"
  <2>1. call'[f] = b
    BY <1>1, <1>4
  <2>2. \A d, v : ~Took(b, d, v)
    BY <1>4 DEF Took
  <2>q. QED BY <1>1, <1>2, <2>1, <2>2
<1>q. QED BY <1>3, <1>4

LEMMA EndsMoves ==
    ASSUME OnStep, NEW f \in Flusher, NEW ok \in BOOLEAN, Ends(f, ok)
    PROVE  /\ call[f].do = "save" /\ call[f].dev \in Device
           /\ call'[f].do = "settle" /\ call'[f].ok = ok /\ call'[f].back = call[f].back
<1>1. call[f].do = "save" /\ f \in Task /\ call[f].slot \in Entry /\ call[f].slot # 0 /\ call[f].dev \in Device
  BY FlusherSaves, EntryNat DEF OnStep, Ready, Ends
<1>2. call'[f] = [do |-> "settle", slot |-> call[f].slot, ok |-> ok, back |-> call[f].back]
  BY <1>1, EndsIs DEF OnStep, Ready
<1>q. QED BY <1>1, <1>2

LEMMA TakesMoves ==
    ASSUME OnStep, NEW f \in Flusher, NEW i \in Entry, NEW b, Takes(f, i, b)
    PROVE  /\ call'[f].do = "save" /\ call'[f].dev = dirty[i].dev /\ call'[f].back = b /\ ~Saves(f)'
           /\ call[f].do \notin InUse
<1>1. call'[f] = [do |-> "save", dev |-> dirty[i].dev, copy |-> 0, slot |-> i, back |-> b]
  BY TakesIs DEF OnStep, Ready
<1>2. call[f].do \notin InUse /\ op' = op
  BY DEF Takes, Rest
<1>3. ~Saves(f)
  BY <1>2, SavesIs DEF OnStep, Ready, InUse
<1>q. QED BY <1>1, <1>2, <1>3 DEF Saves

LEMMA WalksMoves ==
    ASSUME OnStep, NEW f \in Flusher, NEW k, Walks(f, k)
    PROVE  call'[f] = k /\ call[f].do \notin InUse /\ k.do \notin InUse /\ UNCHANGED <<dirty, Rest>> /\ Onward(call[f], k)
BY OthersStay DEF Walks, Onward

LEMMA OldDebt ==
    ASSUME OnStep, NEW f \in Flusher, NEW d \in Device, NEW v, Debt(f, d, v)'
    PROVE  Debt(f, d, v) \/ v = Owed(d)
<1>1. CASE call'[f] = call[f]
  BY <1>1 DEF Debt
<1>2. ASSUME NEW k, Walks(f, k) PROVE Debt(f, d, v) \/ v = Owed(d)
  <2>1. Owes(k, d, v)
    BY <1>2, WalksMoves DEF Debt, InUse
  <2>q. QED BY <1>2, <2>1, WalksMoves DEF Debt, Onward
<1>3. ASSUME NEW i \in Entry, NEW b, Takes(f, i, b) PROVE Debt(f, d, v)
  <2>1. Owes(b, d, v)
    BY <1>3, TakesMoves DEF Debt, Owes
  <2>q. QED BY <1>3, <2>1 DEF Debt, Takes
<1>4. CASE Settle(f)
  <2>1. Owes(call'[f], d, v)
    BY <1>4, SettleMoves DEF Debt, InUse
  <2>q. QED BY <1>4, <2>1, SettleMoves DEF Debt
<1>5. ASSUME NEW ok \in BOOLEAN, Ends(f, ok) PROVE Debt(f, d, v)
  <2>1. Owes(call[f].back, d, v)
    BY <1>5, EndsMoves DEF Debt, Owes
  <2>q. QED BY <1>5, <2>1, EndsMoves DEF Debt
<1>q. QED BY <1>1, <1>2, <1>3, <1>4, <1>5, FlusherMoves

LEMMA NextDebts == ASSUME OnStep, Safe, Debts PROVE Debts'
<1> SUFFICES ASSUME NEW f \in Flusher, NEW d \in Device, NEW v \in Nat, Debt(f, d, v)'
             PROVE  Owable(d, v)' /\ Owing(d, v)'
  BY DEF Debts
<1>1. ASSUME Owable(d, v), Owing(d, v) PROVE Owable(d, v)' /\ Owing(d, v)'
  BY <1>1, OwableKept, OwingKept
<1>2. CASE Debt(f, d, v)
  BY <1>1, <1>2 DEF Debts
<1>3. CASE v = Owed(d)
  <2>1. CASE v = 0
    BY <1>1, <2>1, Numbered DEF Owable, Owing, Reached
  <2>2. CASE v # 0
    <3>1. v = pool[d] /\ d \notin givenUp /\ ~(\E c \in Client : Busy(c, d))
      BY <1>3, <2>2 DEF Owed
    <3>2. Heeded(d)
      BY DEF OnStep, Safe
    <3>3. Owing(d, v)
      BY <2>2, <3>1, <3>2 DEF Heeded
    <3>q. QED BY <1>1, <3>1, <3>3, Numbered DEF Owable
  <2>q. QED BY <2>1, <2>2
<1>q. QED BY <1>2, <1>3, OldDebt

\* Where nothing is pending for a device, what is owed for it is on flash.
LEMMA NothingPending ==
    ASSUME Shape, Table, NEW d \in Device, NEW v, \A i \in Entry : dirty[i].dev # d, Owing(d, v)
    PROVE  Reached(d, v)
<1>1. ~Pending(d)
  BY DEF Pending
<1>2. ~Covered(d, v)
  BY FlusherSaves DEF Covered
<1>3. ~Refused(d)
  BY FlusherSaves DEF Refused
<1>q. QED BY <1>1, <1>2, <1>3 DEF Owing

\* When a device's slot is free again, what was owed for the device is on flash.
LEMMA SlotSettled ==
    ASSUME OnStep, NEW i \in Entry, NEW d \in Device, dirty[i].dev = d, dirty'[i].dev # d, NEW v, Owing(d, v)
    PROVE  Reached(d, v)
<1>0. Shape /\ Table /\ d # 0
  BY Numbers DEF OnStep, Ready
<1>1. ASSUME NEW c \in Client, Edit(c) \/ Remove(c) PROVE FALSE
  BY <1>1 DEF Edit, Remove
<1>2. ASSUME NEW c \in Client, Mark(c) PROVE FALSE
  <2>1. CASE MarkSlot(call[c].dev)
    <3> DEFINE e == call[c].dev
    <3>1. e \in Device
      BY <1>0, <1>2, MarkIs
    <3>2. PICK k \in Entry :
              /\ \A j \in Entry : j # k => dirty'[j] = dirty[j]
              /\ dirty'[k].dev = e
              /\ dirty[k].dev = e \/ (dirty[k] = Clean /\ PendingSlots(e) = {})
      BY <1>0, <2>1, <3>1, MarkSlotIs
    <3>q. QED BY <1>0, <3>2 DEF Clean
  <2>q. QED BY <1>0, <1>2, <2>1, MarkIs
<1>3. ASSUME NEW f \in Flusher, NEW k, Walks(f, k) PROVE FALSE
  BY <1>3 DEF Walks
<1>4. ASSUME NEW f \in Flusher, NEW k \in Entry, NEW b, Takes(f, k, b) PROVE FALSE
  BY <1>0, <1>4, TakesIs
<1>5. ASSUME NEW f \in Flusher, Settle(f) PROVE Reached(d, v)
  <2>1. PICK k \in Entry :
              /\ f \in Task /\ call[f].do = "settle" /\ call[f].slot = k
              /\ \A j \in Entry : j # k => dirty'[j] = dirty[j]
              /\ IF call[f].ok /\ ~dirty[k].remarked THEN dirty'[k] = Clean ELSE dirty'[k].dev = dirty[k].dev
    BY <1>0, <1>5, SettleIs
  <2>2. k = i /\ call[f].ok /\ ~dirty[i].remarked /\ dirty[i].flushing
    <3>1. k = i /\ call[f].ok /\ ~dirty[i].remarked
      BY <2>1
    <3>2. InFlight(f, i)
      BY <2>1, <3>1 DEF InFlight
    <3>q. QED BY <1>0, <2>1, <3>1, <3>2 DEF Table
  <2>3. \A j \in Entry : dirty[j].dev = d => j = i
    BY <1>0 DEF Table
  <2>4. \A t \in Flusher : InFlight(t, i) => t = f
    BY <1>0, <2>1, <2>2, FlusherSaves DEF Task
  <2>5. ~Pending(d)
    BY <2>2, <2>3 DEF Pending, Open
  <2>6. ~Covered(d, v)
    <3> SUFFICES ASSUME NEW t \in Flusher, call[t].do = "save", call[t].dev = d PROVE FALSE
      BY DEF Covered
    <3>1. call[t].slot = i
      BY <1>0, <2>3, FlusherSaves
    <3>q. QED BY <2>1, <2>4, <3>1 DEF InFlight
  <2>7. ~Refused(d)
    <3> SUFFICES ASSUME NEW t \in Flusher, call[t].do = "settle", ~call[t].ok, dirty[call[t].slot].dev = d PROVE FALSE
      BY DEF Refused
    <3>1. call[t].slot = i
      BY <1>0, <2>3, FlusherSaves
    <3>q. QED BY <2>2, <2>4, <3>1 DEF InFlight
  <2>q. QED BY <2>5, <2>6, <2>7 DEF Owing
<1>6. ASSUME NEW t \in Task, Ends(t, TRUE) \/ Ends(t, FALSE) \/ Erases(t, TRUE) \/ Erases(t, FALSE) \/ GoesOn(t) PROVE FALSE
  BY <1>6 DEF Ends, Erases, GoesOn
<1>q. QED BY <1>1, <1>2, <1>3, <1>4, <1>5, <1>6, OnKinds

\* flush_device: found, taken, saved, settled.
OneFlush ==
    \A f \in Flusher : \A d \in Device : \A v \in Nat :
       /\ Took(call[f], d, v) /\ call[f].ok => Reached(d, v)
       /\ call[f].do = "take" /\ Owes(call[f], d, v) => Reached(d, v) \/ dirty[call[f].slot].dev = d
       /\ call[f].do = "save" /\ Took(call[f].back, d, v) =>
             call[f].dev = d /\ (Saves(f) => op.ver >= v \/ Reached(d, v))
       /\ call[f].do = "settle" /\ call[f].ok /\ Took(call[f].back, d, v) => Reached(d, v)

LEMMA NextOneFlush == ASSUME OnStep, Debts, OneFlush PROVE OneFlush'
<1>0. Shape /\ Table
  BY DEF OnStep, Ready
<1> SUFFICES ASSUME NEW f \in Flusher, NEW d \in Device, NEW v \in Nat
             PROVE  /\ Took(call'[f], d, v) /\ call'[f].ok => Reached(d, v)'
                    /\ call'[f].do = "take" /\ Owes(call'[f], d, v) => Reached(d, v)' \/ dirty'[call'[f].slot].dev = d
                    /\ call'[f].do = "save" /\ Took(call'[f].back, d, v) =>
                          call'[f].dev = d /\ (Saves(f)' => op'.ver >= v \/ Reached(d, v)')
                    /\ call'[f].do = "settle" /\ call'[f].ok /\ Took(call'[f].back, d, v) => Reached(d, v)'
  BY DEF OneFlush
<1>1. Reached(d, v) /\ Owable(d, v) => Reached(d, v)'
  BY ReachedKept
<1>2. /\ Owes(call[f], d, v) => Owable(d, v) /\ Owing(d, v)
      /\ call[f].do \in {"save", "settle"} /\ Owes(call[f].back, d, v) => Owable(d, v) /\ Owing(d, v)
  BY DEF Debts, Debt
<1>3. \A k : Took(k, d, v) => Owes(k, d, v)
  BY DEF Took, Owes
<1>4. CASE call'[f] = call[f]
  <2>1. Took(call[f], d, v) /\ call[f].ok => Reached(d, v)'
    BY <1>1, <1>2, <1>3 DEF OneFlush
  <2>2. ASSUME call[f].do = "take", Owes(call[f], d, v) PROVE Reached(d, v)' \/ dirty'[call[f].slot].dev = d
    <3>1. CASE Reached(d, v)
      BY <1>1, <1>2, <2>2, <3>1
    <3>2. CASE dirty[call[f].slot].dev = d
      <4>1. call[f].slot \in Entry
        BY <1>0, <2>2, CallTypes DEF Task
      <4>2. ASSUME dirty'[call[f].slot].dev # d PROVE Reached(d, v)'
        BY <1>1, <1>2, <2>2, <3>2, <4>1, <4>2, SlotSettled
      <4>q. QED BY <4>2
    <3>q. QED BY <2>2, <3>1, <3>2 DEF OneFlush
  <2>3. ASSUME call[f].do = "save", Took(call[f].back, d, v), Saves(f)' PROVE op'.ver >= v \/ Reached(d, v)'
    <3>1. Owable(d, v) /\ call[f].dev = d /\ (Saves(f) => op.ver >= v \/ Reached(d, v))
      BY <1>2, <1>3, <2>3 DEF OneFlush
    <3>2. CASE Saves(f) /\ op'.ver = op.ver
      BY <1>1, <3>1, <3>2
    <3>3. CASE op'.ver = pool[d]
      <4>1. CASE v <= pool[d]
        BY <3>3, <4>1, Numbered
      <4>2. CASE v <= left[d]
        BY <1>1, <3>1, <4>2 DEF Reached
      <4>q. QED BY <3>1, <4>1, <4>2 DEF Owable
    <3>q. QED BY <1>4, <2>3, <3>1, <3>2, <3>3, SaveGoesOn
  <2>4. call[f].do = "save" /\ Took(call[f].back, d, v) => call[f].dev = d
    BY DEF OneFlush
  <2>5. call[f].do = "settle" /\ call[f].ok /\ Took(call[f].back, d, v) => Reached(d, v)'
    BY <1>1, <1>2, <1>3 DEF OneFlush
  <2>q. QED BY <1>4, <2>1, <2>2, <2>3, <2>4, <2>5
<1>5. ASSUME NEW k, Walks(f, k)
      PROVE  /\ Took(k, d, v) /\ k.ok => Reached(d, v)'
             /\ k.do = "take" /\ Owes(k, d, v) => dirty'[k.slot].dev = d
             /\ k.do \notin InUse /\ call'[f] = k
  <2>1. call'[f] = k /\ k.do \notin InUse /\ dirty' = dirty /\ Onward(call[f], k)
    BY <1>5, WalksMoves
  <2>2. ASSUME Took(k, d, v), k.ok PROVE Reached(d, v)'
    <3>1. /\ Owes(call[f], d, v)
          /\ PendingSlots(d) = {} \/ (call[f].do = "take" /\ dirty[call[f].slot].dev # d)
      BY <2>1, <2>2 DEF Onward
    <3>2. CASE PendingSlots(d) = {}
      <4>1. \A i \in Entry : dirty[i].dev # d
        BY <3>2 DEF PendingSlots
      <4>q. QED BY <1>0, <1>1, <1>2, <3>1, <4>1, NothingPending
    <3>3. CASE call[f].do = "take" /\ dirty[call[f].slot].dev # d
      BY <1>1, <1>2, <3>1, <3>3 DEF OneFlush
    <3>q. QED BY <3>1, <3>2, <3>3
  <2>3. k.do = "take" /\ Owes(k, d, v) => dirty'[k.slot].dev = d
    BY <2>1 DEF Onward, Owes
  <2>q. QED BY <2>1, <2>2, <2>3
<1>6. ASSUME NEW i \in Entry, NEW b, Takes(f, i, b)
      PROVE  call'[f].do = "save" /\ ~Saves(f)' /\ (Took(call'[f].back, d, v) => call'[f].dev = d)
  BY <1>6, TakesMoves DEF Takes
<1>7. CASE Settle(f)
  <2>1. Took(call'[f], d, v) /\ call'[f].ok => Reached(d, v)'
    BY <1>1, <1>2, <1>3, <1>7, SettleMoves DEF OneFlush
  <2>q. QED BY <1>7, <2>1, SettleMoves DEF InUse
<1>8. CASE Ends(f, TRUE)
  <2>1. ASSUME Took(call[f].back, d, v) PROVE Reached(d, v)'
    <3>1. call[f].do = "save"
      BY <1>8, EndsMoves
    <3>2. Owable(d, v) /\ d = call[f].dev /\ (Saves(f) => op.ver >= v \/ Reached(d, v))
      BY <1>2, <1>3, <2>1, <3>1 DEF OneFlush
    <3>q. QED BY <1>8, <3>2, EndsReach
  <2>2. call'[f].do = "settle" /\ call'[f].back = call[f].back
    BY <1>8, EndsMoves
  <2>q. QED BY <2>1, <2>2 DEF Took
<1>9. CASE Ends(f, FALSE)
  <2>1. call'[f].do = "settle" /\ ~call'[f].ok
    BY <1>9, EndsMoves
  <2>q. QED BY <2>1 DEF Took
<1>10. \A k : Took(k, d, v) => k.do = "flushed"
  BY DEF Took
<1>q. QED BY <1>4, <1>5, <1>6, <1>7, <1>8, <1>9, <1>10, FlusherMoves DEF InUse


\* No slot is taken without a row, unless by a cut or a failed write.

\* The rows that the index knows of, and the devices that have one.  A save that has counted its
\* new row and a delete that has one to take off the count are a slot ahead.
Known(i) == \/ ~index.built
            \/ i < index.count /\ index.dev[i] = row[i].dev
            \/ op.step \in {"shrink", "drop"} /\ i = op.pos
Begun    == op.step = "shrink" \/ (op.step = "row" /\ op.pos >= index.count)
Top      == IF op.step = "shrink" THEN cnt - 1 ELSE cnt
Stored   == {d \in Device : \E i \in Slot : i < Top /\ row[i].dev = d /\ Known(i)}
Spare    == cnt <= Cardinality(Stored) + cuts + fails + (IF Begun THEN 1 ELSE 0)
NotFound == (op.step = "more" \/ (op.step = "row" /\ op.pos >= index.count)) => \A i \in Slot : i < index.count => index.dev[i] # op.dev
Places   == /\ op.step \in {"move", "shrink"} => op.pos < cnt /\ index.built
            /\ op.step = "move" \/ (op.step = "row" /\ op.pos < index.count) => index.dev[op.pos] = op.dev
Ledger   == cuts \in Nat /\ Spare /\ NotFound /\ Places

LEMMA DeviceCounts ==
    ASSUME NEW S \in SUBSET Device, NEW T \in SUBSET Device, NEW x
    PROVE  /\ Cardinality(S) \in Nat /\ Cardinality(T) \in Nat
           /\ S \subseteq T => Cardinality(S) <= Cardinality(T)
           /\ S \subseteq T /\ x \in T /\ x \notin S => Cardinality(S) + 1 <= Cardinality(T)
           /\ S \ {x} \subseteq T => Cardinality(S) <= Cardinality(T) + 1
<1>0. IsFiniteSet(S) /\ IsFiniteSet(T)
  BY ZapConstants, FS_Subset
<1>1. Cardinality(S) \in Nat /\ Cardinality(T) \in Nat
  BY <1>0, FS_CardinalityType
<1>2. S \subseteq T => Cardinality(S) <= Cardinality(T)
  BY <1>0, FS_Subset
<1>3. ASSUME S \subseteq T, x \in T, x \notin S PROVE Cardinality(S) + 1 <= Cardinality(T)
  <2>1. Cardinality(S \cup {x}) = Cardinality(S) + 1
    BY <1>0, <1>3, FS_AddElement
  <2>2. S \cup {x} \subseteq T
    BY <1>3
  <2>3. Cardinality(S \cup {x}) <= Cardinality(T)
    BY <1>0, <2>2, FS_Subset
  <2>q. QED BY <2>1, <2>3
<1>4. ASSUME S \ {x} \subseteq T PROVE Cardinality(S) <= Cardinality(T) + 1
  <2>1. S \subseteq T \cup {x}
    BY <1>4
  <2>2. IsFiniteSet(T \cup {x}) /\ Cardinality(T \cup {x}) = IF x \in T THEN Cardinality(T) ELSE Cardinality(T) + 1
    BY <1>0, FS_AddElement
  <2>3. Cardinality(S) <= Cardinality(T \cup {x})
    BY <2>1, <2>2, FS_Subset
  <2>q. QED BY <1>1, <2>2, <2>3
<1>q. QED BY <1>1, <1>2, <1>3, <1>4

\* With no operation under way, a scan or the index knows every row that the ledger counts.
LEMMA IndexKnows ==
    ASSUME Shape, op = NoOp, NEW i \in Slot, i < cnt, Known(i)
    PROVE  i < Index.count /\ Index.dev[i] = row[i].dev
<1>1. FlashOK /\ op.step = "none"
  BY OpKinds DEF Shape
<1>2. CASE index.built
  BY <1>1, <1>2 DEF Known, Index
<1>3. CASE ~index.built
  <2>1. Scanned(TRUE).count = cnt /\ Scanned(TRUE).dev[i] = row[i].dev
    BY <1>1, ScannedType
  <2>q. QED BY <1>3, <2>1 DEF Index
<1>q. QED BY <1>2, <1>3

\* The devices that a step leaves stored, but for x.
LEMMA StoredKept ==
    ASSUME NEW x, \A i \in Slot : i < Top /\ Known(i) /\ row[i].dev # x => \E j \in Slot : j < Top' /\ Known(j)' /\ row'[j].dev = row[i].dev
    PROVE  Stored \ {x} \subseteq Stored'
BY DEF Stored

\* A step that ends an operation, or needs none.
Paid(n) == fails + cuts + n <= fails' + cuts'

LEMMA SumsUp ==
    \A k, n, m, a, b, c, d \in Nat : \A e \in {0, 1} :
       k <= n + b + a + e /\ n <= m /\ a + b + e <= c + d => k <= m + d + c + 0
OBVIOUS

LEMMA PaidBy ==
    ASSUME fails \in Nat, fails' \in Nat, cuts \in Nat, cuts' = cuts
    PROVE  (fails <= fails' => Paid(0)) /\ (fails + 1 <= fails' => Paid(1))
<1>1. \A a, b, c \in Nat : (a <= c => a + b + 0 <= c + b) /\ (a + 1 <= c => a + b + 1 <= c + b)
  OBVIOUS
<1>2. /\ fails <= fails' => fails + cuts + 0 <= fails' + cuts
      /\ fails + 1 <= fails' => fails + cuts + 1 <= fails' + cuts
  BY <1>1, Zenon
<1>q. QED BY <1>2, Zenon DEF Paid

LEMMA SpareBy ==
    ASSUME fails \in Nat, fails' \in Nat, cuts \in Nat, cuts' \in Nat, cnt \in Nat, cnt' = cnt, Spare, ~Begun',
           Paid(0), Begun => Paid(1), NEW n \in Nat, NEW m \in Nat, n = Cardinality(Stored), m = Cardinality(Stored'), n <= m
    PROVE  Spare'
<1>1. cnt <= m + cuts' + fails' + 0
  <2>1. CASE Begun
    <3>1. cnt <= n + cuts + fails + 1
      BY <2>1 DEF Spare
    <3>2. fails + cuts + 1 <= fails' + cuts'
      BY <2>1 DEF Paid
    <3>q. QED BY <3>1, <3>2, SumsUp
  <2>2. CASE ~Begun
    <3>1. cnt <= n + cuts + fails + 0
      BY <2>2 DEF Spare
    <3>2. fails + cuts + 0 <= fails' + cuts'
      BY DEF Paid
    <3>q. QED BY <3>1, <3>2, SumsUp
  <2>q. QED BY <2>1, <2>2
<1>q. QED BY <1>1 DEF Spare

LEMMA LedgerFree ==
    ASSUME Shape, Shape', Ledger, op' = NoOp, cnt' = cnt, cuts' \in Nat,
           \A i \in Slot : i < Top => row'[i].dev = row[i].dev /\ (Known(i) => Known(i)'),
           Paid(0), Begun => Paid(1)
    PROVE  Ledger'
<1>1. fails \in Nat /\ fails' \in Nat /\ cuts \in Nat /\ cnt \in Nat
  BY Numbers DEF Shape, FlashOK, Ledger
<1>2. op'.step = "none" /\ Top' = cnt /\ ~Begun' /\ (Top = cnt \/ Top = cnt - 1)
  BY DEF NoOp, Top, Begun
<1>3. Stored \subseteq Stored'
  BY <1>1, <1>2, SlotNat DEF Stored
<1>4. Stored \in SUBSET Device /\ Stored' \in SUBSET Device
  BY DEF Stored
<1>5. Cardinality(Stored) <= Cardinality(Stored') /\ Cardinality(Stored) \in Nat /\ Cardinality(Stored') \in Nat
  BY <1>3, <1>4, DeviceCounts
<1>6. Spare'
  BY <1>1, <1>2, <1>5, SpareBy DEF Ledger
<1>q. QED BY <1>2, <1>6 DEF Ledger, NotFound, Places

\* A delete that is over forgets the index.
LEMMA LedgerDeleted ==
    ASSUME Shape, Shape', Ledger, NEW t, NEW ok, Deleted(t, ok), UNCHANGED <<cnt, cuts>>,
           \A i \in Slot : i < Top => row'[i].dev = row[i].dev,
           Paid(0), Begun => Paid(1)
    PROVE  Ledger'
<1>1. FlashOK
  BY DEF Shape
<1>2. ~index'.built /\ op' = NoOp
  BY <1>1, AnyIndex DEF Deleted
<1>3. \A i \in Slot : Known(i)'
  BY <1>2 DEF Known
<1>4. cuts' \in Nat
  BY DEF Ledger
<1>q. QED BY <1>2, <1>3, <1>4, LedgerFree

LEMMA PaidIs ==
    ASSUME Shape, Shape', Ledger
    PROVE  /\ fails \in Nat /\ fails' \in Nat /\ cuts \in Nat /\ cnt \in Nat /\ cnt' \in Nat /\ cnt <= Cap
           /\ cuts' = cuts /\ fails' = fails => Paid(0) /\ cuts' \in Nat
           /\ cuts' = cuts /\ fails' = fails + 1 => Paid(0) /\ Paid(1) /\ cuts' \in Nat
           /\ cuts' = cuts + 1 /\ fails' = fails => Paid(0) /\ Paid(1) /\ cuts' \in Nat
<1>1. fails \in Nat /\ fails' \in Nat /\ cuts \in Nat /\ cnt \in Nat /\ cnt' \in Nat /\ cnt <= Cap
  BY Numbers DEF Shape, FlashOK, Ledger
<1>2. \A a, b \in Nat : /\ a + b + 0 <= a + b /\ a + b + 0 <= (a + 1) + b /\ a + b + 1 <= (a + 1) + b
                        /\ a + b + 0 <= a + (b + 1) /\ a + b + 1 <= a + (b + 1) /\ b + 1 \in Nat
  OBVIOUS
<1>3. ASSUME cuts' = cuts, fails' = fails PROVE Paid(0) /\ cuts' \in Nat
  BY <1>1, <1>2, <1>3, Zenon DEF Paid
<1>4. ASSUME cuts' = cuts, fails' = fails + 1 PROVE Paid(0) /\ Paid(1) /\ cuts' \in Nat
  BY <1>1, <1>2, <1>4, Zenon DEF Paid
<1>5. ASSUME cuts' = cuts + 1, fails' = fails PROVE Paid(0) /\ Paid(1) /\ cuts' \in Nat
  BY <1>1, <1>2, <1>5, Zenon DEF Paid
<1>q. QED BY <1>1, <1>3, <1>4, <1>5

LEMMA LedgerStays == ASSUME Ledger, UNCHANGED <<row, cnt, index, op, cuts, fails>> PROVE Ledger'
BY DEF Ledger, Spare, NotFound, Places, Stored, Known, Begun, Top

\* What is stored when the ledger does not lose.
LEMMA StoredTypes ==
    /\ Stored \in SUBSET Device /\ Stored' \in SUBSET Device
    /\ Cardinality(Stored) \in Nat /\ Cardinality(Stored') \in Nat
<1>1. Stored \in SUBSET Device /\ Stored' \in SUBSET Device
  BY DEF Stored
<1>q. QED BY <1>1, DeviceCounts

\* An operation begins, or the rows are only listed: the index is there.
LEMMA LedgerScan ==
    ASSUME Shape, Shape', Ledger, op = NoOp, index' = Index, UNCHANGED <<row, cnt, cuts, fails>>,
           ~Begun', Top' = cnt, NotFound', Places'
    PROVE  Ledger'
<1>1. Paid(0) /\ cuts' \in Nat /\ fails \in Nat /\ fails' \in Nat /\ cuts \in Nat /\ cnt \in Nat
  BY PaidIs
<1>2. Top = cnt /\ ~Begun
  BY DEF NoOp, Top, Begun
<1>3. Stored \subseteq Stored'
  BY <1>2, IndexKnows DEF Stored, Known
<1>4. Cardinality(Stored) <= Cardinality(Stored')
  BY <1>3, StoredTypes, DeviceCounts
<1>5. Spare'
  BY <1>1, <1>2, <1>4, StoredTypes, SpareBy DEF Ledger
<1>q. QED BY <1>1, <1>5 DEF Ledger

LEMMA LastSeenLedger == ASSUME Shape, Shape', Ledger, NEW f, LastSeen(f) PROVE Ledger'
<1>1. op = NoOp /\ op' = NoOp /\ index' = Index /\ UNCHANGED <<row, cnt, cuts, fails>>
  BY DEF LastSeen, flash, past
<1>2. ~Begun' /\ Top' = cnt /\ NotFound' /\ Places'
  BY <1>1 DEF Begun, Top, NotFound, Places, NoOp
<1>q. QED BY <1>1, <1>2, LedgerScan

LEMMA SaveBeginLedger == ASSUME Shape, Shape', Ledger, NEW t \in Task, SaveBegin(t) PROVE Ledger'
<1> DEFINE d == call[t].dev
           Write(step, i) == op' = [step |-> step, task |-> t, dev |-> d, ver |-> Record(t), pos |-> i]
<1>1. op = NoOp /\ index' = Index /\ UNCHANGED <<row, cnt, cuts, fails>> /\ FlashOK
  BY DEF SaveBegin, MaySave, flash, past, Shape
<1>2. CASE Found(d) # {} /\ Write("row", Min(Found(d)))
  <2>1. op'.step = "row" /\ op'.pos = Min(Found(d)) /\ op'.dev = d
    BY <1>2
  <2>2. Min(Found(d)) \in Found(d)
    BY <1>1, <1>2, FoundIs
  <2>3. op'.pos < Index.count /\ Index.dev[op'.pos] = d
    BY <2>1, <2>2 DEF Found
  <2>4. Index.count \in Nat /\ op'.pos \in Nat
    BY <1>1, <2>1, <2>2, AnyIndex, SlotNat, Numbers DEF IndexRec, Found
  <2>5. ~(op'.pos >= Index.count)
    BY <2>3, <2>4
  <2>6. ~Begun' /\ Top' = cnt /\ NotFound' /\ Places'
    BY <1>1, <2>1, <2>3, <2>5 DEF Begun, Top, NotFound, Places
  <2>q. QED BY <1>1, <2>6, LedgerScan
<1>3. CASE Found(d) = {} /\ Write("more", cnt)
  <2>1. op'.step = "more" /\ op'.dev = d
    BY <1>3
  <2>2. \A i \in Slot : i < Index.count => Index.dev[i] # d
    BY <1>3 DEF Found
  <2>3. ~Begun' /\ Top' = cnt /\ NotFound' /\ Places'
    BY <1>1, <2>1, <2>2 DEF Begun, Top, NotFound, Places
  <2>q. QED BY <1>1, <2>3, LedgerScan
<1>4. CASE Saved(t, FALSE)
  <2>1. op' = NoOp
    BY <1>4 DEF Saved
  <2>2. ~Begun' /\ Top' = cnt /\ NotFound' /\ Places'
    BY <1>1, <2>1 DEF Begun, Top, NotFound, Places, NoOp
  <2>q. QED BY <1>1, <2>2, LedgerScan
<1>q. QED BY <1>2, <1>3, <1>4 DEF SaveBegin

\* A save that is over without a row.
LEMMA UnsavedLedger ==
    ASSUME Shape, Shape', Ledger, NEW t, NEW ok, Saved(t, ok), UNCHANGED <<row, cnt, index, cuts>>, op.step \in {"none", "more", "row"},
           fails' = fails + 1 \/ (fails' = fails /\ ~Begun)
    PROVE  Ledger'
<1>1. op' = NoOp /\ Top = cnt
  BY DEF Saved, Top
<1>2. \A i \in Slot : row'[i].dev = row[i].dev /\ (Known(i) => Known(i)')
  BY <1>1 DEF Known
<1>3. Paid(0) /\ (Begun => Paid(1)) /\ cuts' \in Nat
  BY PaidIs
<1>q. QED BY <1>1, <1>2, <1>3, LedgerFree

LEMMA SaveIdleLedger == ASSUME Shape, Shape', Ledger, NEW t \in Task, SaveGone(t) \/ SaveShut(t) PROVE Ledger'
<1>0. op = NoOp /\ UNCHANGED <<row, cnt, index, cuts>>
  BY DEF SaveGone, SaveShut, MaySave, flash, past
<1>1. op.step = "none" /\ ~Begun
  BY <1>0 DEF NoOp, Begun
<1>2. (Saved(t, TRUE) /\ fails' = fails) \/ (Saved(t, FALSE) /\ fails' = fails + 1)
  BY DEF SaveGone, SaveShut, Fails
<1>q. QED BY <1>0, <1>1, <1>2, UnsavedLedger

LEMMA SaveCountLedger == ASSUME Shape, Shape', Ledger, NEW t \in Task, SaveCount(t) PROVE Ledger'
<1>1. op.step = "more" /\ op \in OpSave /\ index.built /\ op.pos = cnt /\ UNCHANGED <<row, index, cuts>> /\ Top = cnt /\ ~Begun
  BY OpKinds DEF SaveCount, Top, Begun, past
<1>2. CASE cnt' = cnt + 1 /\ op' = [op EXCEPT !.step = "row"] /\ Written
  <2>1. op'.step = "row" /\ op'.pos = cnt /\ op'.dev = op.dev
    BY <1>1, <1>2 DEF OpSave
  <2>2. fails' = fails
    BY <1>2 DEF Written
  <2>3. index.count \in Nat /\ index.count <= cnt /\ cnt \in Nat
    BY <1>1, PaidIs, Numbers DEF Shape, FlashOK, IndexRec
  <2>4. op'.pos >= index'.count /\ ~(op'.pos < index'.count)
    BY <1>1, <2>1, <2>3
  <2>5. Begun' /\ Top' = cnt + 1
    BY <1>2, <2>1, <2>4 DEF Begun, Top
  <2>6. \A i \in Slot : i < cnt => i < cnt + 1
    BY <2>3, SlotNat
  <2>7. Stored \subseteq Stored'
    BY <1>1, <2>1, <2>5, <2>6 DEF Stored, Known
  <2>8. Cardinality(Stored) <= Cardinality(Stored')
    BY <2>7, StoredTypes, DeviceCounts
  <2>9. cnt <= Cardinality(Stored) + cuts + fails + 0
    BY <1>1 DEF Ledger, Spare
  <2>10. \A k, n, m, a, b \in Nat : k <= n + a + b + 0 /\ n <= m => k + 1 <= m + a + b + 1
    OBVIOUS
  <2>11. cnt + 1 <= Cardinality(Stored') + cuts + fails + 1
    BY <2>8, <2>9, <2>10, StoredTypes, PaidIs
  <2>12. Spare'
    BY <1>1, <1>2, <2>2, <2>5, <2>11 DEF Spare
  <2>13. NotFound'
    BY <1>1, <2>1 DEF NotFound, Ledger
  <2>14. Places'
    BY <2>1, <2>4 DEF Places
  <2>15. cuts' \in Nat
    BY <1>1 DEF Ledger
  <2>q. QED BY <2>12, <2>13, <2>14, <2>15 DEF Ledger
<1>3. CASE Fails /\ Saved(t, FALSE) /\ UNCHANGED cnt
  BY <1>1, <1>3, UnsavedLedger DEF Fails
<1>q. QED BY <1>2, <1>3 DEF SaveCount

LEMMA SaveRowLedger == ASSUME Shape, Shape', Ledger, NEW t \in Task, SaveRow(t) PROVE Ledger'
<1>1. op.step = "row" /\ index.built /\ op.dev \in Device /\ op.pos \in Slot /\ op.pos < cnt /\ UNCHANGED <<cnt, cuts>> /\ Top = cnt
  BY OpKinds DEF SaveRow, Top
<1>2. CASE Fails /\ Saved(t, FALSE) /\ UNCHANGED <<row, index>>
  BY <1>1, <1>2, UnsavedLedger DEF Fails
<1>3. ASSUME Written, Saved(t, TRUE),
             row' = [row EXCEPT ![op.pos] = [dev |-> op.dev, ver |-> op.ver]],
             index' = [index EXCEPT !.dev[op.pos] = op.dev, !.count = IF op.pos >= @ THEN op.pos + 1 ELSE @]
      PROVE  Ledger'
  <2>1. /\ row'[op.pos].dev = op.dev /\ \A i \in Slot : i # op.pos => row'[i] = row[i]
        /\ index'.dev[op.pos] = op.dev /\ \A i \in Slot : i # op.pos => index'.dev[i] = index.dev[i]
        /\ index'.count = IF op.pos >= index.count THEN op.pos + 1 ELSE index.count
    BY <1>1, <1>3, RowWritten
  <2>2. op' = NoOp /\ op'.step = "none"
    BY <1>3 DEF Saved, NoOp
  <2>3. index.count \in Nat /\ op.pos \in Nat
    BY <1>1, SlotNat, Numbers DEF Shape, FlashOK, IndexRec
  <2>3a. op.pos < index'.count /\ \A i \in Slot : i < index.count => i < index'.count
    BY <2>1, <2>3, SlotNat
  <2>4. \A i \in Slot : i # op.pos /\ Known(i) => Known(i)' /\ row'[i].dev = row[i].dev
    BY <1>1, <2>1, <2>3a DEF Known
  <2>5. \A i \in Slot : i = op.pos => Known(i)' /\ row'[i].dev = op.dev
    BY <1>1, <2>1, <2>3a DEF Known
  <2>5a. \A d : d = op.dev => d \in Stored'
    BY <1>1, <2>2, <2>5 DEF Stored, Top
  <2>6. Paid(0) /\ fails' = fails /\ cuts' = cuts /\ cuts \in Nat /\ fails \in Nat /\ cnt \in Nat
    BY <1>1, <1>3, PaidIs DEF Written
  <2>7. Top' = cnt /\ ~Begun' /\ NotFound' /\ Places'
    BY <1>1, <2>2 DEF Top, Begun, NotFound, Places
  <2>8. CASE op.pos < index.count
    <3>1. ~Begun
      BY <1>1, <2>3, <2>8 DEF Begun
    <3>2. index.dev[op.pos] = op.dev
      BY <1>1, <2>8 DEF Ledger, Places
    <3>3. Known(op.pos) => row[op.pos].dev = op.dev
      BY <1>1, <3>2 DEF Known
    <3>4. Stored \subseteq Stored'
      BY <1>1, <2>4, <2>5, <2>7, <3>3 DEF Stored
    <3>5. Cardinality(Stored) <= Cardinality(Stored')
      BY <3>4, StoredTypes, DeviceCounts
    <3>6. Spare'
      BY <1>1, <2>6, <2>7, <3>1, <3>5, StoredTypes, SpareBy DEF Ledger
    <3>q. QED BY <2>6, <2>7, <3>6 DEF Ledger
  <2>9. CASE op.pos >= index.count
    <3>1. ~(op.pos < index.count) /\ Begun
      BY <1>1, <2>3, <2>9 DEF Begun
    <3>2. ~Known(op.pos)
      BY <1>1, <3>1 DEF Known
    <3>3. Stored \subseteq Stored'
      BY <1>1, <2>4, <2>7, <3>2 DEF Stored
    <3>4. op.dev \notin Stored
      BY <1>1, <2>9 DEF Stored, Known, Ledger, NotFound
    <3>5. Cardinality(Stored) + 1 <= Cardinality(Stored')
      BY <2>5a, <3>3, <3>4, StoredTypes, DeviceCounts
    <3>6. cnt <= Cardinality(Stored) + cuts + fails + 1
      BY <3>1 DEF Ledger, Spare
    <3>7. \A k, n, m, a, b \in Nat : k <= n + a + b + 1 /\ n + 1 <= m => k <= m + a + b + 0
      OBVIOUS
    <3>8. cnt <= Cardinality(Stored') + cuts + fails + 0
      BY <2>6, <3>5, <3>6, <3>7, StoredTypes
    <3>9. Spare'
      BY <1>1, <2>6, <2>7, <3>8 DEF Spare
    <3>q. QED BY <2>6, <2>7, <3>9 DEF Ledger
  <2>q. QED BY <2>3, <2>8, <2>9
<1>q. QED BY <1>2, <1>3 DEF SaveRow

LEMMA DeleteBeginLedger == ASSUME Shape, Shape', Ledger, NEW t \in Task, DeleteBegin(t) PROVE Ledger'
<1> DEFINE d == call[t].dev
           s == IF Min(Found(d)) = cnt - 1 THEN "shrink" ELSE "move"
<1>1. op = NoOp /\ UNCHANGED <<row, cnt, cuts>> /\ FlashOK
  BY DEF DeleteBegin, flash, past, Shape
<1>2. Top = cnt /\ ~Begun
  BY <1>1 DEF NoOp, Top, Begun
<1>3. CASE Deleted(t, FALSE) /\ (Written \/ Fails)
  <2>1. fails' = fails \/ fails' = fails + 1
    BY <1>3 DEF Written, Fails
  <2>2. Paid(0)
    BY <1>1, <2>1, PaidIs
  <2>q. QED BY <1>1, <1>2, <1>3, <2>2, LedgerDeleted
<1>4. CASE Found(d) # {} /\ Written /\ index' = Index /\ op' = [step |-> s, task |-> t, dev |-> d, pos |-> Min(Found(d))]
  <2>1. op'.step = s /\ op'.pos = Min(Found(d)) /\ op'.dev = d
    BY <1>4
  <2>2. Min(Found(d)) \in Found(d)
    BY <1>1, <1>4, FoundIs
  <2>3. op'.pos \in Slot /\ op'.pos < cnt /\ op'.pos < Index.count /\ Index.dev[op'.pos] = d /\ index'.built
    BY <1>1, <1>4, <2>1, <2>2, FoundIs, IndexType DEF Found, NoOp
  <2>4. fails' = fails
    BY <1>4 DEF Written
  <2>5. Places' /\ NotFound'
    BY <1>1, <1>4, <2>1, <2>3 DEF Places, NotFound
  <2>6. CASE s = "move"
    <3>1. ~Begun' /\ Top' = cnt
      BY <1>1, <2>1, <2>6 DEF Begun, Top
    <3>q. QED BY <1>1, <1>4, <2>4, <2>5, <3>1, LedgerScan
  <2>7. CASE s = "shrink"
    <3>1. Begun' /\ Top' = cnt - 1 /\ op'.pos = cnt - 1
      BY <1>1, <2>1, <2>7 DEF Begun, Top
    <3>2. Paid(0) /\ cuts' \in Nat /\ fails \in Nat /\ cuts \in Nat /\ cnt \in Nat
      BY <1>1, <2>4, PaidIs
    <3> DEFINE x == row[cnt - 1].dev
    <3>3. \A i \in Slot : i < cnt /\ row[i].dev # x => i < cnt - 1
      BY <3>2, SlotNat
    <3>4. \A i \in Slot : i < cnt /\ Known(i) => Known(i)'
      BY <1>1, <1>4, IndexKnows DEF Known
    <3>5. Stored \ {x} \subseteq Stored'
      BY <1>1, <1>2, <3>1, <3>3, <3>4 DEF Stored
    <3>6. Cardinality(Stored) <= Cardinality(Stored') + 1
      BY <3>5, StoredTypes, DeviceCounts
    <3>7. cnt <= Cardinality(Stored) + cuts + fails + 0
      BY <1>2 DEF Ledger, Spare
    <3>8. \A k, n, m, a, b \in Nat : k <= n + a + b + 0 /\ n <= m + 1 => k <= m + a + b + 1
      OBVIOUS
    <3>9. cnt <= Cardinality(Stored') + cuts + fails + 1
      BY <3>2, <3>6, <3>7, <3>8, StoredTypes
    <3>10. Spare'
      BY <1>1, <2>4, <3>1, <3>9 DEF Spare
    <3>q. QED BY <2>5, <3>2, <3>10 DEF Ledger
  <2>q. QED BY <2>6, <2>7
<1>q. QED BY <1>3, <1>4 DEF DeleteBegin

LEMMA DeleteMoveLedger == ASSUME Shape, Shape', Ledger, NEW t \in Task, DeleteMove(t) PROVE Ledger'
<1>1. op.step = "move" /\ op \in OpDelete /\ op.dev \in Device /\ op.pos \in Slot /\ UNCHANGED <<cnt, cuts>> /\ Top = cnt /\ ~Begun
  BY OpKinds DEF DeleteMove, Top, Begun, past
<1>2. index.built /\ index.dev[op.pos] = op.dev /\ op.pos < cnt
  BY <1>1 DEF Ledger, Places
<1>3. CASE Deleted(t, FALSE) /\ (Written \/ Fails) /\ UNCHANGED row
  <2>1. fails' = fails \/ fails' = fails + 1
    BY <1>3 DEF Written, Fails
  <2>2. Paid(0)
    BY <1>1, <2>1, PaidIs
  <2>q. QED BY <1>1, <1>3, <2>2, LedgerDeleted
<1>4. CASE Written /\ row' = [row EXCEPT ![op.pos] = Tail(op.dev)] /\ op' = [op EXCEPT !.step = "shrink"] /\ UNCHANGED index
  <2>1. op'.step = "shrink" /\ op'.pos = op.pos /\ op'.dev = op.dev
    BY <1>1, <1>4 DEF OpDelete
  <2>2. fails' = fails /\ cuts' \in Nat /\ fails \in Nat /\ cuts \in Nat /\ cnt \in Nat
    BY <1>1, <1>4, PaidIs DEF Written
  <2>3. row'[op.pos] = Tail(op.dev) /\ \A i \in Slot : i # op.pos => row'[i] = row[i]
    BY <1>1, <1>4 DEF Shape, FlashOK
  <2>4. Begun' /\ Top' = cnt - 1
    BY <1>1, <2>1 DEF Begun, Top
  <2>5. Places' /\ NotFound'
    BY <1>1, <1>2, <1>4, <2>1 DEF Places, NotFound
  <2>6. \A i \in Slot : i # op.pos /\ Known(i) => Known(i)' /\ row'[i].dev = row[i].dev
    BY <1>1, <1>4, <2>3 DEF Known
  <2>7. \A i \in Slot : i = op.pos => Known(i)' /\ (Known(i) => row[i].dev = op.dev)
    BY <1>1, <1>2, <2>1 DEF Known
  <2>8. row[cnt - 1].dev # op.dev => row'[op.pos].dev = row[cnt - 1].dev
    BY <2>3 DEF Tail
  <2>9. ASSUME NEW i \in Slot, i < Top, Known(i), row[i].dev # op.dev
        PROVE  \E j \in Slot : j < Top' /\ Known(j)' /\ row'[j].dev = row[i].dev
    <3>1. i # op.pos /\ i \in Nat /\ i < cnt /\ op.pos \in Nat
      BY <1>1, <2>7, <2>9, SlotNat
    <3>2. CASE i < cnt - 1
      BY <2>4, <2>6, <2>9, <3>1, <3>2
    <3>3. CASE i = cnt - 1
      <4>1. op.pos < cnt - 1
        BY <1>2, <2>2, <3>1, <3>3
      <4>2. row'[op.pos].dev = row[i].dev
        BY <2>8, <2>9, <3>3
      <4>q. QED BY <1>1, <2>4, <2>7, <4>1, <4>2
    <3>q. QED BY <2>2, <3>1, <3>2, <3>3
  <2>10. Stored \ {op.dev} \subseteq Stored'
    BY <2>9, StoredKept
  <2>11. Cardinality(Stored) <= Cardinality(Stored') + 1
    BY <2>10, StoredTypes, DeviceCounts
  <2>12. cnt <= Cardinality(Stored) + cuts + fails + 0
    BY <1>1 DEF Ledger, Spare
  <2>13. \A k, n, m, a, b \in Nat : k <= n + a + b + 0 /\ n <= m + 1 => k <= m + a + b + 1
    OBVIOUS
  <2>14. cnt <= Cardinality(Stored') + cuts + fails + 1
    BY <2>2, <2>11, <2>12, <2>13, StoredTypes
  <2>15. Spare'
    BY <1>1, <2>2, <2>4, <2>14 DEF Spare
  <2>q. QED BY <2>2, <2>5, <2>15 DEF Ledger
<1>q. QED BY <1>3, <1>4 DEF DeleteMove

LEMMA DeleteShrinkLedger == ASSUME Shape, Shape', Ledger, NEW t \in Task, DeleteShrink(t) PROVE Ledger'
<1>1. op.step = "shrink" /\ op \in OpDelete /\ UNCHANGED <<row, cuts>> /\ Top = cnt - 1 /\ Begun /\ cnt > 0
  BY OpKinds DEF DeleteShrink, Top, Begun
<1>2. CASE Fails /\ Deleted(t, FALSE) /\ UNCHANGED cnt
  <2>1. Paid(0) /\ Paid(1)
    BY <1>1, <1>2, PaidIs DEF Fails
  <2>q. QED BY <1>1, <1>2, <2>1, LedgerDeleted
<1>3. CASE Written /\ cnt' = cnt - 1 /\ op' = [op EXCEPT !.step = "drop"] /\ UNCHANGED index
  <2>1. op'.step = "drop" /\ op'.pos = op.pos
    BY <1>1, <1>3 DEF OpDelete
  <2>2. fails' = fails /\ cuts' \in Nat /\ fails \in Nat /\ cuts \in Nat /\ cnt \in Nat
    BY <1>1, <1>3, PaidIs DEF Written
  <2>3. ~Begun' /\ Top' = cnt - 1 /\ Places' /\ NotFound'
    BY <1>3, <2>1 DEF Begun, Top, Places, NotFound
  <2>4. \A i \in Slot : Known(i) => Known(i)'
    BY <1>1, <1>3, <2>1 DEF Known
  <2>5. Stored \subseteq Stored'
    BY <1>1, <2>3, <2>4 DEF Stored
  <2>6. Cardinality(Stored) <= Cardinality(Stored')
    BY <2>5, StoredTypes, DeviceCounts
  <2>7. cnt <= Cardinality(Stored) + cuts + fails + 1
    BY <1>1 DEF Ledger, Spare
  <2>8. \A k, n, m, a, b \in Nat : k <= n + a + b + 1 /\ n <= m => k - 1 <= m + a + b + 0
    OBVIOUS
  <2>9. cnt - 1 <= Cardinality(Stored') + cuts + fails + 0
    BY <2>2, <2>6, <2>7, <2>8, StoredTypes
  <2>10. Spare'
    BY <1>1, <1>3, <2>2, <2>3, <2>9 DEF Spare
  <2>q. QED BY <2>2, <2>3, <2>10 DEF Ledger
<1>q. QED BY <1>2, <1>3 DEF DeleteShrink

LEMMA DeleteDropLedger == ASSUME Shape, Shape', Ledger, NEW t \in Task, DeleteDrop(t) PROVE Ledger'
<1>1. op.step = "drop" /\ op \in OpDelete /\ cnt \in Slot /\ UNCHANGED <<cnt, cuts>> /\ Top = cnt /\ ~Begun
  BY InDeleteKinds, OpKinds DEF DeleteDrop, Top, Begun
<1>2. \A i \in Slot : i < cnt => row'[i] = row[i]
  <2>1. \A i \in Slot : i < cnt => i # cnt
    BY <1>1, SlotNat
  <2>2. row' = [row EXCEPT ![cnt] = Hole] \/ row' = row
    BY DEF DeleteDrop
  <2>3. row \in [Slot -> RowRec]
    BY DEF Shape, FlashOK
  <2>q. QED BY <2>1, <2>2, <2>3
<1>3. fails' = fails \/ fails' = fails + 1
  BY DEF DeleteDrop, Written, Fails
<1>4. Paid(0)
  BY <1>1, <1>3, PaidIs
<1>5. Deleted(t, TRUE) \/ Deleted(t, FALSE)
  BY DEF DeleteDrop
<1>q. QED BY <1>1, <1>2, <1>4, <1>5, LedgerDeleted

LEMMA CutLedger == ASSUME Shape, Shape', Ledger, Cut PROVE Ledger'
<1>1. op' = NoOp /\ cnt' = cnt /\ row' = row /\ cuts' = cuts + 1 /\ fails' = fails /\ index' = ColdIndex
  BY DEF Cut, flash
<1>2. Paid(0) /\ Paid(1) /\ cuts' \in Nat
  BY <1>1, PaidIs
<1>3. \A i \in Slot : Known(i)'
  BY <1>1, CleanType DEF Known
<1>q. QED BY <1>1, <1>2, <1>3, LedgerFree

LEMMA BootLedger == ASSUME Shape, Shape', Ledger, Repair \/ RepairErase \/ Load PROVE Ledger'
<1>1. op = NoOp /\ op' = NoOp /\ ~Begun /\ ~Begun' /\ Top = cnt /\ Top' = cnt' /\ cuts' = cuts /\ NotFound' /\ Places'
  <2>1. op = NoOp /\ op' = NoOp /\ cuts' = cuts
    BY DEF Shape, UpOK, Repair, RepairErase, Load, past
  <2>q. QED BY <2>1 DEF NoOp, Begun, Top, NotFound, Places
<1>2. fails' = fails \/ fails' = fails + 1
  BY DEF Repair, RepairErase, Load, Written, Fails
<1>3. Paid(0) /\ cuts' \in Nat /\ fails \in Nat /\ fails' \in Nat /\ cuts \in Nat /\ cnt \in Nat
  BY <1>1, <1>2, PaidIs
<1>4. CASE Load
  <2>1. UNCHANGED <<row, cnt, index, op, cuts, fails>>
    BY <1>4 DEF Load, flash, past
  <2>q. QED BY <2>1, LedgerStays
<1>5. CASE RepairErase
  <2>1. cnt' = cnt /\ index' = index /\ (row' = row \/ row' = [row EXCEPT ![cnt] = Hole]) /\ row \in [Slot -> RowRec]
    BY <1>5 DEF RepairErase, Shape, FlashOK
  <2>2. \A i \in Slot : i < cnt => row'[i] = row[i]
    <3>1. \A i \in Slot : i < cnt => i # cnt
      BY <1>3, SlotNat
    <3>q. QED BY <2>1, <3>1
  <2>3. \A i \in Slot : i < Top => row'[i].dev = row[i].dev /\ (Known(i) => Known(i)')
    BY <1>1, <2>1, <2>2 DEF Known, NoOp
  <2>q. QED BY <1>1, <1>3, <2>1, <2>3, LedgerFree
<1>6. CASE Repair
  <2>1. row' = row
    BY <1>6 DEF Repair
  <2>2. CASE cnt' = cnt /\ index' = index
    <3>1. \A i \in Slot : i < Top => row'[i].dev = row[i].dev /\ (Known(i) => Known(i)')
      BY <1>1, <2>1, <2>2 DEF Known
    <3>q. QED BY <1>1, <1>3, <2>2, <3>1, LedgerFree
  <2>3. ASSUME index' = Scanned(FALSE), cnt' = cnt \/ (CutShort(row[cnt - 1].dev) /\ cnt' = cnt - 1) PROVE Ledger'
    <3>1. ~index'.built
      BY <2>3, ScannedType DEF Shape
    <3>2. \A i \in Slot : Known(i)'
      BY <3>1 DEF Known
    <3>3. CASE cnt' = cnt
      BY <1>1, <1>3, <2>1, <3>2, <3>3, LedgerFree
    <3>4. CASE CutShort(row[cnt - 1].dev) /\ cnt' = cnt - 1
      <4>1. \A i \in Slot : i < cnt => i < cnt - 1 \/ i = cnt - 1
        BY <1>3, SlotNat
      <4>2. \A d \in Stored : d \in Stored'
        <5> SUFFICES ASSUME NEW d \in Stored PROVE d \in Stored'
          OBVIOUS
        <5>1. PICK i \in Slot : i < cnt /\ row[i].dev = d
          BY <1>1 DEF Stored
        <5>2. \E j \in Slot : j < cnt - 1 /\ row[j].dev = d
          BY <3>4, <4>1, <5>1 DEF CutShort
        <5>q. QED BY <1>1, <2>1, <3>2, <3>4, <5>2 DEF Stored
      <4>3. Cardinality(Stored) <= Cardinality(Stored')
        BY <4>2, StoredTypes, DeviceCounts
      <4>4. cnt <= Cardinality(Stored) + cuts + fails + 0
        BY <1>1 DEF Ledger, Spare
      <4>5. fails + cuts + 0 <= fails' + cuts'
        BY <1>3 DEF Paid
      <4>6. cnt <= Cardinality(Stored') + cuts' + fails' + 0
        BY <1>3, <4>3, <4>4, <4>5, StoredTypes, SumsUp
      <4>7. cnt - 1 <= Cardinality(Stored') + cuts' + fails' + 0
        <5>1. \A k, n, a, b \in Nat : k <= n + a + b + 0 => k - 1 <= n + a + b + 0
          OBVIOUS
        <5>q. QED BY <1>3, <4>6, <5>1, StoredTypes
      <4>8. Spare'
        BY <1>1, <3>4, <4>7 DEF Spare
      <4>q. QED BY <1>1, <1>3, <4>8 DEF Ledger
    <3>q. QED BY <2>3, <3>3, <3>4
  <2>q. QED BY <1>6, <2>2, <2>3 DEF Repair
<1>q. QED BY <1>4, <1>5, <1>6

LEMMA NextLedger == ASSUME Shape, Shape', Ledger, Next PROVE Ledger'
<1>1. CASE Cut
  BY <1>1, CutLedger
<1>2. CASE Boot
  BY <1>2, BootLedger DEF Boot
<1>3. ASSUME NEW c \in Client, Edit(c) \/ Remove(c) \/ Mark(c) PROVE Ledger'
  <2>1. UNCHANGED <<row, cnt, index, op, cuts, fails>>
    BY <1>3 DEF Edit, Remove, Mark, flash, past
  <2>q. QED BY <2>1, LedgerStays
<1>4. CASE TableStep
  <2>1. UNCHANGED <<row, cnt, index, op, cuts, fails>>
    BY <1>4, TableStepQuiet DEF Quiet, flash, past
  <2>q. QED BY <2>1, LedgerStays
<1>5. ASSUME NEW c \in Client, Delete(c) PROVE Ledger'
  BY <1>5, DeleteBeginLedger, DeleteMoveLedger, DeleteShrinkLedger, DeleteDropLedger DEF Delete, Task
<1>6. ASSUME NEW t \in Task, Save(t) PROVE Ledger'
  BY <1>6, SaveIdleLedger, SaveBeginLedger, SaveCountLedger, SaveRowLedger DEF Save
<1>7. ASSUME NEW f \in Flusher, LastSeen(f) PROVE Ledger'
  BY <1>7, LastSeenLedger
<1>q. QED BY <1>1, <1>2, <1>3, <1>4, <1>5, <1>6, <1>7 DEF Next, TableStep

LEMMA InitLedger == ASSUME Init PROVE Ledger
<1>1. cnt = 0 /\ cuts = 0 /\ fails = 0 /\ op.step = "none" /\ ~Begun
  BY DEF Init, NoOp, Begun
<1>2. 0 <= Cardinality(Stored) + 0 + 0 + 0
  <2>1. \A n \in Nat : 0 <= n + 0 + 0 + 0
    OBVIOUS
  <2>q. QED BY <2>1, StoredTypes
<1>q. QED BY <1>1, <1>2 DEF Ledger, Spare, NotFound, Places

\* The slots below the count are the holes and the rows, and there is a row for each stored device.
LEMMA LedgerMeans == ASSUME Shape, Ledger PROVE SlotsNotLeaked
<1> SUFFICES ASSUME op = NoOp PROVE Cardinality(Holes) <= cuts + fails
  BY DEF SlotsNotLeaked
<1> DEFINE Rows == {i \in Slot : i < cnt /\ row[i] # Hole}
<1>1. op.step = "none" /\ ~Begun /\ Top = cnt
  BY DEF NoOp, Begun, Top
<1>2. cnt \in Nat /\ cnt <= Cap /\ cuts \in Nat /\ fails \in Nat
  BY PaidIs, Numbers DEF Shape, FlashOK, Ledger
<1>3. Holes \cup Rows = 0..(cnt - 1) /\ Holes \cap Rows = {}
  BY <1>2, Numbers DEF Holes, Slot
<1>4. IsFiniteSet(0..(cnt - 1)) /\ Cardinality(0..(cnt - 1)) = cnt
  <2>1. IsFiniteSet(0..(cnt - 1)) /\ Cardinality(0..(cnt - 1)) = IF 0 > cnt - 1 THEN 0 ELSE (cnt - 1) - 0 + 1
    BY <1>2, FS_Interval
  <2>q. QED BY <1>2, <2>1
<1>5. IsFiniteSet(Holes) /\ IsFiniteSet(Rows)
  BY <1>3, <1>4, FS_Subset
<1>6. Cardinality(Holes) \in Nat /\ Cardinality(Rows) \in Nat /\ Cardinality(Holes) + Cardinality(Rows) = cnt
  <2>1. Cardinality(Holes) \in Nat /\ Cardinality(Rows) \in Nat
    BY <1>5, FS_CardinalityType
  <2>2. Cardinality(Holes \cup Rows) = Cardinality(Holes) + Cardinality(Rows) - Cardinality(Holes \cap Rows)
    BY <1>5, FS_Union
  <2>3. Cardinality({}) = 0
    BY FS_EmptySet
  <2>4. Cardinality(Holes \cup Rows) = cnt /\ Cardinality(Holes \cap Rows) = 0
    BY <1>3, <1>4, <2>3, Zenon
  <2>5. \A h, r, n \in Nat : n = h + r - 0 => h + r = n
    OBVIOUS
  <2> HIDE DEF Rows
  <2>6. cnt = Cardinality(Holes) + Cardinality(Rows) - 0
    BY <2>2, <2>4, Zenon
  <2>q. QED BY <1>2, <2>1, <2>5, <2>6
<1>7. Cardinality(Stored) <= Cardinality(Rows)
  <2> DEFINE Devs == {row[i].dev : i \in Rows}
             g == [i \in Rows |-> row[i].dev]
  <2>1. g \in [Rows -> Devs] /\ \A d \in Devs : \E i \in Rows : g[i] = d
    OBVIOUS
  <2>2. g \in Surjection(Rows, Devs)
    BY <2>1 DEF Surjection
  <2>3. IsFiniteSet(Devs) /\ Cardinality(Devs) <= Cardinality(Rows)
    BY <1>5, <2>2, FS_Surjection
  <2>4. Stored \subseteq Devs
    BY <1>1, Numbers DEF Stored, Hole
  <2>5. Cardinality(Stored) <= Cardinality(Devs) /\ Cardinality(Devs) \in Nat
    BY <2>3, <2>4, FS_Subset, FS_CardinalityType
  <2>q. QED BY <1>6, <2>3, <2>5, StoredTypes
<1>8. cnt <= Cardinality(Stored) + cuts + fails + 0
  BY <1>1 DEF Ledger, Spare
<1>9. \A h, r, s, a, b \in Nat : h + r <= s + a + b + 0 /\ s <= r => h <= a + b
  OBVIOUS
<1>q. QED BY <1>2, <1>6, <1>7, <1>8, <1>9, StoredTypes

\* A deleted device is nowhere: not in the pool, not on flash, and no save writes it.
Gone ==
    /\ gone \subseteq Device
    /\ \A d \in gone : pool[d] = 0 /\ VerIn(row, cnt, d) = 0 /\ ~(op.step \in {"more", "row"} /\ op.dev = d)

LEMMA GoneVers == ASSUME Ready, Next, Gone, NEW d \in gone PROVE VerIn(row', cnt', d) = 0
<1>1. VerIn(row, cnt, d) = 0 /\ d \in Device /\ ~(op.step \in {"more", "row"} /\ op.dev = d)
  BY DEF Gone
<1>2. \/ SameVers
      \/ \E t \in Task : SaveRow(t) /\ NewVer(op.dev, op.ver)
      \/ NewVer(op.dev, 0)
  BY NextRows DEF Ready, Tidy
<1>3. CASE SameVers
  BY <1>1, <1>3 DEF SameVers
<1>4. ASSUME NEW t \in Task, SaveRow(t), NewVer(op.dev, op.ver) PROVE VerIn(row', cnt', d) = 0
  <2>1. op.dev # d
    BY <1>1, <1>4 DEF SaveRow
  <2>q. QED BY <1>1, <1>4, <2>1 DEF NewVer
<1>5. CASE NewVer(op.dev, 0)
  BY <1>1, <1>5 DEF NewVer
<1>q. QED BY <1>2, <1>3, <1>4, <1>5

\* Nothing that a task saves is gone.
LEMMA GoneRecord ==
    ASSUME Shape, CopyIsPools, Gone, NEW t \in Task, call[t].do = "save", Record(t) # 0
    PROVE  call[t].dev \notin gone
<1>1. Record(t) = pool[call[t].dev]
  BY DEF Record, CopyIsPools
<1>q. QED BY <1>1 DEF Gone

LEMMA NextGone == ASSUME Ready, Next, Gone PROVE Gone'
<1> USE DEF Ready
<1>v. \A d \in gone : VerIn(row', cnt', d) = 0 /\ d \in Device
  BY GoneVers DEF Gone
<1>n. op' = NoOp => op'.step = "none"
  BY DEF NoOp
<1>1. CASE Cut
  <2>1. /\ gone' = gone \cup {d \in Device : Deleting(d) /\ Durable(d) = 0}
        /\ pool' = [d \in Device |-> 0] /\ op' = NoOp /\ row' = row /\ cnt' = cnt
    BY <1>1 DEF Cut, flash
  <2>2. \A d \in Device : Durable(d) = 0 => VerIn(row', cnt', d) = 0
    BY <2>1, Views
  <2>q. QED BY <1>v, <1>n, <2>1, <2>2 DEF Gone
<1>2. CASE (Repair \/ RepairErase \/ Load) /\ UNCHANGED <<call, dirty, op, edits, left, gone, givenUp>>
  <2>1. \A d \in gone : pool'[d] = 0
    <3>1. CASE Repair \/ RepairErase
      BY <3>1 DEF Repair, RepairErase, Gone
    <3>2. CASE Load
      <4>1. \A d \in gone : pool'[d] = Durable(d)
        BY <1>v, <3>2 DEF Load
      <4>q. QED BY <4>1, Views DEF Gone
    <3>q. QED BY <1>2, <3>1, <3>2
  <2>q. QED BY <1>2, <1>v, <2>1 DEF Gone
<1>3. ASSUME NEW c \in Client, Edit(c) PROVE Gone'
  <2>1. op' = op /\ UNCHANGED <<row, cnt>>
    BY <1>3, EditMoves
  <2>2. PICK d \in Device : pool'[d] = edits' /\ (\A e \in Device : e # d => pool'[e] = pool[e]) /\ gone' = gone \ {d}
    BY <1>3, EditMoves
  <2>q. QED BY <1>v, <2>1, <2>2 DEF Gone
<1>4. ASSUME NEW c \in Client, Remove(c) PROVE Gone'
  <2>1. op' = op /\ gone' = gone /\ row' = row /\ cnt' = cnt /\ \E d \in Device : pool' = [pool EXCEPT ![d] = 0]
    BY <1>4 DEF Remove, flash
  <2>2. \A e \in Device : pool[e] = 0 => pool'[e] = 0
    BY <2>1 DEF Shape, PoolOK
  <2>q. QED BY <1>v, <2>1, <2>2 DEF Gone
<1>5. ASSUME UNCHANGED Rest PROVE Gone'
  BY <1>5, <1>v DEF Gone, Rest
<1>6. ASSUME NEW t \in Task, NEW ok \in BOOLEAN, Ends(t, ok) PROVE Gone'
  BY <1>6, <1>v, <1>n DEF Gone, Ends, Saved
<1>7. ASSUME NEW t \in Task, NEW ok \in BOOLEAN, Erases(t, ok) PROVE Gone'
  <2>1. op' = NoOp /\ pool' = pool
    BY <1>7 DEF Erases, Deleted
  <2>2. CASE ok
    <3>1. DeleteDrop(t) /\ call[t].do = "delete" /\ call[t].dev \in Device /\ gone' = gone \cup {call[t].dev}
      BY <1>7, <2>2, ErasesIs DEF Erases, Deleted
    <3>2. op.dev = call[t].dev
      BY <3>1, InDeleteKinds DEF DeleteDrop
    <3>3. NoRow(op.dev, cnt) /\ SameVers
      BY <3>1, DeleteDropRows, ReadyIs
    <3>4. VerIn(row, cnt, op.dev) = 0
      <4>1. RowsIn(row, cnt, op.dev) = {}
        BY <3>3 DEF RowsIn, NoRow
      <4>q. QED BY <4>1 DEF VerIn
    <3>5. \A d \in Device : d = call[t].dev => VerIn(row', cnt', d) = 0
      BY <3>2, <3>3, <3>4 DEF SameVers
    <3>6. \A d \in Device : d = call[t].dev => pool[d] = 0
      BY <3>1 DEF CopyIsPools
    <3>q. QED BY <1>v, <1>n, <2>1, <3>1, <3>5, <3>6 DEF Gone
  <2>3. CASE ~ok
    <3>1. gone' = gone
      BY <1>7, <2>3 DEF Erases, Deleted
    <3>q. QED BY <1>v, <1>n, <2>1, <3>1 DEF Gone
  <2>q. QED BY <2>2, <2>3
<1>8. ASSUME NEW t \in Task, GoesOn(t) PROVE Gone'
  <2>1. gone' = gone /\ pool' = pool
    BY <1>8 DEF GoesOn
  <2>2. ASSUME op'.step \in {"more", "row"} PROVE op'.dev \notin gone
    <3>1. call[t].do = "save" /\ op'.dev = call[t].dev /\ ((op = NoOp /\ Record(t) # 0) \/ op.step = "more")
      BY <1>8, <2>2 DEF GoesOn
    <3>2. CASE op = NoOp /\ Record(t) # 0
      BY <3>1, <3>2, GoneRecord
    <3>3. CASE op.step = "more"
      <4>1. op # NoOp /\ op.dev = call[op.task].dev
        BY <3>3, OpKinds
      <4>2. op.task = t
        BY <1>8, <4>1 DEF GoesOn
      <4>q. QED BY <3>1, <3>3, <4>1, <4>2 DEF Gone
    <3>q. QED BY <3>1, <3>2, <3>3
  <2>q. QED BY <1>v, <2>1, <2>2 DEF Gone
<1>9. ASSUME NEW c \in Client, Mark(c) PROVE Gone'
  BY <1>5, <1>9, MarkIs
<1>10. ASSUME NEW f \in Flusher, (\E k : Walks(f, k)) \/ (\E i \in Entry : \E b : Takes(f, i, b)) PROVE Gone'
  <2>1. UNCHANGED Rest
    BY <1>10 DEF Walks, Takes
  <2>q. QED BY <1>5, <2>1
<1>q. QED BY <1>1, <1>2, <1>3, <1>4, <1>5, <1>6, <1>7, <1>8, <1>9, <1>10, StepKinds

LEMMA InitGone == ASSUME Init PROVE Gone
BY DEF Init, Gone

LEMMA GoneMeans == ASSUME ~leftover => Gone PROVE DeletedStaysGone
BY DEF Gone, DeletedStaysGone

\* What the invariants say of the property.
LEMMA TypeMeans == ASSUME Shape, Bounded, Table PROVE TypeOK
<1>1. edits \in Nat
  BY Numbers DEF Shape, PoolOK
<1>2. \A i \in Slot : row[i] = Hole \/ (row[i].dev \in Device /\ row[i].ver \in 1..edits)
  <2>1. \A i \in Slot : row[i].dev \in Device \cup {0} /\ row[i].ver \in Nat /\ (row[i].dev = 0 => row[i] = Hole)
    BY DEF Shape, FlashOK, RowRec
  <2>q. QED BY <1>1, <2>1 DEF Bounded
<1>3. /\ cnt \in 0..Cap /\ index.built \in BOOLEAN /\ index.count \in 0..Cap
      /\ \A i \in Slot : index.dev[i] \in Device \cup {0}
  BY DEF Shape, FlashOK, IndexRec
<1>4. \A d \in Device : pool[d] \in 0..edits
  BY <1>1 DEF Shape, PoolOK, Bounded
<1>5. \A i \in Entry : dirty[i].dev \in Device \cup {0} /\ (dirty[i].remarked => dirty[i].flushing)
  BY DEF Shape, PoolOK, DirtyRec, Table
<1>6. ASSUME NEW i \in Entry, dirty[i].flushing PROVE \E f \in Flusher : call[f].do \in {"save", "settle"} /\ call[f].slot = i
  <2>1. PICK t \in Task : InFlight(t, i)
    BY <1>6 DEF Table
  <2>2. t \in Flusher
    BY <2>1 DEF Table
  <2>q. QED BY <2>1, <2>2 DEF InFlight
<1>7. op # NoOp => op.pos \in Slot /\ call[op.task].do \in {"save", "delete"}
  <2>1. CASE op \in OpSave /\ call[op.task] \in SaveRec
    <3>1. op.pos \in Slot
      BY <2>1 DEF OpSave
    <3>2. call[op.task].do = "save"
      BY <2>1 DEF SaveRec
    <3>q. QED BY <3>1, <3>2
  <2>2. CASE op \in OpDelete /\ call[op.task] \in DeleteRec
    <3>1. op.pos \in Slot
      BY <2>2 DEF OpDelete
    <3>2. call[op.task].do = "delete"
      BY <2>2 DEF DeleteRec
    <3>q. QED BY <3>1, <3>2
  <2>q. QED BY <2>1, <2>2 DEF Shape, OpOK
<1>q. QED BY <1>2, <1>3, <1>4, <1>5, <1>6, <1>7 DEF TypeOK

LEMMA SettledMeans ==
    ASSUME Shape, Table, Lefts, ~leftover => FlashIsBehind /\ Safe
    PROVE  SettledMeansSaved
<1> SUFFICES ASSUME up = "on", ~leftover, NEW d \in Device, pool[d] # 0, d \notin givenUp, PendingSlots(d) = {},
                    ~ \E t \in Task : Busy(t, d)
             PROVE  Durable(d) = pool[d]
  BY DEF SettledMeansSaved
<1>1. PICK v \in Nat : v = pool[d]
  BY DEF Shape, PoolOK
<1>2. \A i \in Entry : dirty[i].dev # d
  BY DEF PendingSlots
<1>3. Owing(d, pool[d])
  BY DEF Safe, Heeded, Task
<1>4. Reached(d, v)
  BY <1>1, <1>2, <1>3, NothingPending
<1>5. ~(v <= left[d])
  <2>1. left[d] \in Nat /\ left[d] < v
    BY <1>1 DEF Lefts
  <2>q. QED BY <1>1, <2>1
<1>6. ~Leaving(call, d)
  BY LeavingIs DEF Busy
<1>7. VerIn(row, cnt, d) <= v /\ VerIn(row, cnt, d) \in Nat
  BY <1>1, <1>6, VerNat DEF FlashIsBehind, LetGo
<1>8. VerIn(row, cnt, d) = v
  BY <1>1, <1>4, <1>5, <1>7 DEF Reached
<1>q. QED BY <1>1, <1>8, Views

LEMMA FlushDeviceMeans ==
    ASSUME Shape, ~leftover => OneFlush
    PROVE  FlushDeviceDurable
<1> SUFFICES ASSUME NEW f \in Flusher, call[f].do = "flushed", call[f].ok, ~leftover
             PROVE  Durable(call[f].dev) >= call[f].owed \/ call[f].owed <= left[call[f].dev]
  BY DEF FlushDeviceDurable
<1>1. f \in Task
  BY DEF Task
<1>2. call[f] \in FlushedRec
  BY <1>1, CallTypes
<1>3. call[f].dev \in Device /\ call[f].owed \in Nat
  BY <1>2 DEF FlushedRec
<1>4. Took(call[f], call[f].dev, call[f].owed)
  BY DEF Took
<1>5. Reached(call[f].dev, call[f].owed)
  BY <1>3, <1>4 DEF OneFlush
<1>q. QED BY <1>5, Views DEF Reached

\* flush_now: when no write failed and no slot is without its row, the second pass finds what
\* the first one left.

Solid == \A i \in Slot : i < cnt /\ ~(op.step = "row" /\ i = op.pos) => row[i] # Hole
Clear == fails = 0 /\ Solid
Secured(d, v, at) == Reached(d, v) \/ Covered(d, v) \/ \E i \in Entry : i >= at /\ dirty[i].dev = d /\ ~dirty[i].flushing
TwoPasses ==
    Clear => \A f \in Flusher : \A d \in Device : \A v \in Nat :
       /\ Walk(call[f], d, v) => Secured(d, v, call[f].at)
       /\ call[f].do \in {"save", "settle"} /\ Walk(call[f].back, d, v) => Secured(d, v, call[f].back.at)
       /\ call[f].do = "flushedAll" /\ call[f].ok /\ Owes(call[f], d, v) => Reached(d, v)

\* A slot without a row stays one, as far as the steps before are concerned.
LEMMA SolidBefore == ASSUME OnStep, fails' = 0, Solid' PROVE Solid
<1>1. Orderly /\ ~Fails
  BY ReadyIs DEF OnStep
<1>2. Shape /\ FlashOK /\ OneRow /\ Sound /\ LastCopied
  BY <1>1 DEF Orderly, Shape, Sound, RowsFaithful
<1>3. /\ op' = NoOp => op'.step # "row"
      /\ op = NoOp => op.step # "row"
  BY DEF NoOp
<1>4. CASE UNCHANGED <<row, cnt, op>>
  BY <1>4 DEF Solid
<1>5. CASE UNCHANGED <<row, cnt>> /\ op.step # "row" /\ op'.step # "row"
  BY <1>5 DEF Solid
<1>6. ASSUME NEW t \in Task, SaveBegin(t) PROVE Solid
  <2> DEFINE d == call[t].dev
             Write(step, i) == op' = [step |-> step, task |-> t, dev |-> d, ver |-> Record(t), pos |-> i]
  <2>1. op = NoOp /\ UNCHANGED <<row, cnt>> /\ d \in Device
    BY <1>2, <1>6, CallTypes DEF SaveBegin, MaySave, flash
  <2>2. CASE Found(d) # {} /\ Write("row", Min(Found(d)))
    <3>1. op'.step = "row" /\ op'.pos = Min(Found(d))
      BY <2>2
    <3>2. Min(Found(d)) \in Slot /\ Min(Found(d)) < cnt /\ Index.dev[Min(Found(d))] = d
      BY <1>2, <2>1, <2>2, FoundSlot
    <3>3. row[Min(Found(d))].dev = d
      <4>1. CASE index.built
        <5>1. Agrees(Min(Found(d)))
          BY <1>2, <2>1, <3>2, <4>1 DEF OneRow, AtRest, IndexTrue, Knows
        <5>q. QED BY <3>2, <4>1, <5>1 DEF Index, Agrees
      <4>2. CASE ~index.built
        BY <1>2, <3>2, <4>2, ScannedType DEF Index
      <4>q. QED BY <4>1, <4>2
    <3>4. row[Min(Found(d))] # Hole
      BY <2>1, <3>3, Numbers DEF Hole
    <3>5. \A i \in Slot : i < cnt /\ i # Min(Found(d)) => row[i] # Hole
      BY <2>1, <3>1 DEF Solid
    <3>q. QED BY <3>4, <3>5 DEF Solid
  <2>3. CASE Write("more", cnt)
    <3>1. op'.step = "more"
      BY <2>3
    <3>q. QED BY <1>3, <1>5, <2>1, <3>1
  <2>4. CASE Saved(t, FALSE)
    BY <1>3, <1>5, <2>1, <2>4 DEF Saved
  <2>q. QED BY <1>6, <2>2, <2>3, <2>4 DEF SaveBegin
<1>7. ASSUME NEW t \in Task, SaveCount(t) PROVE Solid
  <2>1. op.step = "more" /\ op \in OpSave /\ op.pos = cnt /\ cnt \in Nat
    BY <1>2, <1>7, OpKinds, Numbers DEF SaveCount, FlashOK
  <2>2. row' = row /\ cnt' = cnt + 1 /\ op' = [op EXCEPT !.step = "row"]
    BY <1>1, <1>7 DEF SaveCount
  <2>3. op'.pos = cnt
    BY <2>1, <2>2 DEF OpSave
  <2>4. \A i \in Slot : i < cnt => i < cnt + 1 /\ i # cnt
    BY <2>1, SlotNat
  <2>q. QED BY <2>2, <2>3, <2>4 DEF Solid
<1>8. ASSUME NEW t \in Task, SaveRow(t) PROVE Solid
  <2>1. op.step = "row" /\ cnt' = cnt /\ op' = NoOp
    BY <1>8 DEF SaveRow, Saved
  <2>2. row' = [row EXCEPT ![op.pos] = [dev |-> op.dev, ver |-> op.ver]]
    BY <1>1, <1>8 DEF SaveRow
  <2>3. \A i \in Slot : i # op.pos => row'[i] = row[i]
    BY <1>2, <2>2 DEF FlashOK
  <2>q. QED BY <1>3, <2>1, <2>3 DEF Solid
<1>9. ASSUME NEW t \in Task, DeleteMove(t) PROVE Solid
  <2>1. op.step = "move" /\ row[op.pos].dev = op.dev /\ op.dev \in Device /\ cnt' = cnt
    BY <1>2, <1>9, OpKinds DEF DeleteMove, OneRow, InDelete
  <2>2. row' = row \/ row' = [row EXCEPT ![op.pos] = Tail(op.dev)]
    BY <1>9 DEF DeleteMove
  <2>3. \A i \in Slot : i # op.pos => row'[i] = row[i]
    BY <1>2, <2>2 DEF FlashOK
  <2>4. row[op.pos] # Hole
    BY <2>1, Numbers DEF Hole
  <2>5. op'.step # "row"
    <3>1. op' = [op EXCEPT !.step = "shrink"] => op'.step = "shrink"
      BY <1>2, <2>1, OpKinds DEF OpDelete
    <3>q. QED BY <1>3, <1>9, <3>1 DEF DeleteMove, Deleted
  <2>q. QED BY <2>1, <2>3, <2>4, <2>5 DEF Solid
<1>10. ASSUME NEW t \in Task, DeleteShrink(t) PROVE Solid
  <2>1. op.step = "shrink" /\ op.dev \in Device /\ op \in OpDelete /\ row' = row /\ cnt \in Nat /\ cnt > 0
    BY <1>2, <1>10, OpKinds, Numbers DEF DeleteShrink, FlashOK
  <2>2. cnt' = cnt - 1 /\ op' = [op EXCEPT !.step = "drop"]
    BY <1>1, <1>10 DEF DeleteShrink
  <2>3. op'.step # "row"
    BY <2>1, <2>2 DEF OpDelete
  <2>4. \A i \in Slot : i < cnt - 1 => row[i] # Hole
    BY <2>1, <2>2, <2>3 DEF Solid
  <2>5. row[cnt - 1] # Hole
    <3>1. CASE row[cnt - 1].dev = op.dev
      BY <2>1, <3>1, Numbers DEF Hole
    <3>2. CASE \E i \in Slot : i < cnt - 1 /\ row[i] = row[cnt - 1]
      BY <2>4, <3>2
    <3>q. QED BY <1>2, <2>1, <3>1, <3>2 DEF LastCopied
  <2>6. \A i \in Slot : i < cnt => i < cnt - 1 \/ i = cnt - 1
    BY <2>1, SlotNat
  <2>q. QED BY <2>4, <2>5, <2>6 DEF Solid
<1>11. ASSUME NEW t \in Task, DeleteDrop(t) PROVE Solid
  <2>1. op.step = "drop" /\ cnt' = cnt /\ op' = NoOp
    BY <1>11 DEF DeleteDrop, Deleted
  <2>2. row' = row \/ row' = [row EXCEPT ![cnt] = Hole]
    BY <1>11 DEF DeleteDrop
  <2>3. \A i \in Slot : i < cnt => i # cnt
    BY <1>2, SlotNat, Numbers DEF FlashOK
  <2>4. \A i \in Slot : i < cnt => row'[i] = row[i]
    BY <1>2, <2>2, <2>3 DEF FlashOK
  <2>q. QED BY <1>3, <2>1, <2>4 DEF Solid
<1>12. ASSUME NEW t \in Task, SaveGone(t) \/ SaveShut(t) PROVE Solid
  BY <1>3, <1>5, <1>12 DEF SaveGone, SaveShut, MaySave, Saved, flash
<1>13. ASSUME NEW t \in Task, DeleteBegin(t) PROVE Solid
  <2>1. op = NoOp /\ UNCHANGED <<row, cnt>>
    BY <1>13 DEF DeleteBegin, flash
  <2>2. op'.step # "row"
    <3> DEFINE d == call[t].dev
               s == IF Min(Found(d)) = cnt - 1 THEN "shrink" ELSE "move"
    <3>1. op' = [step |-> s, task |-> t, dev |-> d, pos |-> Min(Found(d))] => op'.step = s
      OBVIOUS
    <3>q. QED BY <1>3, <1>13, <3>1 DEF DeleteBegin, Deleted
  <2>q. QED BY <1>3, <1>5, <2>1, <2>2
<1>14. ASSUME NEW c \in Client, Edit(c) \/ Remove(c) \/ Mark(c) PROVE Solid
  BY <1>4, <1>14 DEF Edit, Remove, Mark, flash
<1>15. CASE TableStep
  BY <1>2, <1>4, <1>15, TableStepQuiet DEF Quiet, flash
<1>16. ASSUME NEW f \in Flusher, LastSeen(f) PROVE Solid
  <2>1. UNCHANGED <<row, cnt, op>>
    BY <1>16 DEF LastSeen, flash
  <2>q. QED BY <1>4, <2>1
<1>17. ASSUME NEW c \in Client, Delete(c) PROVE Solid
  <2>1. c \in Task
    BY DEF Task
  <2>q. QED BY <1>9, <1>10, <1>11, <1>13, <1>17, <2>1 DEF Delete
<1>18. ASSUME NEW t \in Task, Save(t) PROVE Solid
  BY <1>6, <1>7, <1>8, <1>12, <1>18 DEF Save
<1>19. ~Cut /\ ~Boot
  BY DEF OnStep, Cut, Boot, Repair, RepairErase, Load
<1>20. Next
  BY DEF OnStep
<1>q. QED BY <1>14, <1>15, <1>16, <1>17, <1>18, <1>19, <1>20 DEF Next, TableStep

\* As long as no save is refused, what stands for a flush_now's debt stays.
LEMMA SecuredKept ==
    ASSUME OnStep, ~ \E t \in Task : Ends(t, FALSE), NEW d \in Device, NEW v \in Nat, Owable(d, v), NEW at, Secured(d, v, at)
    PROVE  Secured(d, v, at)'
<1>0. Shape /\ Table
  BY DEF OnStep, Ready
<1>1. CASE Reached(d, v)
  BY <1>1, ReachedKept DEF Secured
<1>2. CASE Covered(d, v)
  BY <1>2, CoveredKept DEF Secured
<1>3. ASSUME NEW i \in Entry, i >= at, dirty[i].dev = d, ~dirty[i].flushing PROVE Secured(d, v, at)'
  <2>1. (dirty'[i].dev = d /\ ~dirty'[i].flushing) => Secured(d, v, at)'
    BY <1>3 DEF Secured
  <2>2. ASSUME dirty' = dirty PROVE Secured(d, v, at)'
    BY <1>3, <2>1, <2>2
  <2>3. ASSUME NEW f \in Flusher, NEW j \in Entry, NEW b, Takes(f, j, b) PROVE Secured(d, v, at)'
    <3>1. CASE j = i
      <4>1. call'[f].do = "save" /\ call'[f].dev = d /\ ~Saves(f)'
        BY <1>3, <2>3, <3>1, TakesMoves
      <4>2. Covered(d, v)'
        BY <4>1 DEF Covered
      <4>q. QED BY <4>2 DEF Secured
    <3>2. CASE j # i
      <4>1. dirty'[i] = dirty[i]
        BY <1>0, <2>3, <3>2, TakesIs
      <4>q. QED BY <1>3, <2>1, <4>1
    <3>q. QED BY <3>1, <3>2
  <2>4. ASSUME NEW f \in Flusher, Settle(f) PROVE Secured(d, v, at)'
    <3>1. PICK j \in Entry : call[f].do = "settle" /\ call[f].slot = j /\ \A k \in Entry : k # j => dirty'[k] = dirty[k]
      BY <1>0, <2>4, SettleIs
    <3>2. dirty[j].flushing
      BY <1>0, <3>1, FlusherSaves
    <3>3. dirty'[i] = dirty[i]
      BY <1>3, <3>1, <3>2
    <3>q. QED BY <1>3, <2>1, <3>3
  <2>5. ASSUME NEW c \in Client, Mark(c) PROVE Secured(d, v, at)'
    <3>1. call[c].dev \in Device /\ (MarkSlot(call[c].dev) \/ dirty' = dirty)
      BY <1>0, <2>5, MarkIs
    <3>2. ASSUME NEW e \in Device, MarkSlot(e) PROVE Secured(d, v, at)'
      <4>1. PICK j \in Entry :
              /\ \A k \in Entry : k # j => dirty'[k] = dirty[k]
              /\ dirty'[j].dev = e /\ (dirty'[j].flushing <=> dirty[j].flushing)
              /\ dirty[j].dev = e \/ dirty[j] = Clean
        BY <1>0, <3>2, MarkSlotIs
      <4>2. dirty[i] # Clean
        BY <1>3, Numbers DEF Clean
      <4>3. CASE j = i
        BY <1>3, <2>1, <4>1, <4>2, <4>3
      <4>4. CASE j # i
        BY <1>3, <2>1, <4>1, <4>4
      <4>q. QED BY <4>3, <4>4
    <3>q. QED BY <2>2, <3>1, <3>2
  <2>6. ASSUME NEW c \in Client, Edit(c) \/ Remove(c) PROVE Secured(d, v, at)'
    BY <2>2, <2>6 DEF Edit, Remove
  <2>7. ASSUME NEW f \in Flusher, NEW k, Walks(f, k) PROVE Secured(d, v, at)'
    BY <2>2, <2>7 DEF Walks
  <2>8. ASSUME NEW t \in Task, Ends(t, TRUE) \/ Erases(t, TRUE) \/ Erases(t, FALSE) \/ GoesOn(t) PROVE Secured(d, v, at)'
    BY <2>2, <2>8 DEF Ends, Erases, GoesOn
  <2>q. QED BY <2>3, <2>4, <2>5, <2>6, <2>7, <2>8, OnKinds
<1>q. QED BY <1>1, <1>2, <1>3 DEF Secured

\* What a flush_now owes when nothing is in flight is on flash, or still pending.
LEMMA QuietSecured ==
    ASSUME Shape, Table, NoSlotInFlight, NEW d \in Device, NEW v, Owing(d, v)
    PROVE  Secured(d, v, 1) /\ ~Covered(d, v)
<1>1. \A t \in Flusher : call[t].do \notin {"save", "settle"}
  BY FlusherSaves DEF NoSlotInFlight
<1>2. ~Covered(d, v) /\ ~Refused(d)
  BY <1>1 DEF Covered, Refused
<1>3. CASE Reached(d, v)
  BY <1>2, <1>3 DEF Secured
<1>4. CASE Pending(d)
  <2>1. PICK i \in Entry : dirty[i].dev = d
    BY <1>4 DEF Pending
  <2>2. i >= 1
    BY EntryNat
  <2>q. QED BY <1>2, <2>1, <2>2 DEF Secured, NoSlotInFlight
<1>q. QED BY <1>2, <1>3, <1>4 DEF Owing

LEMMA NextTwoPasses ==
    ASSUME OnStep, Debts, TwoPasses, Clear => \A t \in Task : ~NoRoom(t)
    PROVE  TwoPasses'
<1> SUFFICES ASSUME Clear', NEW f \in Flusher, NEW d \in Device, NEW v \in Nat
             PROVE  /\ Walk(call'[f], d, v) => \A at : at = call'[f].at => Secured(d, v, at)'
                    /\ call'[f].do \in {"save", "settle"} /\ Walk(call'[f].back, d, v) => \A at : at = call'[f].back.at => Secured(d, v, at)'
                    /\ call'[f].do = "flushedAll" /\ call'[f].ok /\ Owes(call'[f], d, v) => Reached(d, v)'
  BY DEF TwoPasses, Walk, Owes
<1>0. Shape /\ Table /\ f \in Task
  BY DEF OnStep, Ready, Task
<1>1. fails = 0 /\ ~Fails /\ Clear
  BY ReadyIs, SolidBefore DEF OnStep, Clear
<1>2. ~ \E t \in Task : Ends(t, FALSE)
  BY <1>1 DEF Ends
<1>3. \A w \in {call[f]} : /\ Walk(w, d, v) => Secured(d, v, w.at)
                           /\ w.do \in {"save", "settle"} /\ Walk(w.back, d, v) => Secured(d, v, w.back.at)
                           /\ w.do = "flushedAll" /\ w.ok /\ Owes(w, d, v) => Reached(d, v)
  BY <1>1 DEF TwoPasses
<1>4. Debt(f, d, v) => Owable(d, v) /\ Owing(d, v)
  BY DEF Debts
<1>5. \A k : Walk(k, d, v) => Owes(k, d, v) /\ k.do = "slots"
  BY DEF Walk, Owes
<1>6. \A at : Debt(f, d, v) /\ Secured(d, v, at) => Secured(d, v, at)'
  BY <1>2, <1>4, SecuredKept
<1>7. Debt(f, d, v) /\ Reached(d, v) => Reached(d, v)'
  BY <1>4, ReachedKept
<1>8. CASE call'[f] = call[f]
  BY <1>3, <1>5, <1>6, <1>7, <1>8 DEF Debt
<1>9. ASSUME NEW k, Walks(f, k)
      PROVE  /\ Walk(k, d, v) => Secured(d, v, k.at)'
             /\ k.do \notin {"save", "settle"} /\ call'[f] = k
             /\ k.do = "flushedAll" /\ k.ok /\ Owes(k, d, v) => Reached(d, v)'
  <2>1. call'[f] = k /\ call[f].do \notin InUse /\ k.do \notin InUse /\ Onward(call[f], k)
    BY <1>9, WalksMoves
  <2>2. ASSUME Walk(k, d, v) PROVE Secured(d, v, k.at)'
    <3>1. CASE Walk(call[f], d, v) /\ k.at = call[f].at + 1 /\ call[f].at \in Entry /\ (dirty[call[f].at] = Clean \/ dirty[call[f].at].flushing)
      <4>1. Secured(d, v, call[f].at) /\ Debt(f, d, v)
        BY <1>3, <1>5, <3>1 DEF Debt
      <4>2. \A i \in Entry : i >= call[f].at /\ i # call[f].at => i >= call[f].at + 1
        BY <3>1, EntryNat
      <4>3. Clean.dev # d
        BY Numbers DEF Clean
      <4>4. Secured(d, v, k.at)
        BY <3>1, <4>1, <4>2, <4>3 DEF Secured
      <4>q. QED BY <1>6, <4>1, <4>4
    <3>2. CASE Owes(call[f], d, v) /\ NoSlotInFlight /\ k.at = 1
      <4>1. Debt(f, d, v) /\ Owing(d, v)
        BY <1>4, <3>2 DEF Debt
      <4>2. Secured(d, v, k.at)
        BY <1>0, <3>2, <4>1, QuietSecured
      <4>q. QED BY <1>6, <4>1, <4>2
    <3>q. QED BY <2>1, <2>2, <3>1, <3>2 DEF Onward
  <2>3. ASSUME k.do = "flushedAll", k.ok, Owes(k, d, v) PROVE Reached(d, v)'
    <3>1. /\ Owes(call[f], d, v) /\ NoSlotInFlight
          /\ (Walk(call[f], d, v) /\ call[f].at = DirtyCap + 1) \/ \A i \in Entry : dirty[i] = Clean
      BY <2>1, <2>3 DEF Onward
    <3>2. Debt(f, d, v) /\ Owing(d, v)
      BY <1>4, <3>1 DEF Debt
    <3>3. CASE Walk(call[f], d, v) /\ call[f].at = DirtyCap + 1
      <4>1. Secured(d, v, DirtyCap + 1)
        BY <1>3, <3>3
      <4>2. ~Covered(d, v)
        BY <1>0, <3>1, <3>2, QuietSecured
      <4>3. \A i \in Entry : ~(i >= DirtyCap + 1)
        BY EntryNat, Numbers
      <4>4. Reached(d, v)
        BY <4>1, <4>2, <4>3 DEF Secured
      <4>q. QED BY <1>7, <3>2, <4>4
    <3>4. CASE \A i \in Entry : dirty[i] = Clean
      <4>1. \A i \in Entry : dirty[i].dev # d
        BY <3>4, Numbers DEF Clean
      <4>2. Reached(d, v)
        BY <1>0, <3>2, <4>1, NothingPending
      <4>q. QED BY <1>7, <3>2, <4>2
    <3>q. QED BY <3>1, <3>3, <3>4
  <2>q. QED BY <2>1, <2>2, <2>3 DEF InUse
<1>10. ASSUME NEW i \in Entry, NEW b, Takes(f, i, b)
       PROVE  call'[f].do = "save" /\ call'[f].back = b /\ (Walk(b, d, v) => Secured(d, v, b.at)')
  <2>1. call'[f].do = "save" /\ call'[f].dev = dirty[i].dev /\ call'[f].back = b /\ ~Saves(f)'
    BY <1>10, TakesMoves
  <2>2. ASSUME Walk(b, d, v) PROVE Secured(d, v, b.at)'
    <3>1. Walk(call[f], d, v) /\ call[f].at = i /\ b.at = i + 1
      BY <1>10, <2>2 DEF Takes
    <3>2. Debt(f, d, v) /\ Secured(d, v, i)
      BY <1>3, <1>5, <3>1 DEF Debt
    <3>3. CASE dirty[i].dev = d
      <4>1. Covered(d, v)'
        BY <2>1, <3>3 DEF Covered
      <4>q. QED BY <4>1 DEF Secured
    <3>4. CASE dirty[i].dev # d
      <4>1. \A j \in Entry : j >= i /\ j # i => j >= i + 1
        BY EntryNat
      <4>2. Secured(d, v, b.at)
        BY <3>1, <3>2, <3>4, <4>1 DEF Secured
      <4>q. QED BY <1>6, <3>2, <4>2
    <3>q. QED BY <3>3, <3>4
  <2>q. QED BY <2>1, <2>2
<1>11. CASE Settle(f)
  <2>1. call[f].do = "settle" /\ call'[f].do \notin InUse /\ call'[f].do \notin {"take", "flushedAll"}
        /\ (Walk(call'[f], d, v) => Walk(call[f].back, d, v) /\ call'[f].at = call[f].back.at)
    BY <1>11, SettleMoves
  <2>2. ASSUME Walk(call'[f], d, v), NEW at, at = call'[f].at PROVE Secured(d, v, at)'
    BY <1>3, <1>5, <1>6, <2>1, <2>2 DEF Debt
  <2>q. QED BY <2>1, <2>2 DEF InUse
<1>12. CASE Ends(f, TRUE)
  <2>1. call[f].do = "save" /\ call'[f].do = "settle" /\ call'[f].back = call[f].back
    BY <1>12, EndsMoves
  <2>2. ASSUME Walk(call'[f].back, d, v), NEW at, at = call'[f].back.at PROVE Secured(d, v, at)'
    BY <1>3, <1>5, <1>6, <2>1, <2>2 DEF Debt
  <2>q. QED BY <1>5, <2>1, <2>2
<1>13. ASSUME NEW k, Walks(f, k), Walk(call'[f], d, v), NEW at, at = call'[f].at PROVE Secured(d, v, at)'
  BY <1>9, <1>13
<1>14. ASSUME NEW i \in Entry, NEW b, Takes(f, i, b), Walk(call'[f].back, d, v), NEW at, at = call'[f].back.at PROVE Secured(d, v, at)'
  BY <1>10, <1>14
<1>q. QED BY <1>0, <1>2, <1>5, <1>8, <1>9, <1>10, <1>11, <1>12, <1>13, <1>14, FlusherMoves

LEMMA FlushNowMeans ==
    ASSUME Shape, ~leftover => TwoPasses
    PROVE  FlushNowDurable
<1> SUFFICES ASSUME NEW f \in Shutdown, call[f].do = "flushedAll", call[f].ok, fails = 0, ~leftover, Holes = {}, NEW d \in Device
             PROVE  Durable(d) >= call[f].owed[d] \/ call[f].owed[d] <= left[d]
  BY DEF FlushNowDurable
<1>1. f \in Flusher /\ f \in Task
  BY DEF Flusher, Task
<1>2. call[f] \in FlushedAllRec
  BY <1>1, CallTypes
<1>3. PICK v \in Nat : v = call[f].owed[d]
  BY <1>2 DEF FlushedAllRec
<1>4. Clear
  BY DEF Clear, Solid, Holes
<1>5. Owes(call[f], d, v)
  BY <1>3 DEF Owes
<1>6. Reached(d, v)
  BY <1>1, <1>4, <1>5 DEF TwoPasses
<1>q. QED BY <1>3, <1>6, Views DEF Reached

\* The devices that need a row: those of the pool, and those that a delete still has to take from flash.
Wanted == {e \in Device : pool[e] # 0 \/ (Leaving(call, e) /\ (VerIn(row, cnt, e) # 0 \/ (op.step \in {"more", "row"} /\ op.dev = e)))}

\* The other promise of the tasks, while no write has failed: none of them pairs a device for which
\* there is no row before a delete under way has ended.  The pool's limit, which is the store's, does
\* not say this, as the pool no longer counts the device that is being deleted.
PoolFits == fails = 0 => Cardinality(Wanted) <= Cap

LEMMA WantedCounts ==
    /\ IsFiniteSet(Wanted) /\ IsFiniteSet(Wanted') /\ Cardinality(Wanted) \in Nat /\ Cardinality(Wanted') \in Nat
    /\ Wanted' \subseteq Wanted => Cardinality(Wanted') <= Cardinality(Wanted)
<1>1. Wanted \in SUBSET Device /\ Wanted' \in SUBSET Device
  BY DEF Wanted
<1>2. IsFiniteSet(Wanted) /\ IsFiniteSet(Wanted')
  BY <1>1, ZapConstants, FS_Subset
<1>q. QED BY <1>1, <1>2, DeviceCounts

\* A step that begins or ends with the system down.
LEMMA OffSteps ==
    ASSUME Shape, Next, up # "on" \/ up' # "on"
    PROVE  Cut \/ Repair \/ RepairErase \/ Load
<1>1. CASE up # "on"
  <2>1. op = NoOp /\ \A t \in Task : call[t] = Idle
    BY <1>1 DEF Shape, UpOK
  <2>2. op.step = "none" /\ \A t \in Task : call[t].do = "idle"
    BY <2>1 DEF NoOp, Idle
  <2>3. ~TableStep /\ \A f \in Flusher : ~LastSeen(f)
    BY <1>1, TableStepQuiet DEF LastSeen
  <2>4. \A c \in Client : c \in Task
    BY DEF Task
  <2>5. \A c \in Client : ~Edit(c) /\ ~Remove(c) /\ ~Mark(c) /\ ~Delete(c)
    BY <1>1, <2>2, <2>4 DEF Edit, Remove, Mark, Delete, DeleteBegin, DeleteMove, DeleteShrink, DeleteDrop
  <2>6. \A t \in Task : ~Save(t)
    BY <2>2 DEF Save, SaveGone, SaveShut, SaveBegin, SaveCount, SaveRow, MaySave
  <2>q. QED BY <2>3, <2>5, <2>6 DEF Next, TableStep, Boot
<1>2. CASE up' # "on" /\ up = "on"
  <2>1. TableStep => up' = up
    BY TableStepQuiet DEF Quiet
  <2>2. \A c \in Client : Edit(c) \/ Remove(c) \/ Mark(c) \/ Delete(c) => up' = up
    BY DEF Edit, Remove, Mark, Delete, DeleteBegin, DeleteMove, DeleteShrink, DeleteDrop
  <2>3. \A t \in Task : Save(t) => up' = up
    BY DEF Save, SaveGone, SaveShut, SaveBegin, SaveCount, SaveRow
  <2>4. \A f \in Flusher : LastSeen(f) => up' = up
    BY DEF LastSeen
  <2>q. QED BY <1>2, <2>1, <2>2, <2>3, <2>4 DEF Next, TableStep, Boot
<1>q. QED BY <1>1, <1>2

\* With a row in every slot, a pool that fits leaves no room only for a device that has a row.
LEMMA RoomForAll ==
    ASSUME Shape, OneRow, RowsFaithful, CopyIsPools, FlashIsBehind, Bounded, PoolFits, ~leftover, Clear, NEW t \in Task
    PROVE  ~NoRoom(t)
<1> SUFFICES ASSUME NoRoom(t) PROVE FALSE
  OBVIOUS
<1>1. call[t].do = "save" /\ op = NoOp /\ Record(t) # 0 /\ Found(call[t].dev) = {} /\ cnt >= Cap /\ call[t].dev \in Device
  BY CallTypes DEF NoRoom, MaySave
<1>2. PICK d \in Device : d = call[t].dev
  BY <1>1
<1>3. pool[d] # 0 /\ op.step = "none" /\ up = "on" /\ fails = 0 /\ Solid /\ FlashOK /\ SameRecord
  <2>1. pool[d] # 0
    BY <1>1, <1>2 DEF Record, CopyIsPools
  <2>2. up = "on"
    BY <1>1, UpKinds DEF Idle
  <2>q. QED BY <1>1, <2>1, <2>2 DEF NoOp, Clear, Shape, RowsFaithful
<1>4. \A i \in Slot : i < cnt
  BY <1>1, <1>3, SlotNat, Numbers DEF FlashOK
<1>5. \A i \in Slot : row[i] # Hole /\ row[i].dev \in Device /\ row[i].ver # 0
  <2>1. \A i \in Slot : row[i] # Hole
    BY <1>3, <1>4 DEF Solid
  <2>q. QED BY <1>3, <2>1 DEF FlashOK, RowRec, Bounded
<1>6. \A i \in Slot : row[i].dev # d
  <2>1. CASE index.built
    <3>1. \A i \in Slot : index.dev[i] = row[i].dev /\ i < index.count
      <4>1. Knows(cnt)
        BY <1>1, <2>1 DEF OneRow, Sound, AtRest, IndexTrue
      <4>2. index.count \in Nat
        BY <1>3, Numbers DEF FlashOK, IndexRec
      <4>q. QED BY <1>4, <1>5, <4>1, <4>2, SlotNat DEF Knows, Agrees
    <3>q. QED BY <1>1, <1>2, <2>1, <3>1 DEF Found, Index
  <2>2. CASE ~index.built
    <3>1. Scanned(TRUE).count = cnt /\ \A i \in Slot : Scanned(TRUE).dev[i] = row[i].dev
      BY <1>3, <1>4, ScannedType
    <3>q. QED BY <1>1, <1>2, <1>4, <2>2, <3>1 DEF Found, Index
  <2>q. QED BY <2>1, <2>2
<1>7. \A i \in Slot : row[i].dev \in Wanted \ {d}
  <2> SUFFICES ASSUME NEW i \in Slot, NEW e \in Device, e = row[i].dev PROVE e \in Wanted
    BY <1>5, <1>6
  <2>1. VerIn(row, cnt, e) = row[i].ver
    BY <1>3, <1>4, VerNow
  <2>2. VerIn(row, cnt, e) # 0 /\ VerIn(row, cnt, e) \in Nat
    BY <1>5, <2>1, VerNat
  <2>3. Leaving(call, e) \/ VerIn(row, cnt, e) <= pool[e]
    BY <1>3 DEF FlashIsBehind, LetGo
  <2>4. pool[e] \in Nat
    BY DEF Shape, PoolOK
  <2>q. QED BY <2>2, <2>3, <2>4 DEF Wanted
<1> DEFINE g == [i \in Slot |-> row[i].dev]
           T == Wanted \ {d}
<1>8. g \in Injection(Slot, T)
  <2>1. g \in [Slot -> T]
    BY <1>7
  <2>2. Unique(cnt)
    BY <1>1, <1>3 DEF OneRow, Sound, AtRest
  <2>3. \A i, j \in Slot : row[i].dev = row[j].dev => i = j
    BY <1>4, <1>5, <2>2 DEF Unique
  <2>4. \A i \in Slot : g[i] = row[i].dev
    OBVIOUS
  <2> HIDE DEF g, T
  <2>q. QED BY <2>1, <2>3, <2>4 DEF Injection, IsInjective
<1>9. d \in Wanted
  BY <1>3 DEF Wanted
<1>10. IsFiniteSet(T) /\ Cardinality(T) = Cardinality(Wanted) - 1
  BY <1>9, WantedCounts, FS_RemoveElement
<1>11. Cardinality(Slot) <= Cardinality(T)
  <2> HIDE DEF g, T
  <2>q. QED BY <1>8, <1>10, FS_Injection
<1>12. Cardinality(Slot) = Cap
  <2>1. IsFiniteSet(0..(Cap - 1)) /\ Cardinality(0..(Cap - 1)) = IF 0 > Cap - 1 THEN 0 ELSE (Cap - 1) - 0 + 1
    BY Numbers, FS_Interval
  <2>q. QED BY <2>1, Numbers DEF Slot
<1>13. Cardinality(Wanted) <= Cap
  BY <1>3 DEF PoolFits
<1> HIDE DEF T
<1>q. QED BY <1>10, <1>11, <1>12, <1>13, WantedCounts, Numbers

\* The inductive invariant, and the property.
Promises == Current /\ Safe /\ Gone /\ Debts /\ OneFlush /\ TwoPasses
Honest   == Trusted /\ Bounded /\ Table /\ Lefts /\ Ledger /\ (~leftover => Promises)

\* A power cut forgets what was promised; a boot makes the pool what flash has.
LEMMA OffPromises ==
    ASSUME Shape, Shape', Next, up # "on" \/ up' # "on"
    PROVE  Current' /\ Safe' /\ Debts' /\ OneFlush' /\ TwoPasses'
<1>1. up' = "on" => Load
  BY OffSteps DEF Cut, Repair, RepairErase
<1>2. op' = NoOp /\ \A t \in Task : call'[t] = Idle
  <2>1. CASE up' # "on"
    BY <2>1 DEF Shape, UpOK
  <2>2. CASE up' = "on"
    <3>1. op' = op /\ call' = call /\ up # "on"
      BY <1>1, <2>2 DEF Load
    <3>q. QED BY <3>1 DEF Shape, UpOK
  <2>q. QED BY <2>1, <2>2
<1>3. op'.step = "none" /\ \A f \in Flusher : call'[f].do = "idle"
  BY <1>2 DEF NoOp, Idle, Task
<1>4. Current'
  BY <1>3 DEF Current
<1>5. Debts' /\ OneFlush' /\ TwoPasses'
  <2>1. \A f \in Flusher : \A d, v : ~Owes(call'[f], d, v) /\ ~Took(call'[f], d, v) /\ ~Walk(call'[f], d, v)
    BY <1>3 DEF Owes, Took, Walk
  <2>2. Debts'
    BY <1>3, <2>1 DEF Debts, Debt
  <2>3. OneFlush'
    BY <1>3, <2>1 DEF OneFlush
  <2>4. TwoPasses'
    BY <1>3, <2>1 DEF TwoPasses
  <2>q. QED BY <2>2, <2>3, <2>4
<1>6. Safe'
  <2> SUFFICES ASSUME up' = "on", NEW d \in Device PROVE Heeded(d)'
    BY DEF Safe
  <2>1. pool'[d] = VerIn(row', cnt', d)
    <3>1. pool'[d] = Durable(d) /\ row' = row /\ cnt' = cnt
      BY <1>1 DEF Load, flash
    <3>q. QED BY <3>1, Views
  <2>2. PICK v \in Nat : v = pool'[d]
    BY DEF Shape, PoolOK
  <2>3. Reached(d, v)'
    BY <2>1, <2>2 DEF Reached
  <2>4. Owing(d, v)'
    BY <2>3 DEF Owing
  <2>q. QED BY <2>2, <2>4, HeededBy
<1>q. QED BY <1>4, <1>5, <1>6

LEMMA NextPromises ==
    ASSUME PoolFits, Ready, Next, Bounded, Table, Table', Lefts, Lefts', Promises
    PROVE  Promises'
<1>1. Gone'
  BY NextGone DEF Promises
<1>2. CASE up # "on" \/ up' # "on"
  BY <1>1, <1>2, OffPromises DEF Promises, Ready
<1>3. CASE up = "on" /\ up' = "on"
  <2>1. OnStep
    BY <1>3 DEF OnStep
  <2>2. Clear => \A t \in Task : ~NoRoom(t)
    BY RoomForAll DEF Ready, Promises
  <2>3. Current' /\ Safe' /\ Debts' /\ OneFlush'
    BY <2>1, NextCurrent, NextSafe, NextDebts, NextOneFlush DEF Promises
  <2>4. TwoPasses'
    BY <2>1, <2>2, NextTwoPasses DEF Promises
  <2>q. QED BY <1>1, <2>3, <2>4 DEF Promises
<1>q. QED BY <1>2, <1>3

LEMMA HonestStays == ASSUME Honest, UNCHANGED vars, Trusted' PROVE Honest'
<1>1. UNCHANGED <<row, cnt, index, pool, dirty, call, op, up, fails, gone, givenUp, edits, cuts, left, leftover>>
  BY DEF vars, flash, past
<1>2. Bounded' /\ Lefts' /\ Table' /\ Ledger'
  <2>1. Bounded'
    BY <1>1 DEF Bounded, Honest
  <2>2. Lefts'
    BY <1>1 DEF Lefts, Honest
  <2>3. Table'
    BY <1>1 DEF Table, InFlight, Honest
  <2>4. Ledger'
    BY <1>1, LedgerStays DEF Honest
  <2>q. QED BY <2>1, <2>2, <2>3, <2>4
<1>3. ASSUME Promises PROVE Promises'
  <2>1. \A d : /\ \A v : (Reached(d, v)' <=> Reached(d, v)) /\ (Covered(d, v)' <=> Covered(d, v)) /\ (Owable(d, v)' <=> Owable(d, v))
               /\ (Pending(d)' <=> Pending(d)) /\ (Refused(d)' <=> Refused(d)) /\ (Waits(d)' <=> Waits(d))
    BY <1>1 DEF Reached, Covered, Owable, Pending, Refused, Waits, Saves, Open
  <2>2. \A d : \A v : (Owing(d, v)' <=> Owing(d, v)) /\ \A at : Secured(d, v, at)' <=> Secured(d, v, at)
    BY <1>1, <2>1 DEF Owing, Secured
  <2>3. Current'
    BY <1>1, <1>3, <2>1 DEF Promises, Current
  <2>4. Safe'
    <3> SUFFICES ASSUME up' = "on", NEW d \in Device PROVE Heeded(d)'
      BY DEF Safe
    <3>1. Heeded(d)
      BY <1>1, <1>3 DEF Promises, Safe
    <3>2. CASE pool[d] = 0 \/ d \in givenUp \/ \E c \in Client : Busy(c, d)
      BY <1>1, <3>2 DEF Heeded, Busy
    <3>3. CASE Owing(d, pool[d])
      <4>1. PICK v : v = pool[d]
        OBVIOUS
      <4>2. Owing(d, v)'
        BY <2>2, <3>3, <4>1
      <4>q. QED BY <1>1, <4>1, <4>2, HeededBy
    <3>q. QED BY <3>1, <3>2, <3>3 DEF Heeded
  <2>5. Gone'
    BY <1>1, <1>3 DEF Promises, Gone
  <2>6. Debts'
    BY <1>1, <1>3, <2>1, <2>2 DEF Promises, Debts, Debt
  <2>7. OneFlush'
    BY <1>1, <1>3, <2>1 DEF Promises, OneFlush, Saves
  <2>8. TwoPasses'
    <3>1. Clear' <=> Clear
      BY <1>1 DEF Clear, Solid
    <3>2. \A f \in Flusher : call'[f] = call[f]
      BY <1>1
    <3> SUFFICES ASSUME Clear, NEW f \in Flusher, NEW d \in Device, NEW v \in Nat
                 PROVE  /\ Walk(call[f], d, v) => \A at : at = call[f].at => Secured(d, v, at)'
                        /\ call[f].do \in {"save", "settle"} /\ Walk(call[f].back, d, v) => \A at : at = call[f].back.at => Secured(d, v, at)'
                        /\ call[f].do = "flushedAll" /\ call[f].ok /\ Owes(call[f], d, v) => Reached(d, v)'
      BY <3>1, <3>2 DEF TwoPasses, Walk, Owes
    <3>q. QED BY <1>3, <2>1, <2>2 DEF Promises, TwoPasses
  <2>q. QED BY <2>3, <2>4, <2>5, <2>6, <2>7, <2>8 DEF Promises
<1>q. QED BY <1>1, <1>2, <1>3 DEF Honest

LEMMA NextHonest ==
    ASSUME Apart', PoolFits, Honest, [Next]_vars
    PROVE  Honest'
<1>1. Trusted /\ Trusted'
  BY NextKept DEF Honest
<1>2. CASE UNCHANGED vars
  BY <1>1, <1>2, HonestStays
<1>3. CASE Next
  <2>1. Shape /\ Shape'
    BY <1>1 DEF Trusted
  <2>2. Bounded' /\ Table' /\ Lefts' /\ Ledger'
    BY <1>3, <2>1, NextBounded, NextTable, NextLefts, NextLedger DEF Honest
  <2>3. ASSUME ~leftover' PROVE Promises'
    <3>1. ~leftover
      BY <1>3, <2>1, <2>3, LeftoverStays
    <3>2. Ready
      BY <1>1, <1>3, <2>1, <2>3, <3>1, FailsStay DEF Ready, Trusted, Tidy, NotAhead
    <3>q. QED BY <1>3, <2>2, <3>1, <3>2, NextPromises DEF Honest
  <2>q. QED BY <1>1, <2>2, <2>3 DEF Honest
<1>q. QED BY <1>2, <1>3

LEMMA InitHonest == ASSUME Init PROVE Honest
<1>1. /\ row = [i \in Slot |-> Hole] /\ cnt = 0 /\ pool = [d \in Device |-> 0] /\ call = [t \in Task |-> Idle]
      /\ dirty = [i \in Entry |-> Clean] /\ op.step = "none" /\ edits = 0 /\ left = [d \in Device |-> 0] /\ up = "on"
      /\ \A t \in Task : call[t].do = "idle"
      /\ \A i \in Entry : ~dirty[i].flushing /\ ~dirty[i].remarked /\ dirty[i].dev = 0
  BY DEF Init, NoOp, Idle, Clean
<1>2. Trusted
  BY InitTrusted
<1>3. Bounded
  BY <1>1 DEF Bounded
<1>4. Table
  BY <1>1 DEF Table, InFlight, Flusher, Task
<1>5. Lefts
  BY <1>1 DEF Lefts
<1>6. \A f \in Flusher : call[f].do = "idle"
  BY <1>1 DEF Task
<1>7. Debts /\ OneFlush /\ TwoPasses
  <2>1. \A f \in Flusher : \A d, v : ~Owes(call[f], d, v) /\ ~Took(call[f], d, v) /\ ~Walk(call[f], d, v)
    BY <1>6 DEF Owes, Took, Walk
  <2>2. Debts
    BY <1>6, <2>1 DEF Debts, Debt
  <2>3. OneFlush
    BY <1>6, <2>1 DEF OneFlush
  <2>4. TwoPasses
    BY <1>6, <2>1 DEF TwoPasses
  <2>q. QED BY <2>2, <2>3, <2>4
<1>8. Current /\ Safe
  BY <1>1 DEF Current, Safe, Heeded
<1>q. QED BY <1>2, <1>3, <1>4, <1>5, <1>7, <1>8, InitLedger, InitGone DEF Honest, Promises

LEMMA HonestMeans == ASSUME Honest PROVE SavedWhenSaid
<1>1. Shape /\ Bounded /\ Table /\ Lefts /\ Ledger /\ (~leftover => FlashIsBehind /\ Promises)
  BY DEF Honest, Trusted, NotAhead
<1>2. TypeOK /\ SlotsNotLeaked
  BY <1>1, TypeMeans, LedgerMeans
<1>3. DeletedStaysGone
  BY <1>1, GoneMeans DEF Promises
<1>4. SettledMeansSaved
  BY <1>1, SettledMeans DEF Promises
<1>5. FlushDeviceDurable /\ FlushNowDurable
  BY <1>1, FlushDeviceMeans, FlushNowMeans DEF Promises
<1>q. QED BY <1>2, <1>3, <1>4, <1>5 DEF SavedWhenSaid

\* What the store says is saved, is, and what is not pending: through any interleaving of the
\* tasks, power cuts and failed writes, for any number of tasks that pair, change and delete, if they
\* keep apart from each other at each device and pair no device before there is a row for it.
THEOREM SavedWhenSaidKept == Spec /\ []Apart /\ []PoolFits => []SavedWhenSaid
<1>1. Init => Honest
  BY InitHonest
<1>2. Honest /\ Apart' /\ PoolFits /\ [Next]_vars => Honest'
  BY NextHonest
<1>3. Honest => SavedWhenSaid
  BY HonestMeans
<1>q. QED BY <1>1, <1>2, <1>3, PTL DEF Spec

\* Whoever pairs, edits and deletes: the state is well formed, and only a cut or a failed write
\* leaves a counted slot without a row.
THEOREM SlotsAccountedFor == Spec => [](TypeOK /\ SlotsNotLeaked)
<1> DEFINE Accounted == Shape /\ Bounded /\ Table /\ Ledger
<1>1. Init => Accounted
  BY InitHonest DEF Honest, Trusted
<1>2. Accounted /\ [Next]_vars => Accounted'
  <2> SUFFICES ASSUME Accounted, [Next]_vars PROVE Accounted'
    OBVIOUS
  <2>1. Shape'
    BY NextShape
  <2>2. CASE Next
    BY <2>1, <2>2, NextBounded, NextTable, NextLedger
  <2>3. CASE UNCHANGED vars
    <3>1. UNCHANGED <<row, cnt, index, pool, dirty, call, op, fails, edits, cuts>>
      BY <2>3 DEF vars, flash, past
    <3>2. Bounded'
      BY <3>1 DEF Bounded
    <3>3. Table'
      BY <3>1 DEF Table, InFlight
    <3>4. Ledger'
      BY <3>1, LedgerStays
    <3>q. QED BY <2>1, <3>2, <3>3, <3>4
  <2>q. QED BY <2>2, <2>3
<1>3. Accounted => TypeOK /\ SlotsNotLeaked
  BY TypeMeans, LedgerMeans
<1>q. QED BY <1>1, <1>2, <1>3, PTL DEF Spec
=============================================================================
