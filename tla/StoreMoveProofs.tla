--------------------------- MODULE StoreMoveProofs ---------------------------
(***************************************************************************)
(* Theorems about StoreMove, for any number of saves, cuts, faults and     *)
(* wipes.                                                                  *)
(***************************************************************************)
EXTENDS StoreMove, TLAPS

USE MoveConstants

-----------------------------------------------------------------------------
\* Types.  Saves number the contents, so none is above the last save.

Number == -1..saves
Sums   == {NoSum} \cup (Number \X Number)

CopyAts == {"clear", "erasePool", "eraseShadow", "beginPool", "copyPool", "beginShadow", "copyShadow", "src", "done"}
Ats     == CopyAts \cup {"start", "copied", "settle", "marks", "eraseOld", "eraseRest", "open", "run"}
Boots   == [at : Ats, build : {"this", "bare", "old"}, trial : BOOLEAN, nvsUp : BOOLEAN, read : BOOLEAN,
            dataUp : {"ok", "bad", "full", "formatted"}, part : {"nvs", "data"}, ready : BOOLEAN,
            mark : {"none", "live", "moved"}]

Types ==
    /\ nvs \in [pool : Number, shadow : Number, moved : BOOLEAN, copied : Sums]
    /\ data \in [pool : Number, shadow : Number, live : BOOLEAN, done : BOOLEAN, src : Sums]
    /\ newest \in [pool : Number, shadow : SUBSET Number]
    /\ boot \in Boots \cup {Off}
    /\ saves \in Nat \ {0} /\ cuts \in Nat /\ faults \in Nat /\ wipes \in Nat /\ refused \in BOOLEAN
    /\ cuts <= MaxCuts
    /\ saves <= MaxSaves + cuts + (IF boot.at = "run" THEN 1 ELSE 0)

\* What is on the two partitions, whatever boots.
NvsNewest  == nvs.pool = newest.pool /\ nvs.shadow \in newest.shadow
DataNewest == data.pool = newest.pool /\ data.shadow \in newest.shadow

MarksInOrder ==
    /\ data.done => data.src # NoSum
    /\ data.live => data.done
    /\ nvs.shadow # Torn
    /\ ~refused /\ ~nvs.moved => nvs.pool # Torn
    /\ ~refused /\ data.done => data.pool # Torn /\ data.shadow # Torn
    /\ wipes = 0 /\ ~refused => (nvs.copied # NoSum => data.src # NoSum) /\ (Final => data.done)

\* A copy that counts is the newest; without one, or before the copy took a save nvs lacks, nvs is.
RecordKept ==
    /\ ~Final => /\ Current => DataNewest
                 /\ ~Current \/ (nvs.copied # Sum(nvs) /\ nvs.pool # 0) => NvsNewest
    /\ Final => /\ data.done => DataNewest
                /\ data.done \/ nvs.moved
                /\ ~nvs.moved /\ nvs.pool # 0 => nvs.copied = Sum(nvs)

\* Where a boot is.
Elsewhere ==        \* another build
    boot.build # "this" =>
       /\ boot.at \in {"open", "run"} /\ boot.part = "nvs" /\ boot.mark = "none"
       /\ boot.nvsUp /\ boot.dataUp = "ok"
       /\ ~Final \/ (boot.build = "bare" /\ nvs.moved /\ ~boot.ready)
       /\ boot.at = "run" => boot.ready \/ nvs.moved

Starting ==
    /\ boot.ready => boot.at = "run"
    /\ boot.dataUp = "formatted" => refused
    /\ boot.at = "start" => boot.mark = "none"

Copying ==
    /\ boot.at \in CopyAts \cup {"copied", "settle"} =>
          /\ ~Final /\ boot.mark = "none" /\ boot.nvsUp /\ boot.read /\ boot.dataUp = "ok"
    /\ boot.at \in CopyAts => ~Current
    /\ boot.at \in CopyAts \ {"clear"} => ~data.done
    /\ boot.at \in {"beginShadow", "copyShadow", "src", "done"} => data.pool = nvs.pool
    /\ boot.at \in {"src", "done"} => data.shadow = nvs.shadow
    /\ boot.at = "done" => data.src = Sum(nvs)
    /\ boot.at \in {"copied", "settle"} => Current
    /\ boot.at = "settle" => nvs.copied = data.src \/ refused

OnData ==
    /\ boot.at \in {"marks", "eraseOld", "eraseRest"} => boot.part = "data"
    /\ boot.mark # "none" => boot.part = "data" /\ (boot.at = "marks" \/ boot.ready)
    /\ boot.part = "data" /\ (boot.at \in {"marks", "eraseOld", "eraseRest", "open"} \/ boot.ready) =>
          /\ boot.dataUp = "ok" /\ data.done
          /\ refused \/ Final \/ (Current /\ nvs.copied = data.src)
    /\ boot.at = "run" /\ boot.part = "data" /\ ~boot.ready =>
          boot.dataUp # "ok" \/ ~data.done \/ ~boot.read

Marking ==
    /\ boot.mark = "moved" => data.live \/ faults > 0
    /\ boot.at \in {"marks", "eraseOld", "eraseRest"} /\ boot.mark = "none" =>
          (nvs.moved \/ refused) /\ (Final \/ faults > 0)
    /\ boot.at \in {"eraseOld", "eraseRest"} => Final /\ boot.mark = "none"
    /\ boot.part = "data" /\ (boot.at = "open" \/ boot.ready) /\ ~boot.trial /\ boot.mark = "none" =>
          Final \/ faults > 0

OnNvs ==
    /\ boot.part = "nvs" /\ boot.ready => boot.nvsUp /\ ~(boot.build = "bare" /\ nvs.moved)
    /\ boot.part = "nvs" /\ boot.ready /\ ~refused => nvs.pool # 0
    /\ boot.build = "this" /\ boot.part = "nvs" /\ boot.at \in {"open", "run"} =>
          /\ boot.nvsUp /\ boot.read /\ boot.dataUp = "ok" => faults > 0
          /\ boot.nvsUp /\ ~refused => ~Final /\ NvsNewest
          /\ boot.nvsUp /\ boot.at = "run" => boot.ready

InBoot == boot # Off => Elsewhere /\ Starting /\ Copying /\ OnData /\ Marking /\ OnNvs

IInv == Types /\ MarksInOrder /\ (~refused => RecordKept) /\ InBoot

-----------------------------------------------------------------------------
LEMMA Initially == Init => IInv
<1> SUFFICES ASSUME Init PROVE IInv
  OBVIOUS
<1>1. Types
  <2>1. NoSum \in Sums /\ 0 \in Number /\ 1 \in Number
    BY DEF Init, Number, Sums
  <2>2. nvs = [pool |-> 1, shadow |-> 0, moved |-> FALSE, copied |-> NoSum] /\ newest = [pool |-> 1, shadow |-> {0}]
    BY DEF Init, BlankNvs, Blank, Wanted
  <2>3. saves \in Nat \ {0} /\ cuts \in Nat /\ faults \in Nat /\ wipes \in Nat
    BY DEF Init
  <2>6. refused \in BOOLEAN /\ boot = Off
    BY Zenon DEF Init
  <2>7. nvs \in [pool : Number, shadow : Number, moved : BOOLEAN, copied : Sums]
        /\ newest \in [pool : Number, shadow : SUBSET Number]
    BY <2>1, <2>2
  <2>4. cuts <= MaxCuts /\ saves <= MaxSaves + cuts + (IF boot.at = "run" THEN 1 ELSE 0)
    BY DEF Init, Off
  <2>5. data \in [pool : Number, shadow : Number, live : BOOLEAN, done : BOOLEAN, src : Sums]
    BY <2>1 DEF Init, BlankData
  <2> QED
    BY <2>3, <2>4, <2>5, <2>6, <2>7 DEF Types
<1>2. MarksInOrder /\ RecordKept
  BY DEF Init, MarksInOrder, RecordKept, Final, Current, Copy, NvsNewest, DataNewest, BlankNvs, BlankData, Blank,
         Wanted, NoSum, Torn
<1> QED
  BY <1>1, <1>2 DEF Init, IInv, InBoot

\* The on-off of a boot.
LEMMA Booted == ASSUME Types, boot.at # "off" PROVE boot \in Boots /\ boot # Off
  BY DEF Types, Off

LEMMA OnIsBooted == ASSUME Types, boot # Off PROVE boot \in Boots /\ boot.at # "off"
  BY DEF Types, Boots, Ats, CopyAts

LEMMA SumIsNoBlank == ASSUME NEW p PROVE Sum(p) # NoSum
  BY DEF Sum, NoSum

\* What every step of a boot has to show of the types.
LEMMA TypesKept ==
    ASSUME Types, boot # Off, boot' \in Boots, boot.at = "run" => boot'.at = "run", faults' \in Nat, refused' \in BOOLEAN,
           UNCHANGED <<newest, saves, cuts, wipes>>,
           nvs' \in [pool : Number, shadow : Number, moved : BOOLEAN, copied : Sums],
           data' \in [pool : Number, shadow : Number, live : BOOLEAN, done : BOOLEAN, src : Sums]
    PROVE  Types'
<1>1. saves' <= MaxSaves + cuts' + (IF boot'.at = "run" THEN 1 ELSE 0)
  BY DEF Types
<1> QED
  BY <1>1 DEF Types, Number, Sums

\* A step that writes neither partition.
Unwritten == UNCHANGED <<nvs, data, newest, saves, cuts, wipes, refused>> /\ faults' \in Nat /\ faults' >= faults

LEMMA UnwrittenKeeps ==
    ASSUME IInv, Unwritten, boot # Off, boot' \in Boots, boot.at = "run" => boot'.at = "run", InBoot'
    PROVE  IInv'
<1>1. Types'
  BY TypesKept DEF IInv, Unwritten, Types
<1>2. MarksInOrder'
  BY DEF IInv, Unwritten, MarksInOrder, Final
<1>3. (~refused => RecordKept)'
  BY DEF IInv, Unwritten, RecordKept, Final, Current, Copy, Sum, NvsNewest, DataNewest
<1> QED
  BY <1>1, <1>2, <1>3 DEF IInv

-----------------------------------------------------------------------------
LEMMA PowerOnKeeps == IInv /\ PowerOn => IInv'
<1> SUFFICES ASSUME IInv, PowerOn PROVE IInv'
  OBVIOUS
<1> USE DEF IInv
<1>0. PICK build \in {"this", "bare", "old"}, trial \in BOOLEAN, nvsUp \in BOOLEAN, read \in BOOLEAN,
          dataUp \in {"ok", "bad", "full"} :
          /\ build # "this" => ~Final \/ (build = "bare" /\ nvs.moved)
          /\ build # "this" => ~trial /\ nvsUp /\ read /\ dataUp = "ok"
          /\ read => nvsUp
          /\ faults' = faults + (IF nvsUp /\ read THEN 0 ELSE 1) + (IF dataUp = "ok" THEN 0 ELSE 1)
          /\ faults' <= MaxFaults
          /\ boot' = [at |-> IF build = "this" THEN "start" ELSE "open", build |-> build, trial |-> trial,
                      nvsUp |-> nvsUp, read |-> read, dataUp |-> dataUp, part |-> "nvs",
                      ready |-> FALSE, mark |-> "none"]
  BY Zenon DEF PowerOn
<1>a. UNCHANGED <<nvs, data, refused, newest, saves, cuts, wipes>>
  BY DEF PowerOn, History
<1>b. boot' \in Boots /\ boot'.at # "run"
  BY <1>0 DEF Boots, Ats, CopyAts
<1>1. Types'
  <2>1. faults' \in Nat /\ saves' <= MaxSaves + cuts' + (IF boot'.at = "run" THEN 1 ELSE 0)
    BY <1>0, <1>a, <1>b DEF PowerOn, Types, Off
  <2> QED
    BY <1>a, <1>b, <2>1 DEF Types, Number, Sums
<1>2. MarksInOrder'
  BY <1>a DEF MarksInOrder, Final
<1>3. (~refused => RecordKept)'
  BY <1>a DEF RecordKept, Final, Current, Copy, Sum, NvsNewest, DataNewest
<1>4. InBoot'
  BY <1>0, <1>a DEF InBoot, Elsewhere, Starting, Copying, OnData, Marking, OnNvs, Final, CopyAts
<1> QED
  BY <1>1, <1>2, <1>3, <1>4

LEMMA FormatKeeps == IInv /\ Format => IInv'
<1> SUFFICES ASSUME IInv, Format PROVE IInv'
  OBVIOUS
<1> USE DEF IInv
<1>a. UNCHANGED <<nvs, newest, saves, cuts, wipes>> /\ refused' /\ boot.at = "start" /\ ~nvs.moved
  BY DEF Format, History, NvsStore
<1>b. boot \in Boots /\ boot # Off
  BY <1>a, Booted
<1>c. /\ faults' \in Nat
      /\ data' \in {data, BlankData}
      /\ \E up \in {"ok", "formatted"} : boot' = [boot EXCEPT !.dataUp = up]
  BY DEF Format, Fine, Fault, Types
<1>1. Types'
  <2>1. boot' \in Boots /\ boot'.at # "run" /\ boot.at # "run"
    BY <1>a, <1>b, <1>c DEF Boots
  <2>2. BlankData \in [pool : Number, shadow : Number, live : BOOLEAN, done : BOOLEAN, src : Sums]
    BY DEF BlankData, Types, Number, Sums
  <2> QED
    BY <1>a, <1>c, <2>1, <2>2 DEF Types, Number, Sums
<1>2. MarksInOrder'
  BY <1>a, <1>c DEF MarksInOrder, BlankData
<1>4. InBoot'
  BY <1>a, <1>b, <1>c DEF InBoot, Elsewhere, Starting, Copying, OnData, Marking, OnNvs, CopyAts, Boots
<1> QED
  BY <1>a, <1>1, <1>2, <1>4

LEMMA UnusableKeeps == IInv /\ Unusable => IInv'
<1> SUFFICES ASSUME IInv, Unusable PROVE IInv'
  OBVIOUS
<1>1. Unwritten /\ faults' = faults /\ boot.at = "start" /\ boot.dataUp # "ok"
  BY DEF Unusable, Unwritten, Fine, History, IInv, Types
<1>2. boot \in Boots /\ boot # Off
  BY <1>1, Booted DEF IInv
<1>3. CASE BeforeMove
  <2>1. boot' = [boot EXCEPT !.at = "open", !.part = "nvs"]
    BY <1>3 DEF Unusable, OpenOn
  <2>2. ~refused => ~Final /\ NvsNewest
    BY <1>1, <1>2, <1>3, SumIsNoBlank
       DEF IInv, BeforeMove, NvsStore, NewerCopy, RecordKept, Final, InBoot, Starting
  <2>3. boot' \in Boots /\ boot'.at = "open"
    BY <1>2, <2>1 DEF Boots, Ats
  <2>4. InBoot'
    BY <1>1, <1>2, <2>1, <2>2
       DEF IInv, InBoot, Elsewhere, Starting, Copying, OnData, Marking, OnNvs, CopyAts, Boots, Unwritten, Final, NvsNewest
  <2> QED
    BY <1>1, <1>2, <2>3, <2>4, UnwrittenKeeps
<1>4. CASE ~BeforeMove
  <2>1. boot' = [boot EXCEPT !.at = "run", !.part = "data"]
    BY <1>4 DEF Unusable, ShutOn
  <2>3. boot' \in Boots /\ boot'.at = "run"
    BY <1>2, <2>1 DEF Boots, Ats
  <2>4. InBoot'
    BY <1>1, <1>2, <2>1
       DEF IInv, InBoot, Elsewhere, Starting, Copying, OnData, Marking, OnNvs, CopyAts, Boots, Unwritten
  <2> QED
    BY <1>1, <1>2, <2>3, <2>4, UnwrittenKeeps
<1> QED
  BY <1>3, <1>4

LEMMA AfterMoveKeeps == IInv /\ AfterMove => IInv'
<1> SUFFICES ASSUME IInv, AfterMove PROVE IInv'
  OBVIOUS
<1>1. Unwritten /\ faults' = faults /\ boot.at = "start" /\ boot.dataUp = "ok" /\ Final
  BY DEF AfterMove, Usable, Unwritten, Fine, History, IInv, Types, Moved, Final
<1>2. boot \in Boots /\ boot # Off
  BY <1>1, Booted DEF IInv
<1>3. CASE data.done
  <2>1. boot' = [boot EXCEPT !.at = "marks", !.part = "data", !.mark = "live"]
    BY <1>3 DEF AfterMove
  <2>2. boot' \in Boots
    BY <1>2, <2>1 DEF Boots, Ats
  <2>3. InBoot'
    BY <1>1, <1>2, <1>3, <2>1
       DEF IInv, InBoot, Elsewhere, Starting, Copying, OnData, Marking, OnNvs, CopyAts, Boots, Unwritten, Final
  <2> QED
    BY <1>1, <1>2, <2>2, <2>3, UnwrittenKeeps
<1>4. CASE ~data.done
  <2>1. boot' = [boot EXCEPT !.at = "run", !.part = "data"]
    BY <1>4 DEF AfterMove, ShutOn
  <2>2. boot' \in Boots
    BY <1>2, <2>1 DEF Boots, Ats
  <2>3. InBoot'
    BY <1>1, <1>2, <1>4, <2>1
       DEF IInv, InBoot, Elsewhere, Starting, Copying, OnData, Marking, OnNvs, CopyAts, Boots, Unwritten, Final
  <2> QED
    BY <1>1, <1>2, <2>2, <2>3, UnwrittenKeeps
<1> QED
  BY <1>3, <1>4

LEMMA ChooseKeeps == IInv /\ Choose => IInv'
<1> SUFFICES ASSUME IInv, Choose PROVE IInv'
  OBVIOUS
<1>1. Unwritten /\ faults' = faults /\ boot.at = "start" /\ boot.dataUp = "ok" /\ ~Moved /\ ~data.live
  BY DEF Choose, Usable, Unwritten, Fine, History, IInv, Types
<1>2. boot \in Boots /\ boot # Off
  BY <1>1, Booted DEF IInv
<1>3. CASE /\ ~boot.nvsUp
           /\ boot' = [boot EXCEPT !.at = "open", !.part = "nvs"]
  <2>1. boot' \in Boots
    BY <1>2, <1>3 DEF Boots, Ats, CopyAts
  <2>2. InBoot'
    BY <1>1, <1>2, <1>3
       DEF IInv, InBoot, Elsewhere, Starting, Copying, OnData, Marking, OnNvs, CopyAts, Boots, Unwritten, Final
  <2> QED
    BY <1>1, <1>2, <1>3, <2>1, <2>2, UnwrittenKeeps
<1>4. CASE /\ boot.nvsUp /\ ~boot.read /\ ~Copy
           /\ boot' = [boot EXCEPT !.at = "open", !.part = "nvs"]
  <2>1. boot' \in Boots
    BY <1>2, <1>4 DEF Boots, Ats, CopyAts
  <2>2. InBoot'
    BY <1>1, <1>2, <1>4
       DEF IInv, InBoot, Elsewhere, Starting, Copying, OnData, Marking, OnNvs, CopyAts, Boots, Unwritten, Final, Moved, RecordKept, Current, NvsNewest
  <2> QED
    BY <1>1, <1>2, <1>4, <2>1, <2>2, UnwrittenKeeps
<1>5. CASE /\ ~boot.read
           /\ boot' = [boot EXCEPT !.at = "run", !.part = "data"]
  <2>1. boot' \in Boots
    BY <1>2, <1>5 DEF Boots, Ats, CopyAts
  <2>2. InBoot'
    BY <1>1, <1>2, <1>5
       DEF IInv, InBoot, Elsewhere, Starting, Copying, OnData, Marking, OnNvs, CopyAts, Boots, Unwritten, Final
  <2> QED
    BY <1>1, <1>2, <1>5, <2>1, <2>2, UnwrittenKeeps
<1>6. CASE /\ boot.nvsUp /\ boot.read /\ Current /\ nvs.copied = data.src
           /\ boot' = [boot EXCEPT !.at = "settle"]
  <2>1. boot' \in Boots
    BY <1>2, <1>6 DEF Boots, Ats, CopyAts
  <2>2. InBoot'
    BY <1>1, <1>2, <1>6
       DEF IInv, InBoot, Elsewhere, Starting, Copying, OnData, Marking, OnNvs, CopyAts, Boots, Unwritten, Final, Moved, Current, Copy, Sum
  <2> QED
    BY <1>1, <1>2, <1>6, <2>1, <2>2, UnwrittenKeeps
<1>7. CASE /\ boot.nvsUp /\ boot.read /\ Current /\ nvs.copied # data.src
           /\ boot' = [boot EXCEPT !.at = "copied"]
  <2>1. boot' \in Boots
    BY <1>2, <1>7 DEF Boots, Ats, CopyAts
  <2>2. InBoot'
    BY <1>1, <1>2, <1>7
       DEF IInv, InBoot, Elsewhere, Starting, Copying, OnData, Marking, OnNvs, CopyAts, Boots, Unwritten, Final, Moved, Current, Copy, Sum
  <2> QED
    BY <1>1, <1>2, <1>7, <2>1, <2>2, UnwrittenKeeps
<1>8. CASE /\ boot.nvsUp /\ boot.read /\ ~Current
           /\ boot' = [boot EXCEPT !.at = "clear"]
  <2>1. boot' \in Boots
    BY <1>2, <1>8 DEF Boots, Ats, CopyAts
  <2>2. InBoot'
    BY <1>1, <1>2, <1>8
       DEF IInv, InBoot, Elsewhere, Starting, Copying, OnData, Marking, OnNvs, CopyAts, Boots, Unwritten, Final, Moved, Current, Copy, Sum
  <2> QED
    BY <1>1, <1>2, <1>8, <2>1, <2>2, UnwrittenKeeps
<1> QED
  BY <1>3, <1>4, <1>5, <1>6, <1>7, <1>8 DEF Choose, OpenOn, ShutOn

-----------------------------------------------------------------------------
\* The copy.  A write that fails leaves nvs the store of record.
LEMMA CopyFails ==
    ASSUME IInv, boot.at \in CopyAts, Fault, OpenOn("nvs"), UNCHANGED <<nvs, data, refused, History>>
    PROVE  IInv'
<1>1. Unwritten /\ faults' = faults + 1 /\ faults \in Nat
  BY DEF Unwritten, History, Fault, IInv, Types
<1>2. boot \in Boots /\ boot # Off /\ boot.at # "run"
  BY Booted DEF IInv, CopyAts
<1>3. boot' \in Boots /\ boot' = [boot EXCEPT !.at = "open", !.part = "nvs"]
  BY <1>2 DEF OpenOn, Boots, Ats
<1>4. ~Final /\ boot.mark = "none" /\ (~refused => NvsNewest)
  BY <1>2 DEF IInv, InBoot, Copying, RecordKept
<1>5. InBoot'
  BY <1>1, <1>2, <1>3, <1>4
     DEF IInv, InBoot, Elsewhere, Starting, Copying, OnData, Marking, OnNvs, CopyAts, Boots, Unwritten, Final, NvsNewest
<1> QED
  BY <1>1, <1>2, <1>3, <1>5, UnwrittenKeeps

DataType == [pool : Number, shadow : Number, live : BOOLEAN, done : BOOLEAN, src : Sums]

\* A write before "done" leaves a copy that does not count.
LEMMA CopyGoesOn ==
    ASSUME IInv, boot.at \in CopyAts, NEW next \in CopyAts \ {"clear"}, StepTo(next),
           UNCHANGED <<nvs, refused, faults, History>>,
           data' \in DataType, data'.live = data.live, ~data'.done, data.src # NoSum => data'.src # NoSum,
           next \in {"beginShadow", "copyShadow", "src", "done"} => data'.pool = nvs.pool,
           next \in {"src", "done"} => data'.shadow = nvs.shadow,
           next = "done" => data'.src = Sum(nvs)
    PROVE  IInv'
<1>1. boot \in Boots /\ boot # Off /\ boot.at # "run" /\ boot' = [boot EXCEPT !.at = next]
  BY Booted DEF IInv, CopyAts, StepTo
<1>2. boot' \in Boots /\ boot'.at = next
  BY <1>1 DEF Boots, Ats
<1>3. Types'
  BY <1>1, <1>2, TypesKept DEF IInv, Types, History, DataType
<1>4. ~Final /\ ~Final' /\ ~Current /\ ~Current' /\ boot.mark = "none"
  BY <1>1 DEF IInv, InBoot, Copying, Final, Current, Copy
<1>5. MarksInOrder'
  BY <1>4 DEF IInv, MarksInOrder, Final, History
<1>6. (~refused => RecordKept)'
  BY <1>4 DEF IInv, RecordKept, NvsNewest, History
<1>7. Copying' /\ Elsewhere'
  BY <1>1, <1>2, <1>4
     DEF IInv, InBoot, Elsewhere, Copying, CopyAts, Boots, Sum, Final
<1>8. InBoot'
  BY <1>1, <1>2, <1>4, <1>7 DEF IInv, InBoot, Starting, OnData, Marking, OnNvs, CopyAts, Boots
<1> QED
  BY <1>3, <1>5, <1>6, <1>8 DEF IInv

NvsType == [pool : Number, shadow : Number, moved : BOOLEAN, copied : Sums]

LEMMA Contents ==
    ASSUME IInv
    PROVE  /\ 0 \in Number /\ Torn \in Number /\ nvs.pool \in Number /\ nvs.shadow \in Number
           /\ data \in DataType /\ nvs \in NvsType /\ Sum(nvs) \in Sums /\ faults \in Nat /\ refused \in BOOLEAN
  BY DEF IInv, Types, Number, Torn, DataType, NvsType, Sums, Sum

LEMMA CopyStepsKeep == IInv /\ CopySteps => IInv'
<1> SUFFICES ASSUME IInv, CopySteps PROVE IInv'
  OBVIOUS
<1>0. Copying /\ boot \in Boots \cup {Off} /\ Sum(nvs) # NoSum
  BY OnIsBooted, SumIsNoBlank DEF IInv, InBoot, Types, Copying, CopyAts, Off
<1>1. CASE CopyWrite("clear", "erasePool", DoneCleared)
  <2>1. CASE Fine /\ StepTo("erasePool") /\ data' = DoneCleared
    <3>1. /\ data' \in DataType /\ data'.live = data.live /\ ~data'.done /\ (data.src # NoSum => data'.src # NoSum)
          /\ "erasePool" \in {"beginShadow", "copyShadow", "src", "done"} => data'.pool = nvs.pool
          /\ "erasePool" \in {"src", "done"} => data'.shadow = nvs.shadow
          /\ "erasePool" = "done" => data'.src = Sum(nvs)
      BY <1>0, <1>1, <2>1, Contents DEF CopyWrite, Copying, CopyAts, DataType, DoneCleared
    <3> QED
      BY <1>1, <2>1, <3>1, CopyGoesOn DEF CopyWrite, Fine, CopyAts, History
  <2> QED
    BY <1>1, <2>1, CopyFails DEF CopyWrite, CopyAts
<1>2. CASE CopyWrite("erasePool", "eraseShadow", [data EXCEPT !.pool = 0])
  <2>1. CASE Fine /\ StepTo("eraseShadow") /\ data' = [data EXCEPT !.pool = 0]
    <3>1. /\ data' \in DataType /\ data'.live = data.live /\ ~data'.done /\ (data.src # NoSum => data'.src # NoSum)
          /\ "eraseShadow" \in {"beginShadow", "copyShadow", "src", "done"} => data'.pool = nvs.pool
          /\ "eraseShadow" \in {"src", "done"} => data'.shadow = nvs.shadow
          /\ "eraseShadow" = "done" => data'.src = Sum(nvs)
      BY <1>0, <1>2, <2>1, Contents DEF CopyWrite, Copying, CopyAts, DataType, DoneCleared
    <3> QED
      BY <1>2, <2>1, <3>1, CopyGoesOn DEF CopyWrite, Fine, CopyAts, History
  <2> QED
    BY <1>2, <2>1, CopyFails DEF CopyWrite, CopyAts
<1>3. CASE CopyWrite("eraseShadow", "beginPool", [data EXCEPT !.shadow = 0])
  <2>1. CASE Fine /\ StepTo("beginPool") /\ data' = [data EXCEPT !.shadow = 0]
    <3>1. /\ data' \in DataType /\ data'.live = data.live /\ ~data'.done /\ (data.src # NoSum => data'.src # NoSum)
          /\ "beginPool" \in {"beginShadow", "copyShadow", "src", "done"} => data'.pool = nvs.pool
          /\ "beginPool" \in {"src", "done"} => data'.shadow = nvs.shadow
          /\ "beginPool" = "done" => data'.src = Sum(nvs)
      BY <1>0, <1>3, <2>1, Contents DEF CopyWrite, Copying, CopyAts, DataType, DoneCleared
    <3> QED
      BY <1>3, <2>1, <3>1, CopyGoesOn DEF CopyWrite, Fine, CopyAts, History
  <2> QED
    BY <1>3, <2>1, CopyFails DEF CopyWrite, CopyAts
<1>4. CASE CopyWrite("beginPool", "copyPool", [data EXCEPT !.pool = IF nvs.pool = 0 THEN 0 ELSE Torn])
  <2>1. CASE Fine /\ StepTo("copyPool") /\ data' = [data EXCEPT !.pool = IF nvs.pool = 0 THEN 0 ELSE Torn]
    <3>1. /\ data' \in DataType /\ data'.live = data.live /\ ~data'.done /\ (data.src # NoSum => data'.src # NoSum)
          /\ "copyPool" \in {"beginShadow", "copyShadow", "src", "done"} => data'.pool = nvs.pool
          /\ "copyPool" \in {"src", "done"} => data'.shadow = nvs.shadow
          /\ "copyPool" = "done" => data'.src = Sum(nvs)
      BY <1>0, <1>4, <2>1, Contents DEF CopyWrite, Copying, CopyAts, DataType, DoneCleared
    <3> QED
      BY <1>4, <2>1, <3>1, CopyGoesOn DEF CopyWrite, Fine, CopyAts, History
  <2> QED
    BY <1>4, <2>1, CopyFails DEF CopyWrite, CopyAts
<1>5. CASE CopyWrite("copyPool", "beginShadow", [data EXCEPT !.pool = nvs.pool])
  <2>1. CASE Fine /\ StepTo("beginShadow") /\ data' = [data EXCEPT !.pool = nvs.pool]
    <3>1. /\ data' \in DataType /\ data'.live = data.live /\ ~data'.done /\ (data.src # NoSum => data'.src # NoSum)
          /\ "beginShadow" \in {"beginShadow", "copyShadow", "src", "done"} => data'.pool = nvs.pool
          /\ "beginShadow" \in {"src", "done"} => data'.shadow = nvs.shadow
          /\ "beginShadow" = "done" => data'.src = Sum(nvs)
      BY <1>0, <1>5, <2>1, Contents DEF CopyWrite, Copying, CopyAts, DataType, DoneCleared
    <3> QED
      BY <1>5, <2>1, <3>1, CopyGoesOn DEF CopyWrite, Fine, CopyAts, History
  <2> QED
    BY <1>5, <2>1, CopyFails DEF CopyWrite, CopyAts
<1>6. CASE CopyWrite("beginShadow", "copyShadow", [data EXCEPT !.shadow = IF nvs.shadow = 0 THEN 0 ELSE Torn])
  <2>1. CASE Fine /\ StepTo("copyShadow") /\ data' = [data EXCEPT !.shadow = IF nvs.shadow = 0 THEN 0 ELSE Torn]
    <3>1. /\ data' \in DataType /\ data'.live = data.live /\ ~data'.done /\ (data.src # NoSum => data'.src # NoSum)
          /\ "copyShadow" \in {"beginShadow", "copyShadow", "src", "done"} => data'.pool = nvs.pool
          /\ "copyShadow" \in {"src", "done"} => data'.shadow = nvs.shadow
          /\ "copyShadow" = "done" => data'.src = Sum(nvs)
      BY <1>0, <1>6, <2>1, Contents DEF CopyWrite, Copying, CopyAts, DataType, DoneCleared
    <3> QED
      BY <1>6, <2>1, <3>1, CopyGoesOn DEF CopyWrite, Fine, CopyAts, History
  <2> QED
    BY <1>6, <2>1, CopyFails DEF CopyWrite, CopyAts
<1>7. CASE CopyWrite("copyShadow", "src", [data EXCEPT !.shadow = nvs.shadow])
  <2>1. CASE Fine /\ StepTo("src") /\ data' = [data EXCEPT !.shadow = nvs.shadow]
    <3>1. /\ data' \in DataType /\ data'.live = data.live /\ ~data'.done /\ (data.src # NoSum => data'.src # NoSum)
          /\ "src" \in {"beginShadow", "copyShadow", "src", "done"} => data'.pool = nvs.pool
          /\ "src" \in {"src", "done"} => data'.shadow = nvs.shadow
          /\ "src" = "done" => data'.src = Sum(nvs)
      BY <1>0, <1>7, <2>1, Contents DEF CopyWrite, Copying, CopyAts, DataType, DoneCleared
    <3> QED
      BY <1>7, <2>1, <3>1, CopyGoesOn DEF CopyWrite, Fine, CopyAts, History
  <2> QED
    BY <1>7, <2>1, CopyFails DEF CopyWrite, CopyAts
<1>8. CASE CopyWrite("src", "done", [data EXCEPT !.src = Sum(nvs)])
  <2>1. CASE Fine /\ StepTo("done") /\ data' = [data EXCEPT !.src = Sum(nvs)]
    <3>1. /\ data' \in DataType /\ data'.live = data.live /\ ~data'.done /\ (data.src # NoSum => data'.src # NoSum)
          /\ "done" \in {"beginShadow", "copyShadow", "src", "done"} => data'.pool = nvs.pool
          /\ "done" \in {"src", "done"} => data'.shadow = nvs.shadow
          /\ "done" = "done" => data'.src = Sum(nvs)
      BY <1>0, <1>8, <2>1, Contents DEF CopyWrite, Copying, CopyAts, DataType, DoneCleared
    <3> QED
      BY <1>8, <2>1, <3>1, CopyGoesOn DEF CopyWrite, Fine, CopyAts, History
  <2> QED
    BY <1>8, <2>1, CopyFails DEF CopyWrite, CopyAts
<1>9. CASE CopyWrite("done", "copied", [data EXCEPT !.done = TRUE])
  <2>1. CASE Fine /\ StepTo("copied") /\ data' = [data EXCEPT !.done = TRUE]
    <3>0. boot.at = "done" /\ boot \in Boots /\ boot # Off /\ UNCHANGED <<nvs, refused, faults, History>>
      BY <1>9, <2>1, Booted DEF CopyWrite, Fine, IInv
    <3>1. boot' = [boot EXCEPT !.at = "copied"] /\ boot' \in Boots
      BY <2>1, <3>0 DEF StepTo, Boots, Ats
    <3>2. /\ data' \in DataType /\ data'.done /\ data'.live = data.live /\ data'.pool = nvs.pool /\ data'.shadow = nvs.shadow
          /\ data'.src = Sum(nvs)
      BY <1>0, <2>1, <3>0, Contents DEF Copying, CopyAts, DataType
    <3>3. ~Final /\ ~Final' /\ ~Current /\ Current' /\ boot.mark = "none"
      BY <1>0, <3>0, <3>2 DEF Copying, CopyAts, Final, Current, Copy, Sum
    <3>4. Types'
      BY <3>0, <3>1, <3>2, TypesKept DEF IInv, Types, History, DataType
    <3>5. MarksInOrder'
      BY <1>0, <3>0, <3>2, <3>3 DEF IInv, MarksInOrder, Final, History
    <3>6. (~refused => RecordKept)'
      BY <3>0, <3>2, <3>3 DEF IInv, RecordKept, NvsNewest, DataNewest, History
    <3>7. InBoot'
      BY <3>0, <3>1, <3>2, <3>3
         DEF IInv, InBoot, Elsewhere, Starting, Copying, OnData, Marking, OnNvs, CopyAts, Boots, Final, History
    <3> QED
      BY <3>4, <3>5, <3>6, <3>7 DEF IInv
  <2> QED
    BY <1>9, <2>1, CopyFails DEF CopyWrite, CopyAts
<1> QED
  BY <1>1, <1>2, <1>3, <1>4, <1>5, <1>6, <1>7, <1>8, <1>9 DEF CopySteps

-----------------------------------------------------------------------------
\* The marks.
LEMMA RecordCopyKeeps == IInv /\ RecordCopy => IInv'
<1> SUFFICES ASSUME IInv, RecordCopy PROVE IInv'
  OBVIOUS
<1>1. /\ boot.at = "copied" /\ boot' = [boot EXCEPT !.at = "settle"] /\ boot \in Boots /\ boot # Off
      /\ UNCHANGED <<data, History>>
  BY Booted DEF RecordCopy, StepTo, IInv
<1>2. ~Final /\ Current /\ boot.mark = "none" /\ boot' \in Boots /\ data.src # NoSum
  BY <1>1 DEF IInv, InBoot, Copying, Boots, Ats, Current, Copy
<1>3. CASE Fine /\ nvs' = [nvs EXCEPT !.copied = data.src] /\ UNCHANGED refused
  <2>1. nvs' \in NvsType /\ nvs'.pool = nvs.pool /\ nvs'.shadow = nvs.shadow /\ nvs'.moved = nvs.moved /\ nvs'.copied = data.src
    BY <1>3, Contents DEF NvsType, DataType
  <2>2. Types'
    BY <1>1, <1>2, <1>3, <2>1, TypesKept, Contents DEF IInv, History, DataType, NvsType, Fine
  <2>3. ~Final' /\ Current' /\ MarksInOrder'
    BY <1>1, <1>2, <1>3, <2>1 DEF IInv, MarksInOrder, Final, Current, Copy, Sum, History
  <2>4. (~refused => RecordKept)'
    BY <1>1, <1>2, <1>3, <2>1, <2>3 DEF IInv, RecordKept, Current, Copy, Sum, NvsNewest, DataNewest, History
  <2>5. InBoot'
    BY <1>1, <1>2, <1>3, <2>1, <2>3
       DEF IInv, InBoot, Elsewhere, Starting, Copying, OnData, Marking, OnNvs, CopyAts, Boots, Final, Fine
  <2> QED
    BY <2>2, <2>3, <2>4, <2>5 DEF IInv
<1>4. CASE Fault /\ refused' = TRUE /\ UNCHANGED nvs
  <2>1. faults' \in Nat /\ faults' > 0 /\ refused'
    BY <1>4, Contents DEF Fault
  <2>2. Types'
    BY <1>1, <1>2, <1>4, <2>1, TypesKept, Contents DEF IInv, History, DataType, NvsType
  <2>3. ~Final' /\ Current' /\ MarksInOrder'
    BY <1>1, <1>2, <1>4 DEF IInv, MarksInOrder, Final, Current, Copy, Sum, History
  <2>5. InBoot'
    BY <1>1, <1>2, <1>4, <2>1, <2>3
       DEF IInv, InBoot, Elsewhere, Starting, Copying, OnData, Marking, OnNvs, CopyAts, Boots, Final
  <2> QED
    BY <2>1, <2>2, <2>3, <2>5 DEF IInv
<1> QED
  BY <1>3, <1>4 DEF RecordCopy

LEMMA SettleKeeps == IInv /\ Settle => IInv'
<1> SUFFICES ASSUME IInv, Settle PROVE IInv'
  OBVIOUS
<1>1. /\ boot.at = "settle" /\ boot \in Boots /\ boot # Off /\ Unwritten /\ faults' = faults
  BY Booted, Contents DEF Settle, IInv, Unwritten, History, Fine
<1>2. ~Final /\ Current /\ boot.mark = "none" /\ boot.dataUp = "ok" /\ (nvs.copied = data.src \/ refused)
  BY <1>1 DEF IInv, InBoot, Copying
<1>3. CASE boot.trial
  <2>1. boot' = [boot EXCEPT !.part = "data", !.at = "open", !.mark = "none"] /\ boot' \in Boots
    BY <1>1, <1>3 DEF Settle, Boots, Ats
  <2>2. InBoot'
    BY <1>1, <1>2, <1>3, <2>1
       DEF IInv, InBoot, Elsewhere, Starting, Copying, OnData, Marking, OnNvs, CopyAts, Boots, Unwritten, Final, Current,
           Copy, Sum
  <2> QED
    BY <1>1, <2>1, <2>2, UnwrittenKeeps
<1>4. CASE ~boot.trial
  <2>1. boot' = [boot EXCEPT !.part = "data", !.at = "marks", !.mark = "live"] /\ boot' \in Boots
    BY <1>1, <1>4 DEF Settle, Boots, Ats
  <2>2. InBoot'
    BY <1>1, <1>2, <1>4, <2>1
       DEF IInv, InBoot, Elsewhere, Starting, Copying, OnData, Marking, OnNvs, CopyAts, Boots, Unwritten, Final, Current,
           Copy, Sum
  <2> QED
    BY <1>1, <2>1, <2>2, UnwrittenKeeps
<1> QED
  BY <1>3, <1>4

\* While a mark is to be written the copy is the store of record.
LEMMA WhileMarking ==
    ASSUME IInv, boot.at # "off", boot.mark # "none"
    PROVE  /\ boot \in Boots /\ boot # Off /\ boot.build = "this" /\ boot.part = "data" /\ boot.dataUp = "ok"
           /\ boot.at = "marks" \/ boot.ready
           /\ boot.at \in {"marks", "run"} /\ data.done
           /\ ~refused => DataNewest /\ (nvs.moved \/ nvs.pool = 0 \/ nvs.copied = Sum(nvs))
<1>1. boot \in Boots /\ boot # Off
  BY Booted DEF IInv
<1>2. /\ boot.build = "this" /\ boot.part = "data" /\ (boot.at = "marks" \/ boot.ready) /\ boot.at \in {"marks", "run"}
      /\ boot.dataUp = "ok" /\ data.done
      /\ refused \/ Final \/ (Current /\ nvs.copied = data.src)
  BY <1>1 DEF IInv, InBoot, Elsewhere, Starting, OnData, Boots
<1> QED
  BY <1>1, <1>2 DEF IInv, RecordKept, Current

LEMMA MarkLiveKeeps == IInv /\ MarkLive => IInv'
<1> SUFFICES ASSUME IInv, MarkLive PROVE IInv'
  OBVIOUS
<1>1. /\ boot.at # "off" /\ boot.mark = "live" /\ boot' = [boot EXCEPT !.mark = "moved"]
      /\ UNCHANGED <<nvs, refused, History>>
  BY DEF MarkLive, NextMark
<1>2. /\ boot \in Boots /\ boot # Off /\ boot.build = "this" /\ boot.part = "data" /\ boot.dataUp = "ok"
      /\ boot.at = "marks" \/ boot.ready
      /\ boot.at \in {"marks", "run"} /\ data.done
      /\ ~refused => DataNewest /\ (nvs.moved \/ nvs.pool = 0 \/ nvs.copied = Sum(nvs))
  BY <1>1, WhileMarking
<1>3. boot' \in Boots
  BY <1>1, <1>2 DEF Boots
<1>4. CASE Fine /\ data' = [data EXCEPT !.live = TRUE]
  <2>1. /\ data' \in DataType /\ data'.live /\ data'.done /\ data'.pool = data.pool /\ data'.shadow = data.shadow
        /\ data'.src = data.src
    BY <1>2, <1>4, Contents DEF DataType
  <2>2. Types'
    BY <1>1, <1>2, <1>3, <1>4, <2>1, TypesKept, Contents DEF IInv, History, DataType, NvsType, Fine
  <2>3. Final' /\ MarksInOrder'
    BY <1>1, <1>2, <2>1 DEF IInv, MarksInOrder, Final, History
  <2>4. (~refused => RecordKept)'
    BY <1>1, <1>2, <2>1, <2>3 DEF RecordKept, Sum, DataNewest, History
  <2>5. InBoot'
    BY <1>1, <1>2, <1>4, <2>1, <2>3
       DEF IInv, InBoot, Elsewhere, Starting, Copying, OnData, Marking, OnNvs, CopyAts, Boots, Fine
  <2> QED
    BY <2>2, <2>3, <2>4, <2>5 DEF IInv
<1>5. CASE Fault /\ UNCHANGED data
  <2>1. faults' \in Nat /\ faults' > 0 /\ faults' >= faults
    BY <1>5, Contents DEF Fault
  <2>2. InBoot'
    BY <1>1, <1>2, <1>5, <2>1
       DEF IInv, InBoot, Elsewhere, Starting, Copying, OnData, Marking, OnNvs, CopyAts, Boots, Final, Current, Copy, Sum
  <2> QED
    BY <1>1, <1>2, <1>3, <1>5, <2>1, <2>2, UnwrittenKeeps DEF Unwritten, History
<1> QED
  BY <1>4, <1>5 DEF MarkLive

LEMMA MarkMovedKeeps == IInv /\ MarkMoved => IInv'
<1> SUFFICES ASSUME IInv, MarkMoved PROVE IInv'
  OBVIOUS
<1>1. /\ boot.at # "off" /\ boot.mark = "moved" /\ boot' = [boot EXCEPT !.mark = "none"]
      /\ UNCHANGED <<data, History>>
  BY DEF MarkMoved, NextMark
<1>2. /\ boot \in Boots /\ boot # Off /\ boot.build = "this" /\ boot.part = "data" /\ boot.dataUp = "ok"
      /\ boot.at = "marks" \/ boot.ready
      /\ boot.at \in {"marks", "run"} /\ data.done
      /\ ~refused => DataNewest /\ (nvs.moved \/ nvs.pool = 0 \/ nvs.copied = Sum(nvs))
  BY <1>1, WhileMarking
<1>3. boot' \in Boots /\ (data.live \/ faults > 0)
  BY <1>1, <1>2 DEF Boots, IInv, InBoot, Marking
<1>4. CASE Fine /\ nvs' = [nvs EXCEPT !.moved = TRUE] /\ UNCHANGED refused
  <2>1. /\ nvs' \in NvsType /\ nvs'.moved /\ nvs'.pool = nvs.pool /\ nvs'.shadow = nvs.shadow /\ nvs'.copied = nvs.copied
    BY <1>2, <1>4, Contents DEF NvsType
  <2>2. Types'
    BY <1>1, <1>2, <1>3, <1>4, <2>1, TypesKept, Contents DEF IInv, History, DataType, NvsType, Fine
  <2>3. Final' /\ MarksInOrder'
    BY <1>1, <1>2, <1>4, <2>1 DEF IInv, MarksInOrder, Final, History
  <2>4. (~refused => RecordKept)'
    BY <1>1, <1>2, <1>4, <2>1, <2>3 DEF RecordKept, DataNewest, History
  <2>5. InBoot'
    BY <1>1, <1>2, <1>3, <1>4, <2>1, <2>3
       DEF IInv, InBoot, Elsewhere, Starting, Copying, OnData, Marking, OnNvs, CopyAts, Boots, Fine
  <2> QED
    BY <2>2, <2>3, <2>4, <2>5 DEF IInv
<1>5. CASE (Fault \/ Fine) /\ refused' = TRUE /\ UNCHANGED nvs
  <2>1. faults' \in Nat /\ refused' /\ faults' >= faults
    BY <1>5, Contents DEF Fault, Fine
  <2>2. Types'
    BY <1>1, <1>2, <1>3, <1>5, <2>1, TypesKept, Contents DEF IInv, History, DataType, NvsType
  <2>3. MarksInOrder'
    BY <1>1, <1>5, <2>1 DEF IInv, MarksInOrder, Final, History
  <2>4. faults \in Nat /\ (faults > 0 => faults' > 0)
    BY <2>1, Contents
  <2>5. InBoot'
    BY <1>1, <1>2, <1>3, <1>5, <2>1, <2>4
       DEF IInv, InBoot, Elsewhere, Starting, Copying, OnData, Marking, OnNvs, CopyAts, Boots, Final
  <2> QED
    BY <2>1, <2>2, <2>3, <2>5 DEF IInv
<1> QED
  BY <1>4, <1>5 DEF MarkMoved

LEMMA MarkedKeeps == IInv /\ Marked => IInv'
<1> SUFFICES ASSUME IInv, Marked PROVE IInv'
  OBVIOUS
<1>1. /\ boot.at = "marks" /\ boot.mark = "none" /\ boot \in Boots /\ boot # Off /\ Unwritten /\ faults' = faults
  BY Booted, Contents DEF Marked, IInv, Unwritten, History, Fine
<1>2. CASE boot' = [boot EXCEPT !.at = "eraseOld"] /\ Final
  <2>1. boot' \in Boots
    BY <1>1, <1>2 DEF Boots, Ats
  <2>2. InBoot'
    BY <1>1, <1>2
       DEF IInv, InBoot, Elsewhere, Starting, Copying, OnData, Marking, OnNvs, CopyAts, Boots, Unwritten, Final
  <2> QED
    BY <1>1, <2>1, <2>2, UnwrittenKeeps
<1>3. CASE boot' = [boot EXCEPT !.at = "open"]
  <2>1. boot' \in Boots
    BY <1>1, <1>3 DEF Boots, Ats
  <2>2. InBoot'
    BY <1>1, <1>3
       DEF IInv, InBoot, Elsewhere, Starting, Copying, OnData, Marking, OnNvs, CopyAts, Boots, Unwritten, Final, Current,
           Copy, Sum
  <2> QED
    BY <1>1, <2>1, <2>2, UnwrittenKeeps
<1> QED
  BY <1>2, <1>3 DEF Marked, StepTo, OldCopyGoes

LEMMA EraseOldKeeps == IInv /\ EraseOld => IInv'
<1> SUFFICES ASSUME IInv, EraseOld PROVE IInv'
  OBVIOUS
<1>1. /\ boot.at \in {"eraseOld", "eraseRest"} /\ boot \in Boots /\ boot # Off /\ UNCHANGED <<data, refused, History>>
  BY Booted DEF EraseOld, IInv
<1>2. /\ Final /\ boot.mark = "none" /\ boot.part = "data" /\ boot.dataUp = "ok" /\ data.done /\ (nvs.moved \/ refused)
      /\ boot.build = "this" /\ ~boot.ready
  BY <1>1 DEF IInv, InBoot, OnData, Marking, Elsewhere, Starting, Boots
<1>3. CASE Fault /\ StepTo("open") /\ UNCHANGED nvs
  <2>1. boot' = [boot EXCEPT !.at = "open"] /\ boot' \in Boots
    BY <1>1, <1>3 DEF StepTo, Boots, Ats
  <2>2. Unwritten /\ faults' > 0
    BY <1>1, <1>3, Contents DEF Fault, Unwritten, History
  <2>3. InBoot'
    BY <1>1, <1>2, <2>1, <2>2
       DEF IInv, InBoot, Elsewhere, Starting, Copying, OnData, Marking, OnNvs, CopyAts, Boots, Unwritten, Final
  <2> QED
    BY <1>1, <2>1, <2>2, <2>3, UnwrittenKeeps
<1>4. ASSUME Fine, NEW at \in {"eraseRest", "open"}, boot' = [boot EXCEPT !.at = at],
             nvs' \in NvsType, nvs'.moved = nvs.moved, nvs'.shadow \in {0, nvs.shadow}
      PROVE  IInv'
  <2>1. boot' \in Boots /\ boot'.at = at
    BY <1>1, <1>4 DEF Boots, Ats
  <2>2. Types'
    BY <1>1, <1>4, <2>1, TypesKept, Contents DEF IInv, History, DataType, NvsType, Fine
  <2>3. Final' /\ MarksInOrder'
    BY <1>1, <1>2, <1>4 DEF IInv, MarksInOrder, Final, History, Torn
  <2>4. (~refused => RecordKept)'
    BY <1>1, <1>2, <1>4, <2>3 DEF IInv, RecordKept, DataNewest, History
  <2>5. InBoot'
    BY <1>1, <1>2, <1>4, <2>1, <2>3
       DEF IInv, InBoot, Elsewhere, Starting, Copying, OnData, Marking, OnNvs, CopyAts, Boots, Fine
  <2> QED
    BY <2>2, <2>3, <2>4, <2>5 DEF IInv
<1>5. ASSUME NEW pool \in {0, Torn} PROVE [nvs EXCEPT !.pool = pool] \in NvsType
  BY Contents DEF NvsType
<1>6. [nvs EXCEPT !.shadow = 0] \in NvsType
  BY Contents DEF NvsType
<1>7. CASE boot.at = "eraseOld" /\ Fine /\ StepTo("eraseRest") /\ nvs' = [nvs EXCEPT !.pool = IF @ = 0 THEN 0 ELSE Torn]
  BY <1>4, <1>5, <1>7, Contents DEF StepTo, NvsType
<1>8. CASE boot.at = "eraseRest" /\ Fine /\ UNCHANGED boot /\ nvs' = [nvs EXCEPT !.pool = 0]
  <2>1. boot' = [boot EXCEPT !.at = "eraseRest"]
    BY <1>1, <1>8 DEF Boots
  <2> QED
    BY <1>4, <1>5, <1>8, <2>1, Contents DEF NvsType
<1>9. CASE boot.at = "eraseRest" /\ Fine /\ StepTo("open") /\ nvs' = [nvs EXCEPT !.shadow = 0]
  BY <1>4, <1>6, <1>9, Contents DEF StepTo, NvsType
<1> QED
  BY <1>3, <1>7, <1>8, <1>9 DEF EraseOld

-----------------------------------------------------------------------------
\* The saves.
LEMMA NumbersGrow ==
    ASSUME IInv, saves' = saves + 1
    PROVE  /\ saves' \in Number' /\ saves' \notin Number /\ saves' # Torn /\ saves' # 0 /\ saves' \in Nat \ {0}
           /\ Number \subseteq Number' /\ Sums \subseteq Sums'
           /\ nvs \in NvsType' /\ data \in DataType'
<1>1. /\ saves' \in Number' /\ saves' \notin Number /\ saves' # Torn /\ saves' # 0 /\ saves' \in Nat \ {0}
      /\ Number \subseteq Number'
  BY DEF IInv, Types, Number, Torn
<1>2. Sums \subseteq Sums'
  BY <1>1 DEF Sums
<1> QED
  BY <1>1, <1>2, Contents DEF NvsType, DataType

\* A save of an open store makes what it wrote the newest; a number that is new is no checksum's.
LEMMA SavedOnData ==
    ASSUME IInv, boot # Off, boot.at = "open" \/ boot.ready, boot.part = "data", saves' = saves + 1,
           NEW pool \in Number', NEW shadow \in Number', pool # Torn \/ pool = data.pool, shadow # Torn \/ shadow = data.shadow,
           data' = [data EXCEPT !.pool = pool, !.shadow = shadow], newest' = [pool |-> pool, shadow |-> {shadow}],
           UNCHANGED <<nvs, wipes, refused>>
    PROVE  /\ nvs' \in NvsType' /\ data' \in DataType' /\ newest' \in [pool : Number', shadow : SUBSET Number']
           /\ data'.done = data.done /\ data'.live = data.live /\ data'.src = data.src
           /\ MarksInOrder' /\ (~refused => RecordKept)'
<1>1. data \in DataType' /\ nvs' \in NvsType'
  BY NumbersGrow
<1>2. /\ data' \in DataType' /\ data'.pool = pool /\ data'.shadow = shadow
      /\ data'.done = data.done /\ data'.live = data.live /\ data'.src = data.src
  BY <1>1 DEF DataType
<1>3. DataNewest'
  BY <1>2 DEF DataNewest
<1>4. data.done /\ (refused \/ Final \/ (Current /\ nvs.copied = data.src))
  BY OnIsBooted DEF IInv, InBoot, OnData, Starting
<1>5. MarksInOrder'
  BY <1>2 DEF IInv, MarksInOrder, Final
<1>6. (~refused => RecordKept)'
  BY <1>2, <1>3, <1>4 DEF IInv, RecordKept, Final, Current, Copy, Sum
<1> QED
  BY <1>1, <1>2, <1>5, <1>6

LEMMA SavedOnNvs ==
    ASSUME IInv, boot # Off, boot.at = "open" \/ boot.ready, boot.part = "nvs", boot.nvsUp, ~(boot.build = "bare" /\ nvs.moved),
           saves' = saves + 1,
           NEW pool \in Number', NEW shadow \in Number', pool = saves' \/ (pool = nvs.pool /\ shadow = saves' /\ boot.ready),
           shadow \in {saves', nvs.shadow},
           nvs' = [nvs EXCEPT !.pool = pool, !.shadow = shadow], newest' = [pool |-> pool, shadow |-> {shadow}],
           UNCHANGED <<data, wipes, refused>>
    PROVE  /\ nvs' \in NvsType' /\ data' \in DataType' /\ newest' \in [pool : Number', shadow : SUBSET Number']
           /\ nvs'.moved = nvs.moved /\ nvs'.copied = nvs.copied /\ NvsNewest' /\ (~refused => ~Final)
           /\ nvs'.pool = pool
           /\ MarksInOrder' /\ (~refused => RecordKept)'
<1>1. nvs \in NvsType' /\ data' \in DataType' /\ saves' # Torn /\ saves' # 0 /\ saves' \notin Number
  BY NumbersGrow
<1>2. /\ nvs' \in NvsType' /\ nvs'.pool = pool /\ nvs'.shadow = shadow
      /\ nvs'.moved = nvs.moved /\ nvs'.copied = nvs.copied
  BY <1>1 DEF NvsType
<1>3. NvsNewest'
  BY <1>2 DEF NvsNewest
<1>4. (~refused => ~Final) /\ (boot.ready /\ ~refused => nvs.pool # 0)
  BY OnIsBooted DEF IInv, InBoot, OnNvs, Elsewhere, Starting
<1>5. MarksInOrder'
  BY <1>1, <1>2, <1>4 DEF IInv, MarksInOrder, Final
<1>6. ASSUME ~refused PROVE data.src # Sum(nvs') /\ nvs'.pool # 0
  <2>1. data.src = NoSum \/ data.src \in Number \X Number
    BY Contents DEF DataType, Sums
  <2>2. Sum(nvs') = <<pool, shadow>> /\ (pool \notin Number \/ shadow \notin Number)
    BY <1>1, <1>2 DEF Sum
  <2>3. <<pool, shadow>> # NoSum /\ <<pool, shadow>> \notin Number \X Number
    BY <2>2 DEF NoSum
  <2>4. Sum(nvs') # data.src
    BY <2>1, <2>2, <2>3
  <2> QED
    BY <1>1, <1>2, <1>4, <1>6, <2>4
<1>7. (~refused => RecordKept)'
  BY <1>2, <1>3, <1>4, <1>6 DEF RecordKept, Final, Current, Copy
<1> QED
  BY <1>1, <1>2, <1>3, <1>4, <1>5, <1>7

LEMMA OpenKeeps == IInv /\ Open => IInv'
<1> SUFFICES ASSUME IInv, Open PROVE IInv'
  OBVIOUS
<1> DEFINE opens == PartUp /\ ~(boot.build = "bare" /\ nvs.moved)
<1>1. /\ boot.at = "open" /\ boot' = [boot EXCEPT !.at = "run", !.ready = opens] /\ boot \in Boots /\ boot # Off
      /\ UNCHANGED <<cuts, wipes>>
  BY Booted DEF Open, IInv
<1>2. opens \in BOOLEAN
  BY DEF PartUp
<1>3. boot' \in Boots /\ boot'.ready = opens
  BY <1>1, <1>2 DEF Boots, Ats
<1>4. /\ boot.part = "data" => opens /\ boot.build = "this"
      /\ boot.part = "nvs" /\ opens => boot.nvsUp
      /\ boot.part = "nvs" /\ ~opens => ~boot.nvsUp \/ (boot.build = "bare" /\ nvs.moved)
      /\ boot.mark = "none" /\ ~boot.ready
  BY <1>1 DEF IInv, InBoot, OnData, Elsewhere, PartUp, Starting, Boots
<1>5. saves <= MaxSaves + cuts /\ saves \in Nat /\ cuts \in Nat /\ cuts <= MaxCuts
  BY <1>1 DEF IInv, Types
<1> HIDE DEF opens
<1>6. CASE /\ opens /\ Here.pool = 0 /\ Fine /\ saves' = saves + 1 /\ Write([Here EXCEPT !.pool = saves'])
           /\ newest' = Wanted([Content(Here) EXCEPT !.pool = saves']) /\ UNCHANGED refused
  <2>1. newest' = [pool |-> saves', shadow |-> {Here.shadow}]
    BY <1>6 DEF Wanted, Content
  <2>2. saves' \in Number' /\ saves' # Torn /\ saves' # 0 /\ saves' \in Nat \ {0} /\ Number \subseteq Number'
    BY <1>6, NumbersGrow
  <2>3. CASE boot.part = "data"
    <3>1. data' = [data EXCEPT !.pool = saves', !.shadow = data.shadow] /\ nvs' = nvs /\ data.shadow \in Number'
      BY <1>6, <2>2, <2>3, Contents DEF Write, Here, DataType
    <3>2. /\ nvs' \in NvsType' /\ data' \in DataType' /\ newest' \in [pool : Number', shadow : SUBSET Number']
          /\ data'.done = data.done /\ data'.live = data.live /\ data'.src = data.src
          /\ MarksInOrder' /\ (~refused => RecordKept)'
      BY <1>1, <1>6, <2>1, <2>2, <2>3, <3>1, SavedOnData DEF Here
    <3>3. Types'
      BY <1>1, <1>3, <1>5, <1>6, <2>2, <3>2 DEF IInv, Types, Fine, DataType, NvsType
    <3>4. InBoot'
      BY <1>1, <1>3, <1>4, <1>6, <2>3, <3>1, <3>2
         DEF IInv, InBoot, Elsewhere, Starting, Copying, OnData, Marking, OnNvs, CopyAts, Boots, Final, Current, Copy, Sum,
             Fine
    <3> QED
      BY <3>2, <3>3, <3>4 DEF IInv
  <2>4. CASE boot.part = "nvs"
    <3>1. nvs' = [nvs EXCEPT !.pool = saves', !.shadow = nvs.shadow] /\ data' = data /\ nvs.shadow \in Number'
      BY <1>6, <2>2, <2>4, Contents DEF Write, Here, NvsType
    <3>2. ~(boot.build = "bare" /\ nvs.moved)
      BY <1>6 DEF opens
    <3>3. /\ nvs' \in NvsType' /\ data' \in DataType' /\ newest' \in [pool : Number', shadow : SUBSET Number']
          /\ nvs'.moved = nvs.moved /\ nvs'.copied = nvs.copied /\ NvsNewest' /\ (~refused => ~Final)
          /\ nvs'.pool = saves'
          /\ MarksInOrder' /\ (~refused => RecordKept)'
      BY <1>1, <1>4, <1>6, <2>1, <2>2, <2>4, <3>1, <3>2, SavedOnNvs DEF Here
    <3>4. Types'
      BY <1>1, <1>3, <1>5, <1>6, <2>2, <3>3 DEF IInv, Types, Fine, DataType, NvsType
    <3>5. InBoot'
      BY <1>1, <1>3, <1>4, <1>6, <2>2, <2>4, <3>1, <3>2, <3>3
         DEF IInv, InBoot, Elsewhere, Starting, Copying, OnData, Marking, OnNvs, CopyAts, Boots, Final, Fine
    <3> QED
      BY <3>3, <3>4, <3>5 DEF IInv
  <2> QED
    BY <1>1, <2>3, <2>4 DEF Boots
<1>7. CASE /\ IF opens /\ Here.pool = 0 THEN Fault /\ refused' = TRUE ELSE Fine /\ UNCHANGED refused
           /\ UNCHANGED <<nvs, data, newest, saves>>
  <2>1. faults' \in Nat /\ faults \in Nat /\ faults' >= faults
    BY <1>7, Contents DEF Fault, Fine
  <2>0. refused' \in BOOLEAN /\ (refused => refused')
    <3>1. refused' = refused \/ refused' = TRUE
      BY <1>7
    <3>2. refused \in BOOLEAN
      BY Contents
    <3>3. CASE refused' = refused
      BY <3>2, <3>3
    <3>4. CASE refused' = TRUE
      BY <3>4
    <3> QED
      BY <3>1, <3>3, <3>4
  <2>2. ~refused' /\ opens => Here.pool # 0
    BY <1>7
  <2>3. Types'
    BY <1>1, <1>3, <1>7, <2>0, <2>1, TypesKept, Contents DEF IInv, DataType, NvsType
  <2>4. MarksInOrder'
    BY <1>1, <1>7, <2>0 DEF IInv, MarksInOrder, Final
  <2>5. (~refused => RecordKept)'
    BY <1>1, <1>7, <2>0 DEF IInv, RecordKept, Final, Current, Copy, Sum, NvsNewest, DataNewest
  <2>10. Elsewhere'
    BY <1>1, <1>2, <1>3, <1>4, <1>7, <2>0 DEF IInv, InBoot, Elsewhere, Boots, Final, opens
  <2>11. Starting'
    BY <1>1, <1>3, <1>7, <2>0 DEF IInv, InBoot, Starting, Boots
  <2>12. Copying'
    BY <1>1, <1>3, <1>7 DEF Copying, CopyAts, Boots
  <2>7. OnData'
    BY <1>1, <1>3, <1>4, <1>7, <2>0 DEF IInv, InBoot, OnData, Boots, Final, Current, Copy, Sum
  <2>8. Marking'
    <3>1. faults > 0 => faults' > 0
      BY <2>1
    <3> QED
      BY <1>1, <1>3, <1>4, <1>7, <2>0, <3>1 DEF IInv, InBoot, Marking, Boots, Final
  <2>9. OnNvs'
    <3>1. faults > 0 => faults' > 0
      BY <2>1
    <3>2. boot.part = "nvs" => Here = nvs
      BY DEF Here
    <3>3. boot'.part = boot.part /\ boot'.build = boot.build /\ boot'.nvsUp = boot.nvsUp /\ boot'.read = boot.read
          /\ boot'.dataUp = boot.dataUp
      BY <1>1 DEF Boots
    <3>4. /\ boot'.part = "nvs" /\ boot'.ready => boot'.nvsUp /\ ~(boot'.build = "bare" /\ nvs'.moved)
          /\ boot'.part = "nvs" /\ boot'.ready /\ ~refused' => nvs'.pool # 0
      BY <1>2, <1>3, <1>7, <2>0, <2>2, <3>2, <3>3 DEF opens, PartUp
    <3>5. boot'.build = "this" /\ boot'.part = "nvs" /\ boot'.nvsUp => boot'.ready
      BY <1>2, <1>3, <1>4, <3>3
    <3> QED
      BY <1>1, <1>7, <2>0, <3>1, <3>3, <3>4, <3>5 DEF IInv, InBoot, OnNvs, Final, NvsNewest
  <2> QED
    BY <2>3, <2>4, <2>5, <2>10, <2>11, <2>12, <2>7, <2>8, <2>9 DEF IInv, InBoot
<1> QED
  BY <1>6, <1>7 DEF Open, opens

LEMMA SavePoolKeeps == IInv /\ SavePool => IInv'
<1> SUFFICES ASSUME IInv, SavePool PROVE IInv'
  OBVIOUS
<1>1. /\ boot.at = "run" /\ boot.ready /\ saves < MaxSaves /\ saves' = saves + 1 /\ Fine
      /\ UNCHANGED <<boot, cuts, wipes, refused>> /\ boot \in Boots /\ boot # Off
      /\ newest' = [pool |-> saves', shadow |-> {Here.shadow}]
  BY Booted DEF SavePool, IInv, Wanted, Content
<1>2. saves' \in Number' /\ saves' # Torn /\ saves' # 0 /\ saves' \in Nat \ {0} /\ Number \subseteq Number'
  BY <1>1, NumbersGrow
<1>3. saves' <= MaxSaves + cuts' + (IF boot'.at = "run" THEN 1 ELSE 0) /\ cuts \in Nat /\ cuts <= MaxCuts
  BY <1>1 DEF IInv, Types
<1>4. CASE boot.part = "data"
  <2>1. data' = [data EXCEPT !.pool = saves', !.shadow = data.shadow] /\ nvs' = nvs /\ data.shadow \in Number'
    BY <1>1, <1>2, <1>4, Contents DEF SavePool, Write, Here, DataType
  <2>2. /\ nvs' \in NvsType' /\ data' \in DataType' /\ newest' \in [pool : Number', shadow : SUBSET Number']
        /\ data'.done = data.done /\ data'.live = data.live /\ data'.src = data.src
        /\ MarksInOrder' /\ (~refused => RecordKept)'
    BY <1>1, <1>2, <1>4, <2>1, SavedOnData DEF Here
  <2>3. Types'
    BY <1>1, <1>2, <1>3, <2>2 DEF IInv, Types, Fine, DataType, NvsType
  <2>4. InBoot'
    BY <1>1, <1>4, <2>1, <2>2
       DEF IInv, InBoot, Elsewhere, Starting, Copying, OnData, Marking, OnNvs, CopyAts, Final, Current, Copy, Sum, Fine
  <2> QED
    BY <2>2, <2>3, <2>4 DEF IInv
<1>5. CASE boot.part = "nvs"
  <2>1. nvs' = [nvs EXCEPT !.pool = saves', !.shadow = nvs.shadow] /\ data' = data /\ nvs.shadow \in Number'
    BY <1>1, <1>2, <1>5, Contents DEF SavePool, Write, Here, NvsType
  <2>2. boot.nvsUp /\ ~(boot.build = "bare" /\ nvs.moved)
    BY <1>1, <1>5 DEF IInv, InBoot, OnNvs
  <2>3. /\ nvs' \in NvsType' /\ data' \in DataType' /\ newest' \in [pool : Number', shadow : SUBSET Number']
        /\ nvs'.moved = nvs.moved /\ nvs'.copied = nvs.copied /\ NvsNewest' /\ (~refused => ~Final)
        /\ nvs'.pool = saves'
        /\ MarksInOrder' /\ (~refused => RecordKept)'
    BY <1>1, <1>2, <1>5, <2>1, <2>2, SavedOnNvs DEF Here
  <2>4. Types'
    BY <1>1, <1>2, <1>3, <2>3 DEF IInv, Types, Fine, DataType, NvsType
  <2>5. InBoot'
    BY <1>1, <1>2, <1>5, <2>1, <2>2, <2>3
       DEF IInv, InBoot, Elsewhere, Starting, Copying, OnData, Marking, OnNvs, CopyAts, Final, Fine
  <2> QED
    BY <2>3, <2>4, <2>5 DEF IInv
<1> QED
  BY <1>1, <1>4, <1>5 DEF Boots

LEMMA SaveShadowKeeps == IInv /\ SaveShadow => IInv'
<1> SUFFICES ASSUME IInv, SaveShadow PROVE IInv'
  OBVIOUS
<1>1. /\ boot.at = "run" /\ PartUp /\ saves < MaxSaves /\ saves' = saves + 1 /\ Fine
      /\ UNCHANGED <<boot, cuts, wipes, refused>> /\ boot \in Boots /\ boot # Off
  BY Booted DEF SaveShadow, IInv
<1>2. saves' \in Number' /\ saves' # Torn /\ saves' # 0 /\ saves' \in Nat \ {0} /\ Number \subseteq Number'
  BY <1>1, NumbersGrow
<1>3. saves' <= MaxSaves + cuts' + (IF boot'.at = "run" THEN 1 ELSE 0) /\ cuts \in Nat /\ cuts <= MaxCuts
  BY <1>1 DEF IInv, Types
<1>4. CASE boot.ready /\ boot.part = "data"
  <2>1. data' = [data EXCEPT !.pool = data.pool, !.shadow = saves'] /\ nvs' = nvs /\ data.pool \in Number'
        /\ newest' = [pool |-> data.pool, shadow |-> {saves'}]
    BY <1>1, <1>2, <1>4, Contents DEF SaveShadow, Write, Here, DataType, Wanted, Content
  <2>2. /\ nvs' \in NvsType' /\ data' \in DataType' /\ newest' \in [pool : Number', shadow : SUBSET Number']
        /\ data'.done = data.done /\ data'.live = data.live /\ data'.src = data.src
        /\ MarksInOrder' /\ (~refused => RecordKept)'
    BY <1>1, <1>2, <1>4, <2>1, SavedOnData
  <2>3. Types'
    BY <1>1, <1>2, <1>3, <2>2 DEF IInv, Types, Fine, DataType, NvsType
  <2>4. InBoot'
    BY <1>1, <1>4, <2>1, <2>2
       DEF IInv, InBoot, Elsewhere, Starting, Copying, OnData, Marking, OnNvs, CopyAts, Final, Current, Copy, Sum, Fine
  <2> QED
    BY <2>2, <2>3, <2>4 DEF IInv
<1>5. CASE boot.ready /\ boot.part = "nvs"
  <2>1. nvs' = [nvs EXCEPT !.pool = nvs.pool, !.shadow = saves'] /\ data' = data /\ nvs.pool \in Number'
        /\ newest' = [pool |-> nvs.pool, shadow |-> {saves'}]
    BY <1>1, <1>2, <1>5, Contents DEF SaveShadow, Write, Here, NvsType, Wanted, Content
  <2>2. boot.nvsUp /\ ~(boot.build = "bare" /\ nvs.moved)
    BY <1>1, <1>5 DEF IInv, InBoot, OnNvs
  <2>3. /\ nvs' \in NvsType' /\ data' \in DataType' /\ newest' \in [pool : Number', shadow : SUBSET Number']
        /\ nvs'.moved = nvs.moved /\ nvs'.copied = nvs.copied /\ NvsNewest' /\ (~refused => ~Final)
        /\ nvs'.pool = nvs.pool
        /\ MarksInOrder' /\ (~refused => RecordKept)'
    BY <1>1, <1>2, <1>5, <2>1, <2>2, SavedOnNvs
  <2>4. Types'
    BY <1>1, <1>2, <1>3, <2>3 DEF IInv, Types, Fine, DataType, NvsType
  <2>5. InBoot'
    BY <1>1, <1>2, <1>5, <2>1, <2>2, <2>3
       DEF IInv, InBoot, Elsewhere, Starting, Copying, OnData, Marking, OnNvs, CopyAts, Final, Fine
  <2> QED
    BY <2>3, <2>4, <2>5 DEF IInv
<1>6. CASE ~boot.ready
  <2>0. /\ newest' = [newest EXCEPT !.shadow = @ \cup {saves'}] /\ newest \in [pool : Number, shadow : SUBSET Number]
        /\ Write([Here EXCEPT !.shadow = saves'])
    BY <1>6 DEF SaveShadow, IInv, Types
  <2>1. newest' \in [pool : Number', shadow : SUBSET Number'] /\ newest'.pool = newest.pool
        /\ newest'.shadow = newest.shadow \cup {saves'}
    BY <1>2, <2>0
  <2>2. CASE boot.part = "data"
    <3>1. /\ data' \in DataType' /\ nvs' = nvs /\ nvs \in NvsType' /\ data'.pool = data.pool /\ data'.shadow = saves'
          /\ data'.done = data.done /\ data'.live = data.live /\ data'.src = data.src
      <4>1. data' = [data EXCEPT !.shadow = saves'] /\ nvs' = nvs
        BY <2>0, <2>2 DEF Write, Here
      <4>2. data \in DataType' /\ nvs \in NvsType'
        BY <1>1, NumbersGrow
      <4> QED
        BY <1>2, <4>1, <4>2 DEF DataType
    <3>2. Types'
      BY <1>1, <1>2, <1>3, <2>1, <3>1 DEF IInv, Types, Fine, DataType, NvsType
    <3>3. MarksInOrder'
      BY <1>1, <1>2, <3>1 DEF IInv, MarksInOrder, Final
    <3>4. (~refused => RecordKept)'
      BY <1>1, <2>1, <3>1 DEF IInv, RecordKept, Final, Current, Copy, Sum, NvsNewest, DataNewest
    <3>5. InBoot'
      BY <1>1, <1>6, <2>2, <3>1
         DEF IInv, InBoot, Elsewhere, Starting, Copying, OnData, Marking, OnNvs, CopyAts, Final, Current, Copy, Sum, Fine
    <3> QED
      BY <3>2, <3>3, <3>4, <3>5 DEF IInv
  <2>3. CASE boot.part = "nvs"
    <3>1. boot.build # "this" /\ nvs.moved /\ boot.mark = "none"
      BY <1>1, <1>6, <2>3 DEF IInv, InBoot, Elsewhere, OnNvs, PartUp
    <3>2. /\ nvs' \in NvsType' /\ data' = data /\ data \in DataType' /\ nvs'.pool = nvs.pool /\ nvs'.shadow = saves'
          /\ nvs'.moved = nvs.moved /\ nvs'.copied = nvs.copied
      <4>1. nvs' = [nvs EXCEPT !.shadow = saves'] /\ data' = data
        BY <2>0, <2>3 DEF Write, Here
      <4>2. data \in DataType' /\ nvs \in NvsType'
        BY <1>1, NumbersGrow
      <4> QED
        BY <1>2, <4>1, <4>2 DEF NvsType
    <3>3. Types'
      BY <1>1, <1>2, <1>3, <2>1, <3>2 DEF IInv, Types, Fine, DataType, NvsType
    <3>4. MarksInOrder'
      BY <1>1, <1>2, <3>2 DEF IInv, MarksInOrder, Final
    <3>5. (~refused => RecordKept)'
      BY <1>1, <2>1, <3>1, <3>2 DEF IInv, RecordKept, Final, DataNewest
    <3>6. InBoot'
      BY <1>1, <1>6, <2>3, <3>1, <3>2
         DEF IInv, InBoot, Elsewhere, Starting, Copying, OnData, Marking, OnNvs, CopyAts, Final, Fine
    <3> QED
      BY <3>3, <3>4, <3>5, <3>6 DEF IInv
  <2> QED
    BY <1>1, <2>2, <2>3 DEF Boots
<1> QED
  BY <1>1, <1>4, <1>5, <1>6 DEF Boots

LEMMA ConfirmKeeps == IInv /\ Confirm => IInv'
<1> SUFFICES ASSUME IInv, Confirm PROVE IInv'
  OBVIOUS
<1>1. /\ boot.at = "run" /\ boot.build = "this" /\ boot.mark = "none" /\ boot \in Boots /\ boot # Off
      /\ Unwritten /\ faults' = faults
      /\ boot' = [boot EXCEPT !.trial = FALSE, !.mark = IF MayConfirm THEN "live" ELSE "none"]
  BY Booted, Contents DEF Confirm, IInv, Unwritten, History, Fine
<1>2. CASE boot.ready /\ boot.part = "data"
  <2>1. boot' = [boot EXCEPT !.trial = FALSE, !.mark = "live"] /\ boot' \in Boots
    BY <1>1, <1>2 DEF Boots, MayConfirm
  <2>2. InBoot'
    BY <1>1, <1>2, <2>1
       DEF IInv, InBoot, Elsewhere, Starting, Copying, OnData, Marking, OnNvs, CopyAts, Boots, Unwritten, Final, Current,
           Copy, Sum, NvsNewest
  <2> QED
    BY <1>1, <2>1, <2>2, UnwrittenKeeps
<1>3. CASE ~(boot.ready /\ boot.part = "data")
  <2>1. boot' = [boot EXCEPT !.trial = FALSE, !.mark = "none"] /\ boot' \in Boots
    BY <1>1, <1>3 DEF Boots, MayConfirm
  <2>2. InBoot'
    BY <1>1, <1>3, <2>1
       DEF IInv, InBoot, Elsewhere, Starting, Copying, OnData, Marking, OnNvs, CopyAts, Boots, Unwritten, Final, Current,
           Copy, Sum, NvsNewest
  <2> QED
    BY <1>1, <2>1, <2>2, UnwrittenKeeps
<1> QED
  BY <1>2, <1>3

-----------------------------------------------------------------------------
\* A restart, and a partition erased.
LEMMA CutKeeps == IInv /\ Cut => IInv'
<1> SUFFICES ASSUME IInv, Cut PROVE IInv'
  OBVIOUS
<1>1. cuts < MaxCuts /\ cuts' = cuts + 1 /\ boot' = Off /\ UNCHANGED <<nvs, data, newest, saves, wipes, refused, faults>>
  BY DEF Cut, Fine
<1>2. Types'
  <2>1. boot'.at = "off" /\ cuts' \in Nat /\ cuts' <= MaxCuts /\ saves' <= MaxSaves + cuts'
    BY <1>1 DEF IInv, Types, Off
  <2> QED
    BY <1>1, <2>1 DEF IInv, Types, Number, Sums
<1>3. MarksInOrder' /\ (~refused => RecordKept)'
  BY <1>1 DEF IInv, MarksInOrder, RecordKept, Final, Current, Copy, Sum, NvsNewest, DataNewest
<1> QED
  BY <1>1, <1>2, <1>3 DEF IInv, InBoot

LEMMA WipeNvsKeeps == IInv /\ WipeNvs => IInv'
<1> SUFFICES ASSUME IInv, WipeNvs PROVE IInv'
  OBVIOUS
<1>1. /\ boot = Off /\ wipes' = wipes + 1 /\ nvs' = BlankNvs /\ UNCHANGED <<data, boot, saves, cuts, refused, faults>>
      /\ newest' = Wanted(IF data.done THEN Content(data) ELSE Blank)
  BY DEF WipeNvs, Fine
<1>2. /\ data.done => newest' = [pool |-> data.pool, shadow |-> {data.shadow}]
      /\ ~data.done => newest' = [pool |-> 0, shadow |-> {0}]
  BY <1>1 DEF Wanted, Content, Blank
<1>3. nvs' \in NvsType /\ newest' \in [pool : Number, shadow : SUBSET Number]
  BY <1>1, <1>2, Contents DEF BlankNvs, NvsType, DataType, Sums
<1>4. Types'
  BY <1>1, <1>3 DEF IInv, Types, Number, Sums, NvsType
<1>5. MarksInOrder'
  BY <1>1 DEF IInv, MarksInOrder, Types, BlankNvs, Torn, Final
<1>6. (~refused => RecordKept)'
  BY <1>1, <1>2 DEF IInv, RecordKept, MarksInOrder, Final, Current, Copy, NvsNewest, DataNewest, BlankNvs
<1> QED
  BY <1>1, <1>4, <1>5, <1>6 DEF IInv, InBoot

LEMMA WipeDataKeeps == IInv /\ WipeData => IInv'
<1> SUFFICES ASSUME IInv, WipeData PROVE IInv'
  OBVIOUS
<1>1. /\ boot = Off /\ wipes' = wipes + 1 /\ data' = BlankData /\ UNCHANGED <<nvs, boot, saves, cuts, refused, faults>>
      /\ newest' = Wanted(IF nvs.moved THEN Blank ELSE Content(nvs))
  BY DEF WipeData, Fine
<1>2. /\ ~nvs.moved => newest' = [pool |-> nvs.pool, shadow |-> {nvs.shadow}]
      /\ nvs.moved => newest' = [pool |-> 0, shadow |-> {0}]
  BY <1>1 DEF Wanted, Content, Blank
<1>3. data' \in DataType /\ newest' \in [pool : Number, shadow : SUBSET Number]
  BY <1>1, <1>2, Contents DEF BlankData, NvsType, DataType, Sums
<1>4. Types'
  BY <1>1, <1>3 DEF IInv, Types, Number, Sums, DataType
<1>5. MarksInOrder'
  BY <1>1 DEF IInv, MarksInOrder, Types, BlankData, Torn, Final
<1>6. (~refused => RecordKept)'
  BY <1>1, <1>2 DEF IInv, RecordKept, Final, Current, Copy, NvsNewest, DataNewest, BlankData
<1> QED
  BY <1>1, <1>4, <1>5, <1>6 DEF IInv, InBoot

LEMMA IdleKeeps == IInv /\ UNCHANGED vars => IInv'
<1> SUFFICES ASSUME IInv, UNCHANGED vars PROVE IInv'
  OBVIOUS
<1>1. Types'
  BY DEF vars, IInv, Types, Number, Sums
<1>2. MarksInOrder' /\ (~refused => RecordKept)'
  BY DEF vars, IInv, MarksInOrder, RecordKept, Final, Current, Copy, Sum, NvsNewest, DataNewest
<1>3. InBoot'
  BY DEF vars, IInv, InBoot, Elsewhere, Starting, Copying, OnData, Marking, OnNvs, Final, Current, Copy, Sum, NvsNewest
<1> QED
  BY <1>1, <1>2, <1>3 DEF IInv

LEMMA Inductive == Spec => []IInv
<1>1. IInv /\ [Next]_vars => IInv'
  <2> SUFFICES ASSUME IInv, [Next]_vars PROVE IInv'
    OBVIOUS
  <2>1. CASE PowerOn
    BY <2>1, PowerOnKeeps
  <2>2. CASE Decide
    BY <2>2, FormatKeeps, UnusableKeeps, AfterMoveKeeps, ChooseKeeps DEF Decide
  <2>3. CASE CopySteps
    BY <2>3, CopyStepsKeep
  <2>4. CASE Finish
    BY <2>4, RecordCopyKeeps, SettleKeeps, MarkLiveKeeps, MarkMovedKeeps, MarkedKeeps, EraseOldKeeps DEF Finish
  <2>5. CASE Run
    BY <2>5, OpenKeeps, SavePoolKeeps, SaveShadowKeeps, ConfirmKeeps DEF Run
  <2>6. CASE Cut \/ WipeNvs \/ WipeData
    BY <2>6, CutKeeps, WipeNvsKeeps, WipeDataKeeps
  <2>7. CASE UNCHANGED vars
    BY <2>7, IdleKeeps
  <2> QED
    BY <2>1, <2>2, <2>3, <2>4, <2>5, <2>6, <2>7 DEF Next
<1> QED
  BY Initially, <1>1, PTL DEF Spec

-----------------------------------------------------------------------------
LEMMA TypesMean == IInv => TypeOK
<1> SUFFICES ASSUME IInv PROVE TypeOK
  OBVIOUS
<1>1. Number \subseteq Version
  BY DEF IInv, Types, Number, Version
<1>2. nvs.pool \in Number /\ nvs.shadow \in Number /\ data.pool \in Number /\ data.shadow \in Number
      /\ newest.pool \in Number /\ newest.shadow \subseteq Number
  BY DEF IInv, Types
<1> QED
  BY <1>1, <1>2 DEF IInv, MarksInOrder, TypeOK, Torn

LEMMA NewestMeans == IInv => ServesNewest
<1> SUFFICES ASSUME IInv, boot.at = "run", boot.ready, boot.build = "this", ~refused
             PROVE  Here.pool = newest.pool /\ Here.shadow \in newest.shadow
  BY DEF ServesNewest
<1>1. boot # Off /\ boot \in Boots
  BY Booted DEF IInv
<1>2. CASE boot.part = "data"
  BY <1>1, <1>2 DEF IInv, InBoot, OnData, RecordKept, DataNewest, Here
<1>3. CASE boot.part = "nvs"
  BY <1>1, <1>3 DEF IInv, InBoot, OnNvs, NvsNewest, Here
<1> QED
  BY <1>1, <1>2, <1>3 DEF Boots

LEMMA HealthyMeans == IInv => OpensWhenHealthy
<1> SUFFICES ASSUME IInv, boot.at = "run", boot.build = "this", boot.dataUp = "ok", boot.nvsUp, boot.read
             PROVE  /\ boot.ready \/ ~data.done
                    /\ faults = 0 /\ boot.ready /\ ~boot.trial /\ boot.mark = "none" => Final
  BY DEF OpensWhenHealthy
<1>1. boot # Off /\ boot \in Boots /\ faults \in Nat
  BY Booted DEF IInv, Types
<1> QED
  BY <1>1 DEF IInv, InBoot, OnData, OnNvs, Marking, Boots

\* zap_store.cpp data_part_select, zap_store_confirm_move: whatever was cut short, refused or rolled back
\* before, a boot of this build that opens its store serves the pool and the cache as they were saved
\* last, and one at which both partitions work opens it.
THEOREM NewestIsServed == Spec => []OpensTheNewest
<1>1. IInv => OpensTheNewest
  BY TypesMean, NewestMeans, HealthyMeans DEF OpensTheNewest
<1> QED
  BY Inductive, <1>1, PTL

\* zap_store.cpp data_part_select, erase_old_copy: no step but a save touches what nvs holds before the
\* move is final, nor what zhac_data holds once both marks are there.
THEOREM OldStays == Spec => OldStaysUntilFinal
<1> DEFINE Kept == saves' = saves /\ wipes' = wipes =>
                     /\ ~Final => Content(nvs') = Content(nvs)
                     /\ data.live /\ nvs.moved /\ data.done => Content(data') = Content(data) /\ data'.done
<1>1. IInv /\ [Next]_vars => Kept
  <2> SUFFICES ASSUME IInv, [Next]_vars, saves' = saves, wipes' = wipes PROVE Kept
    OBVIOUS
  <2>0. saves \in Nat /\ wipes \in Nat
    BY DEF IInv, Types
  <2>1. CASE UNCHANGED <<nvs, data>>
    BY <2>1
  <2>2. CASE Format
    BY <2>2 DEF Format, NvsStore
  <2>3. CASE CopySteps
    <3>1. UNCHANGED nvs
      BY <2>3 DEF CopySteps, CopyWrite
    <3>2. boot # Off /\ boot.at \in CopyAts
      BY <2>3 DEF CopySteps, CopyWrite, CopyAts, Off
    <3>3. ~Final
      BY <3>2 DEF IInv, InBoot, Copying
    <3> QED
      BY <3>1, <3>3 DEF Final
  <2>4. CASE RecordCopy \/ MarkMoved
    <3>1. UNCHANGED data /\ (nvs' = nvs \/ nvs' = [nvs EXCEPT !.copied = data.src] \/ nvs' = [nvs EXCEPT !.moved = TRUE])
      BY <2>4 DEF RecordCopy, MarkMoved
    <3>2. Content(nvs') = Content(nvs)
      BY <3>1, Contents DEF NvsType, Content
    <3> QED
      BY <3>1, <3>2
  <2>5. CASE MarkLive
    <3>1. UNCHANGED nvs /\ (data' = data \/ data' = [data EXCEPT !.live = TRUE])
      BY <2>5 DEF MarkLive
    <3>2. Content(data') = Content(data) /\ data'.done = data.done
      BY <3>1, Contents DEF DataType, Content
    <3> QED
      BY <3>1, <3>2
  <2>6. CASE EraseOld
    <3>1. boot # Off /\ boot.at \in {"eraseOld", "eraseRest"} /\ UNCHANGED data
      BY <2>6 DEF EraseOld, Off
    <3>2. Final
      BY <3>1 DEF IInv, InBoot, Marking
    <3> QED
      BY <3>1, <3>2
  <2>7. CASE Open
    BY <2>0, <2>1, <2>7 DEF Open
  <2> QED
    BY <2>0, <2>1, <2>2, <2>3, <2>4, <2>5, <2>6, <2>7
       DEF Next, vars, PowerOn, Decide, Unusable, AfterMove, Choose, Finish, Settle, Marked, Run, SavePool, SaveShadow,
           Confirm, Cut, WipeNvs, WipeData
<1> QED
  BY Inductive, <1>1, PTL DEF Spec, OldStaysUntilFinal
=============================================================================
