------------------------------ MODULE StoreMove ------------------------------
(***************************************************************************)
(* Where the device store lives (components/zap_store: data_part_select,   *)
(* zap_store_confirm_move).  Firmware with the partition zhac_data copies  *)
(* the device pool and the shadow's cache there from nvs, runs on the copy *)
(* and makes the move final when its image is confirmed; until then the    *)
(* build before may come back and write nvs.                               *)
(*                                                                         *)
(* A boot decides once and writes step by step; power may fail between any *)
(* two writes, and any of them, or a partition, may fail.  A namespace is  *)
(* the number of the save that made it what it is, 0 if it has no entries, *)
(* Torn while entries are copied or erased.  A checksum is what it was     *)
(* taken from: two contents do not share one.                              *)
(***************************************************************************)
EXTENDS Integers

CONSTANTS MaxSaves, MaxCuts, MaxFaults, MaxWipes   \* bounds of the state space

ASSUME MoveConstants ==
    MaxSaves \in Nat \ {0} /\ MaxCuts \in Nat /\ MaxFaults \in Nat /\ MaxWipes \in Nat

VARIABLES
    nvs,        \* the pool and the cache on nvs, the marks "moved" and "copied"
    data,       \* those on zhac_data, the marks "live", "done" and "src"
    boot,       \* the build that runs, what it could read, where it is
    newest,     \* history: the pool and the cache as the last save left them (a store that
                \* is shut may keep a save of the cache, or not),
    saves, cuts, faults, wipes,   \* the bounds' counters,
    refused     \* a mark of the move or the schema was refused, or zhac_data was formatted

vars == <<nvs, data, boot, newest, saves, cuts, faults, wipes, refused>>

Torn  == -1
NoSum == <<>>
Blank == [pool |-> 0, shadow |-> 0]
Wanted(c) == [pool |-> c.pool, shadow |-> {c.shadow}]
BlankNvs  == [pool |-> 0, shadow |-> 0, moved |-> FALSE, copied |-> NoSum]
BlankData == [pool |-> 0, shadow |-> 0, live |-> FALSE, done |-> FALSE, src |-> NoSum]
Off   == [at |-> "off", ready |-> FALSE]

Content(p) == [pool |-> p.pool, shadow |-> p.shadow]
Sum(p)     == <<p.pool, p.shadow>>
Final      == data.live \/ nvs.moved

\* A device with a store on nvs, and zhac_data as the factory left it.
Init ==
    /\ nvs = [BlankNvs EXCEPT !.pool = 1] /\ data = BlankData
    /\ boot = Off /\ newest = Wanted([Blank EXCEPT !.pool = 1])
    /\ saves = 1 /\ cuts = 0 /\ faults = 0 /\ wipes = 0 /\ refused = FALSE

History == <<newest, saves, cuts, wipes>>
Fine    == UNCHANGED faults
Fault   == faults < MaxFaults /\ faults' = faults + 1

-----------------------------------------------------------------------------
\* Power on.  The build: this one; this code without the partition; the one before the move.
\* The update path refuses the last two once the move is final; a bare one then stays shut.

PowerOn ==
    /\ boot = Off
    /\ \E build \in {"this", "bare", "old"}, trial, nvsUp, read \in BOOLEAN, dataUp \in {"ok", "bad", "full"} :
          /\ build # "this" => ~Final \/ (build = "bare" /\ nvs.moved)
          /\ build # "this" => ~trial /\ nvsUp /\ read /\ dataUp = "ok"
          /\ read => nvsUp
          /\ faults' = faults + (IF nvsUp /\ read THEN 0 ELSE 1) + (IF dataUp = "ok" THEN 0 ELSE 1)
          /\ faults' <= MaxFaults
          /\ boot' = [at |-> IF build = "this" THEN "start" ELSE "open", build |-> build, trial |-> trial,
                      nvsUp |-> nvsUp, read |-> read, dataUp |-> dataUp, part |-> "nvs",
                      ready |-> FALSE, mark |-> "none"]
    /\ UNCHANGED <<nvs, data, refused, History>>

\* What data_part_select reads before it opens zhac_data.
Moved     == boot.nvsUp /\ nvs.moved
NvsStore  == boot.nvsUp /\ ~nvs.moved /\ nvs.pool # 0
NewerCopy == NvsStore /\ nvs.copied # NoSum /\ (boot.read => nvs.copied = Sum(nvs))

\* A full zhac_data, or one of a newer build, is formatted while nvs has a store.
Format ==
    /\ boot.at = "start" /\ boot.dataUp = "full" /\ NvsStore
    /\ \/ Fine /\ boot' = [boot EXCEPT !.dataUp = "ok"] /\ data' = BlankData
       \/ Fault /\ boot' = [boot EXCEPT !.dataUp = "formatted"] /\ data' \in {data, BlankData}
    /\ refused' = TRUE
    /\ UNCHANGED <<nvs, History>>

OpenOn(part) == boot' = [boot EXCEPT !.at = "open", !.part = part]
ShutOn(part) == boot' = [boot EXCEPT !.at = "run", !.part = part]

\* zhac_data cannot be used: nvs has the store of record, or may not.
StaysOnNvs == NvsStore                                         \* mutant
BeforeMove == NvsStore /\ (boot.dataUp = "formatted" \/ ~NewerCopy)

Unusable ==
    /\ boot.at = "start"
    /\ boot.dataUp \in {"bad", "formatted"} \/ (boot.dataUp = "full" /\ ~NvsStore)
    /\ IF BeforeMove THEN OpenOn("nvs") ELSE ShutOn("data")
    /\ Fine /\ UNCHANGED <<nvs, data, refused, History>>

Usable == boot.at = "start" /\ boot.dataUp = "ok"

\* The move is final: zhac_data has the store, or has lost it.
AfterMove ==
    /\ Usable /\ (Moved \/ data.live)
    /\ IF data.done THEN boot' = [boot EXCEPT !.at = "marks", !.part = "data", !.mark = "live"]
                    ELSE ShutOn("data")
    /\ Fine /\ UNCHANGED <<nvs, data, refused, History>>

\* It is not: the copy counts while nvs is what it was taken from, or has no store.
Copy      == data.done /\ data.src # NoSum
Current   == Copy /\ (data.src = Sum(nvs) \/ nvs.pool = 0)

Choose ==
    /\ Usable /\ ~Moved /\ ~data.live
    /\ \/ ~boot.nvsUp /\ OpenOn("nvs")
       \/ boot.nvsUp /\ Copy /\ ~boot.read /\ ShutOn("data")
       \/ /\ boot.nvsUp /\ boot.read /\ Current
          /\ boot' = [boot EXCEPT !.at = IF nvs.copied = data.src THEN "settle" ELSE "copied"]
       \/ boot.nvsUp /\ ~boot.read /\ ~Copy /\ OpenOn("nvs")
       \/ boot.nvsUp /\ boot.read /\ ~Current /\ boot' = [boot EXCEPT !.at = "clear"]
    /\ Fine /\ UNCHANGED <<nvs, data, refused, History>>

-----------------------------------------------------------------------------
\* The copy: "done" cleared, both namespaces erased and copied, "src", "done".

StepTo(at) == boot' = [boot EXCEPT !.at = at]

\* One write of the copy; if it fails the store stays on nvs.
CopyWrite(at, next, written) ==
    /\ boot.at = at
    /\ \/ Fine /\ StepTo(next) /\ data' = written
       \/ Fault /\ OpenOn("nvs") /\ UNCHANGED data
    /\ UNCHANGED <<nvs, refused, History>>

KeepDone    == data                                            \* mutant
DoneCleared == [data EXCEPT !.done = FALSE]

CopySteps ==
    \/ CopyWrite("clear", "erasePool", DoneCleared)
    \/ CopyWrite("erasePool", "eraseShadow", [data EXCEPT !.pool = 0])
    \/ CopyWrite("eraseShadow", "beginPool", [data EXCEPT !.shadow = 0])
    \/ CopyWrite("beginPool", "copyPool", [data EXCEPT !.pool = IF nvs.pool = 0 THEN 0 ELSE Torn])
    \/ CopyWrite("copyPool", "beginShadow", [data EXCEPT !.pool = nvs.pool])
    \/ CopyWrite("beginShadow", "copyShadow", [data EXCEPT !.shadow = IF nvs.shadow = 0 THEN 0 ELSE Torn])
    \/ CopyWrite("copyShadow", "src", [data EXCEPT !.shadow = nvs.shadow])
    \/ CopyWrite("src", "done", [data EXCEPT !.src = Sum(nvs)])
    \/ CopyWrite("done", "copied", [data EXCEPT !.done = TRUE])

\* "copied" on nvs, best effort, before zhac_data takes a write nvs lacks.
RecordCopy ==
    /\ boot.at = "copied" /\ StepTo("settle")
    /\ \/ Fine /\ nvs' = [nvs EXCEPT !.copied = data.src] /\ UNCHANGED refused
       \/ Fault /\ refused' = TRUE /\ UNCHANGED nvs
    /\ UNCHANGED <<data, History>>

\* A trial boot leaves it there; another makes the move final.
Settle ==
    /\ boot.at = "settle"
    /\ boot' = [boot EXCEPT !.part = "data", !.at = IF boot.trial THEN "open" ELSE "marks",
                            !.mark = IF boot.trial THEN "none" ELSE "live"]
    /\ Fine /\ UNCHANGED <<nvs, data, refused, History>>

-----------------------------------------------------------------------------
\* confirm_marks: "live" beside the data, then "moved"; a mark that is there is not written.

NextMark(m) == boot' = [boot EXCEPT !.mark = m]

MarkLive ==
    /\ boot.at # "off" /\ boot.mark = "live" /\ NextMark("moved")
    /\ \/ Fine /\ data' = [data EXCEPT !.live = TRUE]
       \/ ~data.live /\ Fault /\ UNCHANGED data
    /\ UNCHANGED <<nvs, refused, History>>

MarkMoved ==
    /\ boot.at # "off" /\ boot.mark = "moved" /\ NextMark("none")
    /\ \/ boot.nvsUp /\ Fine /\ nvs' = [nvs EXCEPT !.moved = TRUE] /\ UNCHANGED refused
       \/ /\ ~Moved
          /\ IF boot.nvsUp THEN Fault ELSE Fine
          /\ refused' = TRUE /\ UNCHANGED nvs
    /\ UNCHANGED <<data, History>>

Unconfirmed == ~boot.trial                                     \* mutant
OldCopyGoes == ~boot.trial /\ Final

\* The boot goes on: a final move's leftovers on nvs are erased, not on a trial.
Marked ==
    /\ boot.at = "marks" /\ boot.mark = "none"
    /\ StepTo(IF OldCopyGoes /\ boot.nvsUp /\ Content(nvs) # Blank THEN "eraseOld" ELSE "open")
    /\ Fine /\ UNCHANGED <<nvs, data, refused, History>>

\* erase_old_copy: the pool entry by entry, then the cache.
EraseOld ==
    /\ boot.at \in {"eraseOld", "eraseRest"}
    /\ \/ /\ boot.at = "eraseOld" /\ Fine /\ StepTo("eraseRest")
          /\ nvs' = [nvs EXCEPT !.pool = IF @ = 0 THEN 0 ELSE Torn]
       \/ boot.at = "eraseRest" /\ nvs.pool # 0 /\ Fine /\ UNCHANGED boot /\ nvs' = [nvs EXCEPT !.pool = 0]
       \/ boot.at = "eraseRest" /\ nvs.pool = 0 /\ Fine /\ StepTo("open") /\ nvs' = [nvs EXCEPT !.shadow = 0]
       \/ Fault /\ StepTo("open") /\ UNCHANGED nvs
    /\ UNCHANGED <<data, refused, History>>

-----------------------------------------------------------------------------
\* The store opened, its saves, and those of the shadow, which asks only for the partition.

Here == IF boot.part = "data" THEN data ELSE nvs
PartUp == IF boot.part = "data" THEN boot.dataUp = "ok" ELSE boot.nvsUp

Write(p) ==
    IF boot.part = "data" THEN data' = p /\ UNCHANGED nvs ELSE nvs' = p /\ UNCHANGED data

\* zap_store_init from there: an empty store gets its schema.
Open ==
    /\ boot.at = "open"
    /\ LET opens == PartUp /\ ~(boot.build = "bare" /\ nvs.moved)
       IN  /\ boot' = [boot EXCEPT !.at = "run", !.ready = opens]
           /\ \/ /\ opens /\ Here.pool = 0 /\ Fine
                 /\ saves' = saves + 1 /\ Write([Here EXCEPT !.pool = saves'])
                 /\ newest' = Wanted([Content(Here) EXCEPT !.pool = saves'])
                 /\ UNCHANGED refused
              \/ /\ IF opens /\ Here.pool = 0 THEN Fault /\ refused' = TRUE ELSE Fine /\ UNCHANGED refused
                 /\ UNCHANGED <<nvs, data, newest, saves>>
    /\ UNCHANGED <<cuts, wipes>>

SavePool ==
    /\ boot.at = "run" /\ boot.ready /\ saves < MaxSaves
    /\ saves' = saves + 1
    /\ Write([Here EXCEPT !.pool = saves']) /\ newest' = Wanted([Content(Here) EXCEPT !.pool = saves'])
    /\ Fine /\ UNCHANGED <<boot, cuts, wipes, refused>>

SaveShadow ==
    /\ boot.at = "run" /\ PartUp /\ saves < MaxSaves
    /\ saves' = saves + 1
    /\ Write([Here EXCEPT !.shadow = saves'])
    /\ newest' = IF boot.ready THEN Wanted([Content(Here) EXCEPT !.shadow = saves'])
                  ELSE [newest EXCEPT !.shadow = @ \cup {saves'}]
    /\ Fine /\ UNCHANGED <<boot, cuts, wipes, refused>>

\* The trial image is marked valid: zap_store_confirm_move, if this boot opened the store on zhac_data.
MovedFirst  == boot.ready /\ nvs.moved                        \* mutant
MayConfirm  == boot.ready /\ boot.part = "data"

Confirm ==
    /\ boot.at = "run" /\ boot.build = "this" /\ boot.mark = "none"
    /\ boot.trial
    /\ boot' = [boot EXCEPT !.trial = FALSE, !.mark = IF MayConfirm THEN "live" ELSE "none"]
    /\ Fine /\ UNCHANGED <<nvs, data, refused, History>>

\* A restart, or a power cut, at any moment.
Cut ==
    /\ boot # Off /\ cuts < MaxCuts
    /\ cuts' = cuts + 1 /\ boot' = Off
    /\ Fine /\ UNCHANGED <<nvs, data, newest, saves, wipes, refused>>

\* Somebody erases a partition with a tool; what the other one has is then the newest.
WipeNvs ==
    /\ boot = Off /\ wipes < MaxWipes /\ wipes' = wipes + 1
    /\ nvs' = BlankNvs
    /\ newest' = Wanted(IF data.done THEN Content(data) ELSE Blank)
    /\ Fine /\ UNCHANGED <<data, boot, saves, cuts, refused>>

WipeData ==
    /\ boot = Off /\ wipes < MaxWipes /\ wipes' = wipes + 1
    /\ data' = BlankData
    /\ newest' = Wanted(IF nvs.moved THEN Blank ELSE Content(nvs))
    /\ Fine /\ UNCHANGED <<nvs, boot, saves, cuts, refused>>

-----------------------------------------------------------------------------
Decide == Format \/ Unusable \/ AfterMove \/ Choose
Finish == RecordCopy \/ Settle \/ MarkLive \/ MarkMoved \/ Marked \/ EraseOld
Run    == Open \/ SavePool \/ SaveShadow \/ Confirm

Next == PowerOn \/ Decide \/ CopySteps \/ Finish \/ Run \/ Cut \/ WipeNvs \/ WipeData

Spec == Init /\ [][Next]_vars

-----------------------------------------------------------------------------
Version == -1..(MaxSaves + 2 * (MaxCuts + 1))

\* The marks are in the order they are written: the copy's checksum before "done" and "copied", "done"
\* before "live" and "moved", unless zhac_data was erased.
TypeOK ==
    /\ {nvs.pool, nvs.shadow, data.pool, data.shadow, newest.pool} \cup newest.shadow \subseteq Version
    /\ data.done => data.src # NoSum
    /\ data.done /\ ~refused => Torn \notin {data.pool, data.shadow}
    /\ wipes = 0 /\ ~refused => (nvs.copied # NoSum => data.src # NoSum) /\ (Final => data.done)

\* zap_store.cpp: what an open store serves is what the last save left, whichever partition and build
\* made it, through cuts, rollbacks and failed writes, unless nvs refused a mark of the move, an
\* empty store its schema, or zhac_data had to be formatted.
ServesNewest ==
    boot.at = "run" /\ boot.ready /\ boot.build = "this" /\ ~refused =>
       Here.pool = newest.pool /\ Here.shadow \in newest.shadow

\* A boot at which both partitions work opens the store, unless zhac_data lost it after the move; if
\* nothing ever failed and the image is confirmed the move is final.
OpensWhenHealthy ==
    boot.at = "run" /\ boot.build = "this" /\ boot.dataUp = "ok" /\ boot.nvsUp /\ boot.read =>
       /\ boot.ready \/ ~data.done
       /\ faults = 0 /\ boot.ready /\ ~boot.trial /\ boot.mark = "none" => Final

\* The three: whatever happened before, a boot that works serves the store that was saved last.
OpensTheNewest == TypeOK /\ ServesNewest /\ OpensWhenHealthy

\* Until the move is final only saves change what nvs holds, so the build before finds its store; once
\* both marks are there only saves change what zhac_data holds.
OldStaysUntilFinal ==
    [][saves' = saves /\ wipes' = wipes =>
         /\ ~Final => Content(nvs') = Content(nvs)
         /\ data.live /\ nvs.moved /\ data.done => Content(data') = Content(data) /\ data'.done]_vars

\* zap_store.cpp:51-54: once the move is final zhac_data is never formatted; a mark that nvs refuses
\* only leaves the old copy there for a later boot to erase.
FinalIsKept ==
    [][data.live /\ nvs.copied # NoSum /\ refused /\ saves' = saves /\ wipes' = wipes =>
         data'.live /\ Content(data') = Content(data)]_vars
=============================================================================
