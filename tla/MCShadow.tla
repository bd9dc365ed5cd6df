------------------------------ MODULE MCShadow ------------------------------
(***************************************************************************)
(* The shadow with two devices, so that a removal moves an entry, in two   *)
(* parts that share no state here: a behaviour explores the one that part  *)
(* names, and leaves the other as it starts.                               *)
(* Writes to flash: both devices paired at first, an empty cache and one   *)
(* other, the settings of a new entry and one other, one API task;         *)
(* changes, calls, failures, comings and goings and restarts, in any       *)
(* mixture.  Timers: a message queue of one and a command queue of three,  *)
(* so that they are full; reports and edits, in any mixture.  set_config   *)
(* leaves the throttle and the time-out off to the calls that set them.    *)
(* MaxWork bounds that; what was begun goes on without a bound.            *)
(***************************************************************************)
EXTENDS ShadowFlash, TLC

CONSTANTS s1, s2, v1, c1, a1, NoDevice, MaxWork

VARIABLES part, work,
          slots, cfg, preset, since, cache, pending, has, ticking, posted, callback, queue, flag,
          newest, owing, astray

Devices  == {s1, s2}
Values   == {Empty, v1}
Settings == {Default, c1}
Tasks    == {a1}
Chosen   == [debounce : BOOLEAN, bypass : BOOLEAN, throttle : {FALSE}, ttl : {"default", "on"}]
Symmetry == Permutations(Devices)

Timers == INSTANCE ShadowPipeline WITH QueueDepth <- 1, CommandDepth <- 3, Choice <- Chosen, table <- slots

writes == vars
timers == <<slots, cfg, preset, since, cache, pending, has, ticking, posted, callback, queue, flag,
            newest, owing, astray>>

MCInit ==
    /\ part \in {"writes", "timers"} /\ work = 0
    /\ Init /\ pool = IF part = "writes" THEN Devices ELSE {}
    /\ Timers!Init

Begun(d) == Change(d) \/ Come(d) \/ \E t \in Task : Call(t, d)
GoesOn   == Sweep \/ Flush \/ (\E d \in Device : Bridged(d) \/ WindowCloses(d)) \/ \E t \in Task : Finish(t)

MCNext ==
    /\ UNCHANGED part
    /\ \/ part = "writes" /\ UNCHANGED timers
          /\ \/ work < MaxWork /\ work' = work + 1 /\ (FlushNow \/ Fail \/ Restart \/ \E d \in Device : Begun(d))
             \/ GoesOn /\ UNCHANGED work
       \/ part = "timers" /\ UNCHANGED writes
          /\ \/ work < MaxWork /\ work' = work + 1 /\ \E d \in Device : Timers!Enter(d) \/ Timers!Edit(d)
             \/ Timers!Run /\ UNCHANGED work

MCSpec == MCInit /\ [][MCNext]_<<part, work, writes, timers>>

\* See ShadowPipeline: what is held back or counts is not forgotten, and the newest value stays.
TimersServe == part = "timers" => Timers!NothingForgotten /\ Timers!NewestWins
=============================================================================
