----------------------------- MODULE MCDevices -----------------------------
(***************************************************************************)
(* Where the hub keeps its devices, what it keeps of them beside their     *)
(* rows and the shadow cache, and the engine of the rules about them.      *)
(* Seven parts that share no state: a behaviour explores the one that part *)
(* names, and leaves the others as they start.                             *)
(* The move of the store: three saves, two cuts, two failed writes and     *)
(* an erased partition, in any mixture.                                    *)
(* Definitions: two devices and one slot to synthesize in, so that it      *)
(* changes hands; the model of one is in the registry.  Timers: two slots, *)
(* three timers, two tasks.  Held writes: two keys of a device.  Meters:   *)
(* three in four ticks, two reads a tick, so that one failure delays the   *)
(* next, and no pings.  Pings: two devices, with a read and a ping a tick. *)
(* Engine: a rule that switches what it watches, and one that calls        *)
(* itself, with one that only watches and one that starts on time.         *)
(***************************************************************************)
EXTENDS StoreMove, TLC

CONSTANTS d1, d2, p1, o1, o2, Nobody,
          t1, t2, k1, k2, c1, c2, m1, m2, m3

VARIABLES part,
          named, slot, built, recent, resolving, writer, changed, raced,
          slots, asking, esp, stopping, deleting, tickets, made, fired, hit, late,
          held, sender, worker, at, wanted, counts, heard, crossed, missed,
          paired, changes, meters, tick, unread, unasked,
          store, rules, holder, command, firing, attr_q, event_q, news, present, shadow, device, owed, edits, reports,
          ticks, tail, reason

Defs == INSTANCE DefCache WITH
    Device <- {d1, d2}, Pool <- {p1}, Offers <- {{o1, o2}}, Covered <- {o1}, Matched <- {d1}, MaxEdits <- 2,
    pool <- built, task <- resolving, edits <- changed
Timers == INSTANCE TimerPool WITH
    Task <- {t1, t2}, Slots <- 2, Generations <- 6, MaxTimers <- 3, task <- asking
Wake == INSTANCE WakeQueue WITH
    Device <- {d1}, Key <- {k1, k2}, Slots <- 2, MaxTries <- 2, MaxWrites <- 3, MaxReports <- 2, has <- at
Meters == INSTANCE MeterPoll WITH
    Device <- {m1, m2, m3}, Metered <- {m1, m2, m3}, AtBoot <- {m1, m2, m3}, MaxPerTick <- 2, Interval <- 4,
    PingInterval <- 0, PingMax <- 0, MaxChanges <- 2, table <- meters
Pings == INSTANCE MeterPoll WITH
    Device <- {d1, d2}, Metered <- {d1, d2}, AtBoot <- {d1}, MaxPerTick <- 1, Interval <- 3,
    PingInterval <- 3, PingMax <- 6, MaxChanges <- 4, table <- meters

As(on, do) == [on |-> on, do |-> do]
SelfFeeding == {As("change", "toggle"), As("is", "log"), As("event", "event"), As("cron", "event")}
SavedPair   == {<<As("change", "toggle"), As("is", "log")>>}

Rules == INSTANCE RuleEngine WITH
    Client <- {c1, c2}, Text <- SelfFeeding, Saved <- SavedPair, CacheN <- 2, MatchMax <- 1, HopMax <- 1, RunCap <- 2,
    QueueN <- 1, MaxId <- 2, MaxEdits <- 2, MaxReports <- 1, MaxTicks <- 1, call <- command, paired <- present

move        == vars
definitions == <<named, slot, built, recent, resolving, writer, changed, raced>>
timers      == <<slots, asking, esp, stopping, deleting, tickets, made, fired, hit, late>>
wakes       == <<held, sender, worker, at, wanted, counts, heard, crossed, missed>>
engine      == <<store, rules, holder, command, firing, attr_q, event_q, news, present, shadow, device, owed,
                 edits, reports, ticks, tail, reason>>
metering    == <<paired, changes, meters, tick, unread, unasked>>

MCInit ==
    /\ part \in {"move", "definitions", "timers", "wakes", "meters", "pings", "engine"}
    /\ Init /\ Defs!Init /\ Timers!Init /\ Wake!Init /\ (IF part = "pings" THEN Pings!Init ELSE Meters!Init)
    /\ Rules!Init /\ (part # "engine" => device = 0 /\ shadow = 0 /\ rules[1].id = 1)

MCNext ==
    /\ UNCHANGED part
    /\ \/ part = "move"        /\ Next
       \/ part = "definitions" /\ Defs!Next
       \/ part = "timers"      /\ Timers!Next
       \/ part = "wakes"       /\ Wake!Next
       \/ part = "meters"      /\ Meters!Next
       \/ part = "pings"       /\ Pings!Next
       \/ part = "engine"      /\ Rules!Next
    /\ part # "move"        => UNCHANGED move
    /\ part # "definitions" => UNCHANGED definitions
    /\ part # "timers"      => UNCHANGED timers
    /\ part # "wakes"       => UNCHANGED wakes
    /\ part \notin {"meters", "pings"} => UNCHANGED metering
    /\ part # "engine"      => UNCHANGED engine

MCSpec == MCInit /\ [][MCNext]_<<part, move, definitions, timers, wakes, metering, engine>>

\* A cached definition that a task uses is the device's own, and the one that its clusters and its name
\* would give it now.
CachedIsTheDevices == part = "definitions" => Defs!CachedIsOwn /\ Defs!CachedIsCurrent

\* See TimerPool: what runs at an expiry, and what a cancel stops, is the ticket's timer.
TicketsStayTrue == part = "timers" => Timers!TicketsStayTrue

\* See WakeQueue: a resend never sets a key back from a value written or reported since.
NeverSetBack == Wake!NeverSetBack

\* See MeterPoll: every meter is read, and every quiet device pinged, within its time and the turns of
\* the others, whatever fails and whoever comes and goes, as long as the ticks are enough for all.
NobodyStarves ==
    /\ part = "meters" => Meters!EveryMeterRead
    /\ part = "pings"  => Pings!EveryMeterRead /\ Pings!QuietPinged

\* See RuleEngine: reasons to fire, and what the cache holds, against the store.
CacheTellsTheTruth == part = "engine" => Rules!TypeOK /\ Rules!HeartbeatsDoNotFire /\ Rules!CacheAgrees

\* See RuleEngine: a command that switches a rule on or off does not undo an edit.
EnablingKeepsEdits == Rules!EnablingKeepsEdits

\* The two clients that edit rules are alike.
Symmetry == Permutations({c1, c2})
=============================================================================
