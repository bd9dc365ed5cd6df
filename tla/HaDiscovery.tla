----------------------------- MODULE HaDiscovery ----------------------------
(***************************************************************************)
(* Which Home Assistant entities a device becomes: ha::build_device of     *)
(* components/ha_bridge/ha_discovery.cpp.                                  *)
(*                                                                         *)
(* An expose has a name, a type, whether it publishes and can be set, and  *)
(* the words of an enum that the code asks for.  An entity has its key,    *)
(* its component, the exposes whose state it listens to and those that its *)
(* commands set.  A pointer that may be null is a set of at most one.      *)
(* The composed entities are tried in turn, each marks what it used, and   *)
(* what is left becomes an entity each.  A config that does not fit its    *)
(* payload is left out without a word: here, when it lists an enum that    *)
(* offers more than a payload takes, which has the word "and more".        *)
(***************************************************************************)
EXTENDS Naturals, FiniteSets

CONSTANTS
    Menu,           \* exposes that devices have
    kMax            \* exposes that are read, the array's first; those after them are not looked at

VARIABLES
    exposes,    \* ex[]: at most one of a name and type
    used,       \* Expose::used
    entities,   \* what was emitted
    unfit,      \* history: exposes of entities whose config was too long
    pc          \* the block of build_device that comes next

vars == <<exposes, used, entities, unfit, pc>>

Init == exposes = {} /\ used = {} /\ entities = {} /\ unfit = {} /\ pc = "read"

Find(name, type) == {e \in exposes : e.name = name /\ e.type = type}
FindAny(name)    == {e \in exposes : e.name = name}
Settable(S)      == {e \in S : e.set}
FindSettable(name, type) == Settable(Find(name, type))
OrElse(S, T)     == IF S # {} THEN S ELSE T
With(S, words)   == {e \in S : words \subseteq e.words}

\* read_expose, for each of the array; of two with a name and a type only the first is ever found.
ReadExpose(e) ==
    /\ pc = "read" /\ Cardinality(exposes) < kMax /\ Find(e.name, e.type) = {}
    /\ exposes' = exposes \cup {e} /\ UNCHANGED <<used, entities, unfit, pc>>

ReadAll == pc = "read" /\ pc' = "climate" /\ UNCHANGED <<exposes, used, entities, unfit>>

HvacModes == {"off", "heat"}

Listens(S)  == {e \in S : e.pub}
Entity(key, component, state, command) ==
    [key |-> key, component |-> component, state |-> state, command |-> command]

Members(n) == n.state \cup n.command

\* finish, with the exposes whose words the config lists; what an entity was made of is used all the same.
Emit(e, lists, uses, next) ==
    /\ IF \A x \in lists : "and more" \notin x.words
       THEN entities' = entities \cup {e} /\ UNCHANGED unfit
       ELSE unfit' = unfit \cup Members(e) /\ UNCHANGED entities
    /\ used' = used \cup uses /\ pc' = next /\ UNCHANGED exposes

Skip(next) == pc' = next /\ UNCHANGED <<exposes, used, entities, unfit>>

-----------------------------------------------------------------------------
\* Writer::climate: modes, presets and fan speeds only when they can be set to words it knows; what it
\* leaves out is used nevertheless.
ClimateEntity(temp, setpoint, mode, preset, running, fan) ==
    LET modes   == {m \in Settable(mode) : m.words \cap HvacModes # {}}
        presets == {p \in Settable(preset) : p.words # {}}
        speeds  == {f \in fan : f.words # {}}
        offered == setpoint \cup modes \cup presets \cup speeds
    IN  Entity("climate", "climate", Listens(temp \cup running \cup offered), Settable(offered))

FanMode == Find("fan_mode", "enum")

Climate ==
    /\ pc = "climate"
    /\ LET temp     == Find("local_temperature", "numeric")
           setpoint == OrElse(FindSettable("current_heating_setpoint", "numeric"),
                              FindSettable("occupied_heating_setpoint", "numeric"))
           mode     == Find("system_mode", "enum")
           preset   == Find("preset", "enum")
           running  == OrElse(Find("running_state", "enum"), Find("running_state", "binary"))
           fan      == Settable(FanMode)
       IN  IF temp # {} /\ setpoint # {}
           THEN Emit(ClimateEntity(temp, setpoint, mode, preset, running, fan), Settable(preset) \cup fan,
                     temp \cup setpoint \cup mode \cup preset \cup running \cup fan, "light")
           ELSE Skip("light")

\* Writer::light: colour pairs travel on the keys color_xy and color_hs, also for x and y apart.
LightEntity(state, bri, ct, colour) == Entity("light", "light", state \cup bri \cup ct \cup colour, state \cup bri \cup ct \cup colour)

Pair(first, second, both) == IF (first # {} /\ second # {}) \/ both # {} THEN first \cup second \cup both ELSE {}

Light ==
    /\ pc = "light"
    /\ LET st == Find("state", "binary")
           br == Find("brightness", "numeric")
           ct == FindSettable("color_temp", "numeric")
           xy == Pair(FindSettable("color_x", "numeric"), FindSettable("color_y", "numeric"), FindAny("color_xy"))
           hs == Pair(FindSettable("hue", "numeric"), FindSettable("saturation", "numeric"), FindAny("color_hs"))
       IN  IF Settable(st) # {} /\ Settable(br) # {}
           THEN Emit(LightEntity(st, br, ct, xy \cup hs), {}, st \cup br \cup ct \cup xy \cup hs, "cover")
           ELSE Skip("cover")

CoverEntity(position, state, tilt) ==
    LET all == position \cup state \cup tilt IN Entity("cover", "cover", Listens(all), Settable(all))

Cover ==
    /\ pc = "cover"
    /\ LET pos  == FindSettable("position", "numeric")
           cs   == With(Find("state", "enum"), {"OPEN", "CLOSE"})
           tilt == FindSettable("tilt", "numeric")
       IN  IF pos \cup cs # {} THEN Emit(CoverEntity(pos, cs, tilt), {}, pos \cup cs \cup tilt, "lock")
           ELSE Skip("lock")

\* Writer::lock and Writer::lock_worded, whose commands go to "state" and whose word comes on "lock_state".
LockEntity(e)            == Entity("lock", "lock", Listens(e), Settable(e))
WordedLock(state, lock)  == Entity("lock", "lock", Listens(lock), Settable(state))

TalksLock(lock, cmd) == Listens(lock) # {} /\ With(cmd, {"LOCK", "UNLOCK"}) # {}

Lock ==
    /\ pc = "lock"
    /\ LET lk  == FindSettable("lock_state", "binary")
           ls  == Find("lock_state", "enum")
           cmd == FindSettable("state", "enum")
       IN  CASE lk # {} -> Emit(LockEntity(lk), {}, lk, "fan")
             [] lk = {} /\ TalksLock(ls, cmd) -> Emit(WordedLock(cmd, ls), {}, ls \cup cmd, "fan")
             [] OTHER -> Skip("fan")

\* Writer::fan: a switch and its speeds, or speeds of which one is "off".  Speeds that name nothing but
\* on and off are no presets.
FanEntity(power, modes) ==
    LET presets == {m \in modes : m.words \ {"on", "off"} # {}}
        listed  == OrElse(power, modes) \cup presets
    IN  Entity("fan", "fan", Listens(listed), Settable(listed))

\* The fan speed may belong to a thermostat.
FanTaken == FanMode # {} /\ FanMode \subseteq used

Fan ==
    /\ pc = "fan"
    /\ LET power == OrElse(FindSettable("fan_state", "binary"), FindSettable("fan_mode", "binary"))
           modes == {m \in Settable(FanMode) : m.words # {}}
       IN  IF ~FanTaken /\ (power # {} \/ With(modes, {"off"}) # {})
           THEN Emit(FanEntity(power, modes), modes, power \cup modes, "rest")
           ELSE Skip("rest")

\* Writer::one.
Component(e) ==
    CASE e.type = "binary"  -> IF e.set THEN "switch" ELSE "binary_sensor"
      [] e.type = "numeric" -> IF e.set THEN "number" ELSE "sensor"
      [] e.type = "enum"    -> IF e.words = {} THEN "sensor" ELSE IF e.set THEN "select"
                               ELSE IF e.name = "action" THEN "event" ELSE "sensor"
      [] e.type = "text"    -> IF e.set THEN "text" ELSE "sensor"
      [] OTHER              -> "none"

OneEntity(e) == Entity(e.name, Component(e), {e}, Settable({e}))

\* Options to choose from and kinds of presses are listed; a sensor lists nothing.
Lists(n) == IF n.component \in {"select", "event"} THEN n.state ELSE {}

Rest ==
    /\ pc = "rest" /\ pc' = "done"
    /\ LET rest == {OneEntity(e) : e \in {f \in exposes \ used : f.pub /\ Component(f) # "none"}}
           fits == {n \in rest : \A x \in Lists(n) : "and more" \notin x.words}
       IN  /\ entities' = entities \cup fits
           /\ unfit' = unfit \cup UNION {Members(n) : n \in rest \ fits}
    /\ UNCHANGED <<exposes, used>>

Next == (\E e \in Menu : ReadExpose(e)) \/ ReadAll \/ Climate \/ Light \/ Cover \/ Lock \/ Fan \/ Rest

Spec == Init /\ [][Next]_vars

-----------------------------------------------------------------------------
\* What a thermostat or a fan takes and does not show: a mode or preset that cannot be set to its words,
\* speeds that are only on and off.
Swallowed(e) ==
    \/ e.name = "system_mode" /\ (~e.set \/ e.words \cap HvacModes = {})
    \/ e.name = "preset" /\ (~e.set \/ e.words = {})
    \/ e.name = "fan_mode" /\ (e.words = {} \/ e.words \subseteq {"on", "off"})

\* Every expose that was read and publishes is heard by one entity and no two, and one that can be set
\* besides is set by that entity: but for what belongs to an entity whose config did not fit, and for the
\* state of a lock that reports its word elsewhere, which is only set.
ShownOnce ==
    pc = "done" =>
        \A e \in {x \in exposes : x.pub /\ Component(x) # "none"} :
            LET by == {n \in entities : e \in n.state}
            IN  /\ Cardinality(by) <= 1
                /\ by = {} => \/ e \in unfit
                              \/ e \in used /\ Swallowed(e)
                              \/ \E n \in entities : n.component = "lock" /\ e \in n.command
                /\ \A n \in by : e.set => e \in n.command

\* No two entities have the same config topic.
TopicsDiffer ==
    pc = "done" => \A m, n \in entities : m.key = n.key /\ m.component = n.component => m = n
=============================================================================
