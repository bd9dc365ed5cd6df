---------------------------- MODULE Coordinator -----------------------------
(***************************************************************************)
(* Bringing the radio up: zigbee_mgr_init, zigbee_mgr_reinit and           *)
(* coordinator_start with its commissioning, components/zigbee_mgr/        *)
(* zigbee_mgr.cpp.                                                         *)
(*                                                                         *)
(* The radio (NCP) keeps a network in its own memory, known by the key it  *)
(* was formed with.  A request to it is answered, is refused, is lost, or  *)
(* has its effect while the answer is lost; the last three are faults.  It *)
(* may reset at any time.  What it tells of itself - a reset, state 9 -    *)
(* arrives in order, and later.  Waits end by a time-out or by the flag    *)
(* they wait for.  The hub may be switched off at any step; its flash      *)
(* holds the network key.                                                  *)
(***************************************************************************)
EXTENDS Naturals, Sequences

CONSTANTS
    ResetAttempts       \* kResetAttempts

CONSTANTS               \* bounds of the state space
    MaxFaults,          \* faults of requests, of the flash, and resets of the radio
    MaxStarts,          \* calls of init and reinit
    MaxOffs,            \* times the hub is switched off
    MaxTold             \* indications under way

VARIABLES
    ncp,        \* the radio: its network, startup option, configured key, registrations, what it starts
    told,       \* indications on their way, oldest first
    flash,      \* zigbee_cfg/net_key; 0 when absent
    hub,        \* the task in coordinator_start
    flags,      \* s_init_done, s_reset_received, s_coordinator_ready, s_znp_crashed
    wiring,     \* the hub's queue and subscriptions
    used,       \* keys drawn so far, and the bounds' counters
    seen,       \* history: a start ended with this network up, and none has asked for it in vain since
    shaken,     \*          a reset was heard while the last start registered,
    late        \*          a start gave up waiting for a network to be formed

vars == <<ncp, told, flash, hub, flags, wiring, used, seen, shaken, late>>

None == 0

Init ==
    /\ ncp = [net |-> None, wipe |-> FALSE, key |-> None, af |-> FALSE, cb |-> FALSE, starting |-> "no", marker |-> FALSE]
    /\ told = <<>> /\ flash = None
    /\ hub = [pc |-> "off"]
    /\ flags = [done |-> FALSE, reset |-> FALSE, ready |-> FALSE, crashed |-> FALSE]
    /\ wiring = [queue |-> FALSE, rest |-> FALSE]
    /\ used = [keys |-> 0, faults |-> 0, starts |-> 0, offs |-> 0]
    /\ seen = None /\ shaken = FALSE /\ late = FALSE

At(pc)   == hub.pc = pc
Goto(pc) == hub' = [hub EXCEPT !.pc = pc]

\* coordinator_start, and with it its caller, returns; the wiring of zigbee_mgr_init follows a success.
Return(ok) == hub' = [pc |-> IF ok /\ hub.wire THEN "wire" ELSE "idle", ok |-> ok, init |-> hub.init]

Fault    == used.faults < MaxFaults /\ used' = [used EXCEPT !.faults = @ + 1]

Tells(what) == told' = IF Len(told) < MaxTold THEN Append(told, what) ELSE told

-----------------------------------------------------------------------------
\* The radio.

\* A reset forgets the registrations, and the network when STARTUP_OPTION asks for it.
Rebooted == [ncp EXCEPT !.net = IF ncp.wipe THEN None ELSE @, !.key = IF ncp.wipe THEN None ELSE @,
                        !.marker = @ /\ ~ncp.wipe,
                        !.af = FALSE, !.cb = FALSE, !.starting = "no"]

NcpResets ==
    /\ Fault /\ ncp' = Rebooted /\ Tells("reset")
    /\ UNCHANGED <<flash, hub, flags, wiring, seen, shaken, late>>

\* Formation, or start of the network it has.
NcpStarted ==
    /\ ncp.starting # "no"
    /\ ncp' = [ncp EXCEPT !.starting = "no", !.net = IF ncp.starting = "form" THEN ncp.key ELSE @]
    /\ IF ncp'.net # None THEN Tells("state9") ELSE UNCHANGED told
    /\ UNCHANGED <<flash, hub, flags, wiring, used, seen, shaken, late>>

\* What a request with this effect on the radio leads to: answered, refused or unanswered.
Answered(after)   == ncp' = after /\ UNCHANGED used
Unanswered(after) == Fault /\ ncp' \in {ncp, after}

-----------------------------------------------------------------------------
\* on_state_change and on_reset_ind, on the radio's task.
Listening == wiring.queue /\ hub.pc # "off"

OnStateChange ==
    /\ told # <<>> /\ Head(told) = "state9" /\ told' = Tail(told)
    /\ flags' = IF Listening THEN [flags EXCEPT !.ready = TRUE] ELSE flags
    /\ UNCHANGED <<ncp, flash, hub, wiring, used, seen, shaken, late>>

Expected(f) == [f EXCEPT !.reset = TRUE]
Noticed(f)  == [f EXCEPT !.reset = TRUE, !.crashed = @ \/ f.done]

OnResetInd ==
    /\ told # <<>> /\ Head(told) = "reset" /\ told' = Tail(told)
    /\ flags' = IF Listening THEN Noticed(flags) ELSE flags
    /\ shaken' = (shaken \/ hub.pc \in {"callbacks", "done"})
    /\ UNCHANGED <<ncp, flash, hub, wiring, used, seen, late>>

-----------------------------------------------------------------------------
\* Calls.

Begin(init, wire) ==
    /\ used.starts < MaxStarts /\ used' = [used EXCEPT !.starts = @ + 1]
    /\ hub' = [pc |-> "reset", attempt |-> 1, init |-> init, wire |-> wire]
    /\ flags' = [done |-> FALSE, reset |-> FALSE, ready |-> FALSE, crashed |-> FALSE]
    /\ shaken' = FALSE

\* zigbee_mgr_init: at the boot, and again while it returns FALSE.
MgrInit ==
    /\ At("off") \/ (At("idle") /\ hub.init /\ ~hub.ok)
    /\ Begin(TRUE, ~wiring.queue)
    /\ wiring' = [wiring EXCEPT !.queue = TRUE]
    /\ UNCHANGED <<ncp, told, flash, seen, late>>

\* zigbee_mgr_reinit: its supervisor saw a crash.
MgrReinit ==
    /\ At("idle") /\ flags.crashed
    /\ Begin(FALSE, FALSE)
    /\ UNCHANGED <<ncp, told, flash, wiring, seen, late>>

Wire ==
    /\ At("wire")
    /\ wiring' = [wiring EXCEPT !.rest = TRUE]
    /\ hub' = [pc |-> "idle", ok |-> TRUE, init |-> hub.init]
    /\ UNCHANGED <<ncp, told, flash, flags, used, seen, shaken, late>>

\* The hub loses its supply, the radio does not.
SwitchOff ==
    /\ ~At("off") /\ used.offs < MaxOffs /\ used' = [used EXCEPT !.offs = @ + 1]
    /\ hub' = [pc |-> "off"]
    /\ wiring' = [queue |-> FALSE, rest |-> FALSE]
    /\ flags' = [done |-> FALSE, reset |-> FALSE, ready |-> FALSE, crashed |-> FALSE]
    /\ late' = (late \/ At("waitformed"))
    /\ UNCHANGED <<ncp, told, flash, seen, shaken>>

-----------------------------------------------------------------------------
\* coordinator_start, steps 1 to 3.

\* The pin may be missed.
HwReset ==
    /\ At("reset")
    /\ flags' = [flags EXCEPT !.reset = FALSE]
    /\ Goto("waitreset")
    /\ \/ ncp' = Rebooted /\ Tells("reset") /\ UNCHANGED used
       \/ Fault /\ UNCHANGED <<ncp, told>>
    /\ UNCHANGED <<flash, wiring, seen, shaken, late>>

WaitReset ==
    /\ At("waitreset")
    /\ \/ flags.reset /\ Goto("ping")
       \/ ~flags.reset /\ hub.attempt < ResetAttempts /\ hub' = [hub EXCEPT !.pc = "reset", !.attempt = @ + 1]
       \/ ~flags.reset /\ hub.attempt = ResetAttempts /\ Return(FALSE)
    /\ UNCHANGED <<ncp, told, flash, flags, wiring, used, seen, shaken, late>>

\* Address and version are asked as well; the start goes on without them.
Ping ==
    /\ At("ping")
    /\ \/ Answered(ncp) /\ Goto("strategy")
       \/ Unanswered(ncp) /\ Return(FALSE)
    /\ UNCHANGED <<told, flash, flags, wiring, seen, shaken, late>>

\* is_configured: no answer reads like no network.
Strategy ==
    /\ At("strategy")
    /\ \/ Answered(ncp) /\ Goto(IF ncp.net # None THEN "startup" ELSE "delete") /\ UNCHANGED seen
       \/ Unanswered(ncp) /\ Goto("delete") /\ seen' = None
    /\ UNCHANGED <<told, flash, flags, wiring, shaken, late>>

-----------------------------------------------------------------------------
\* do_commissioning.

DeleteNib ==
    /\ At("delete") /\ Goto("option3")
    /\ \/ Answered([ncp EXCEPT !.net = None])
       \/ Unanswered([ncp EXCEPT !.net = None])
    /\ UNCHANGED <<told, flash, flags, wiring, seen, shaken, late>>

\* A step that must succeed: this effect, and where it goes on.
Must(pc, after, next) ==
    /\ At(pc)
    /\ \/ Answered(after) /\ Goto(next)
       \/ Unanswered(after) /\ Return(FALSE)

\* A step whose failure does not matter.
May(pc, after, next) ==
    /\ At(pc) /\ Goto(next)
    /\ Answered(after) \/ Unanswered(after)

Clears == Must("option3", [ncp EXCEPT !.wipe = TRUE], "softreset")
          /\ UNCHANGED <<told, flash, flags, wiring, seen, shaken, late>>

SoftReset ==
    /\ At("softreset")
    /\ flags' = [flags EXCEPT !.reset = FALSE]
    /\ Goto("waitsoft")
    /\ \/ ncp' = Rebooted /\ Tells("reset") /\ UNCHANGED used
       \/ Fault /\ UNCHANGED <<ncp, told>>
    /\ UNCHANGED <<flash, wiring, seen, shaken, late>>

\* Five seconds at most; the start goes on without the indication.
WaitSoft ==
    /\ At("waitsoft") /\ Goto("option0")
    /\ UNCHANGED <<ncp, told, flash, flags, wiring, used, seen, shaken, late>>

OptionZero == [ncp EXCEPT !.wipe = FALSE]
ClearsNoMore == Must("option0", OptionZero, "key")

WriteOptionZero == ClearsNoMore /\ UNCHANGED <<told, flash, flags, wiring, seen, shaken, late>>

\* The key of the flash, or a new one that is on the flash before it is used.
UsesIt(k) == hub' = [pc |-> "config", key |-> k, init |-> hub.init, wire |-> hub.wire]   \* mutant
Aborts(k) == Return(FALSE)

NetKey ==
    /\ At("key")
    /\ \/ /\ flash # None
          /\ UsesIt(flash)
          /\ UNCHANGED <<flash, used>>
       \/ /\ flash = None
          /\ flash' = used.keys + 1 /\ used' = [used EXCEPT !.keys = @ + 1]
          /\ UsesIt(used.keys + 1)
       \/ /\ flash = None /\ used.faults < MaxFaults
          /\ flash' \in {None, used.keys + 1}
          /\ used' = [used EXCEPT !.keys = @ + 1, !.faults = @ + 1]
          /\ Aborts(used.keys + 1)
    /\ UNCHANGED <<ncp, told, flags, wiring, seen, shaken, late>>

\* Logical type, key, PAN and channels: a dozen writes, each of which must succeed.
WriteConfig == Must("config", [ncp EXCEPT !.key = hub.key], "form")
               /\ UNCHANGED <<told, flash, flags, wiring, seen, shaken, late>>

Form == May("form", [ncp EXCEPT !.starting = "form"], "waitformed")
        /\ flags' = [flags EXCEPT !.ready = FALSE]
        /\ UNCHANGED <<told, flash, wiring, seen, shaken, late>>

WaitFormed ==
    /\ At("waitformed")
    /\ \/ flags.ready /\ Goto("panid") /\ UNCHANGED late
       \/ ~flags.ready /\ Return(FALSE) /\ late' = TRUE
    /\ UNCHANGED <<ncp, told, flash, flags, wiring, used, seen, shaken>>

\* ZDO_EXT_NWK_INFO, fifty times; steering, startup and the marker after it may fail.
PanId ==
    /\ At("panid")
    /\ \/ Answered(ncp) /\ IF ncp.net # None THEN Goto("marker") ELSE Return(FALSE)
       \/ Unanswered(ncp) /\ Return(FALSE)
    /\ UNCHANGED <<told, flash, flags, wiring, seen, shaken, late>>

\* ZNP_HAS_CONFIGURED, which only zigbee_force_recommission reads, to delete it.
Marker == May("marker", [ncp EXCEPT !.marker = TRUE], "af")
          /\ UNCHANGED <<told, flash, flags, wiring, seen, shaken, late>>

ForceRecommission ==
    /\ At("idle") /\ hub.ok /\ ncp.marker
    /\ Answered([ncp EXCEPT !.marker = FALSE]) \/ Unanswered([ncp EXCEPT !.marker = FALSE])
    /\ UNCHANGED <<told, flash, hub, flags, wiring, seen, shaken, late>>

-----------------------------------------------------------------------------
\* coordinator_start, steps 5 to 9.

Startup == Must("startup", [ncp EXCEPT !.starting = "start"], "waitready")
           /\ flags' = [flags EXCEPT !.ready = FALSE]
           /\ UNCHANGED <<told, flash, wiring, seen, shaken, late>>

WaitReady ==
    /\ At("waitready")
    /\ \/ flags.ready /\ Goto("af")
       \/ ~flags.ready /\ Return(FALSE)
    /\ UNCHANGED <<ncp, told, flash, flags, wiring, used, seen, shaken, late>>

AfRegister == Must("af", [ncp EXCEPT !.af = TRUE], "callbacks")
              /\ UNCHANGED <<told, flash, flags, wiring, seen, shaken, late>>

CbRegister == Must("callbacks", [ncp EXCEPT !.cb = TRUE], "done")
              /\ UNCHANGED <<told, flash, flags, wiring, seen, shaken, late>>

Done ==
    /\ At("done") /\ Return(TRUE)
    /\ flags' = [flags EXCEPT !.done = TRUE] /\ seen' = IF late THEN None ELSE ncp.net
    /\ UNCHANGED <<ncp, told, flash, wiring, used, shaken, late>>

-----------------------------------------------------------------------------
Start == HwReset \/ WaitReset \/ Ping \/ Strategy \/ Startup \/ WaitReady \/ AfRegister \/ CbRegister \/ Done
Commission == DeleteNib \/ Clears \/ SoftReset \/ WaitSoft \/ WriteOptionZero \/ NetKey \/ WriteConfig \/ Form
              \/ WaitFormed \/ PanId \/ Marker

Next ==
    \/ NcpResets \/ NcpStarted \/ OnStateChange \/ OnResetInd
    \/ MgrInit \/ MgrReinit \/ Wire \/ SwitchOff \/ ForceRecommission
    \/ Start \/ Commission

Spec == Init /\ [][Next]_vars

-----------------------------------------------------------------------------
\* The key a network runs with is the one on the hub's flash, so that it survives the hub's
\* restarts, whatever failed while the network was formed.
KeyOnFlash == ncp.net # None => ncp.net = flash

\* A network that was up once is given up only by a start that could not learn whether there is one:
\* not by a reset, not by what an earlier commissioning that failed has left behind.  A network
\* that was formed only after its start had given up is excused: the next start may find it
\* with the startup option still set to clear it.
NetworkKept == seen # None => ncp.net = seen

\* While the hub believes the radio is up, the radio has its registrations, or a reset is about to be
\* heard.  A reset heard while a start registers counts as one it asked for, and is excused.
UpMeansRegistered ==
    flags.done /\ ~flags.crashed /\ ~shaken =>
        (ncp.af /\ ncp.cb) \/ \E i \in DOMAIN told : told[i] = "reset"

\* An initialization that returns TRUE has wired everything, also when an earlier one had failed.
TrueMeansWired == At("idle") /\ hub.init /\ hub.ok => wiring.rest
=============================================================================
