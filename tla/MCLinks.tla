-------------------------------- MODULE MCLinks ------------------------------
(***************************************************************************)
(* Five parts of the links between the chips and to the radio, which share *)
(* no state here: a behaviour explores the one that part names, and leaves *)
(* the others as they start.                                               *)
(* The session between the chips: one sending task, two slots, two frames, *)
(* a filter of two; a reset of the link and a restart of either chip, in   *)
(* any mixture.  The driver of the radio: two callers, one reply slot, one *)
(* confirm slot.  ZCL frames: two addresses, of which one is unknown, and  *)
(* a queue of one.  Start-up: three calls of init or reinit, two faults,   *)
(* the hub off once.  The UART: three frames and a ring of one, a damaged  *)
(* byte and an overrun.                                                    *)
(***************************************************************************)
EXTENDS HapSession, TLC

CONSTANTS c1, c2, c3

VARIABLES part,
          pool, free, request_q, wake_q, active, state, bursts, confirm, call, worker, rx, to_ncp, to_host,
          accepted, delivered, calls, ncp_resets, gated, done,
          seq, air, incoming, queue, slot, asking, acts, worked, crossed,
          ncp, told, flash, hub, flags, wiring, used, seen, shaken, late,
          wire, inside, body, ring, now, out, dropped, gone, clean, intact, overruns

Callers  == {c1, c2}
Symmetry == Permutations(Callers)

Driver == INSTANCE ZnpDriver WITH
    Caller <- Callers, Cmd <- {"af"}, Af <- "af", PoolN <- 1, ReqCap <- 1, WakeCap <- 1, ConfN <- 1, BurstN <- 1,
    Attempts <- 2, MaxCalls <- 2, MaxResets <- 1, MaxChan <- 1, resets <- ncp_resets
Zcl == INSTANCE ZclExchange WITH
    Device <- {1, 2}, Unknown <- {2}, Caller <- {c3}, Sendable <- {"write"}, Depth <- 1, SeqMod <- 8, MaxActs <- 2,
    rx <- incoming, call <- asking
Start == INSTANCE Coordinator WITH
    ResetAttempts <- 2, MaxFaults <- 2, MaxStarts <- 3, MaxOffs <- 1, MaxTold <- 3

Indications == {[cmd0 |-> 69, cmd1 |-> 202, data |-> <<1>>], [cmd0 |-> 69, cmd1 |-> 130, data |-> <<2, 1>>],
                [cmd0 |-> 68, cmd1 |-> 129, data |-> <<>>]}
Serial == INSTANCE MtStream WITH
    Indication <- Indications, MaxLen <- 2, DUP_RING_SIZE <- 1, Window <- 2, MaxSent <- 3, MaxNow <- 2, MaxOverruns <- 1

ASSUME ZnpConstants == Driver!ConstantsFit

session  == vars
requests == <<pool, free, request_q, wake_q, active, state, bursts, confirm, call, worker, rx, to_ncp, to_host,
              accepted, delivered, calls, ncp_resets, gated, done>>
exchange == <<seq, air, incoming, queue, slot, asking, acts, worked, crossed>>
start    == <<ncp, told, flash, hub, flags, wiring, used, seen, shaken, late>>
serial   == <<wire, inside, body, ring, now, out, dropped, gone, clean, intact, overruns>>

MCInit ==
    /\ part \in {"session", "driver", "frames", "start", "serial"}
    /\ Init /\ Driver!Init /\ Zcl!Init /\ Start!Init
    /\ part # "driver" => state = "Init"
    /\ IF part = "serial" THEN Serial!Init
       ELSE /\ wire = <<>> /\ inside = FALSE /\ body = <<>> /\ ring = <<>> /\ now = 0 /\ out = <<>>
            /\ dropped = {} /\ gone = 0 /\ clean = 0 /\ intact = {} /\ overruns = 0

MCNext ==
    /\ UNCHANGED part
    /\ \/ part = "session" /\ Next        /\ UNCHANGED <<requests, exchange, start, serial>>
       \/ part = "driver"  /\ Driver!Next /\ UNCHANGED <<session, exchange, start, serial>>
       \/ part = "frames"  /\ Zcl!Next    /\ UNCHANGED <<session, requests, start, serial>>
       \/ part = "start"   /\ Start!Next  /\ UNCHANGED <<session, requests, exchange, serial>>
       \/ part = "serial"  /\ Serial!Next /\ UNCHANGED <<session, requests, exchange, start>>

MCSpec == MCInit /\ [][MCNext]_<<part, session, requests, exchange, start, serial>>

\* See ZnpDriver: every request has one answer, its own, and a gated success is a delivery; whoever is
\* in the middle of a call can go on, or the worker can.
SendsAreHonest == part = "driver" => Driver!SendsAreHonest
NobodyStuck    == part = "driver" => Driver!NobodyStuck

\* What the radio says reaches the one it is for, and once: a default response the device, the membership
\* the caller who asked this device for it; an indication that is repeated is heard once, and what follows
\* a damaged byte is heard again.
AnswersMatch ==
    /\ part = "frames" => Zcl!AnsweredOnce /\ Zcl!MembershipIsOfAsked
    /\ part = "serial" => Serial!Resynchronises /\ Serial!RepeatsDropped

\* The network outlives failed starts, resets and the hub: it runs with the key the hub has saved, is
\* given up only by a start that could not learn that there is one, and while the hub believes that the
\* radio is up the radio has its registrations.
NetworkSurvives == part = "start" => Start!KeyOnFlash /\ Start!NetworkKept /\ Start!UpMeansRegistered
=============================================================================
