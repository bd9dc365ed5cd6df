------------------------------ MODULE MtStream ------------------------------
(***************************************************************************)
(* From the radio's UART to its subscribers (components/znp_driver): the   *)
(* RX task feeds the MT parser byte by byte, throws everything away after  *)
(* an overrun, and drops an indication the radio repeats.                  *)
(*                                                                         *)
(* A byte is a number, and a check byte is the bytes it was made of: a     *)
(* damaged frame always fails it.  The hash of a frame is the frame.  All  *)
(* frames are indications; answers and resets are in ZnpDriver.  Time      *)
(* counts steps of which Window make 200 ms; the lap of its 32 bits, 49    *)
(* days, is left out.                                                      *)
(***************************************************************************)
EXTENDS Integers, Sequences, SequencesExt, FiniteSetsExt

CONSTANTS
    Indication,    \* what the radio says: [cmd0, cmd1, data]
    MaxLen,        \* ZNP_MAX_DATA_LEN
    DUP_RING_SIZE,
    Window,        \* DUP_WINDOW_MS
    MaxSent,       \* bounds: frames on the stream,
    MaxNow,        \*   steps of time,
    MaxOverruns    \*   overruns

VARIABLES
    wire,          \* bytes still to come
    inside, body,  \* st_ # Sof; the bytes since then (len_, cmd0_, cmd1_, data_)
    ring, now,     \* s_dup_ring, newest last; the clock
    out, dropped,  \* dispatched, and dropped as repeated: [frame, at, time]
    gone, clean,   \* bytes taken from the stream; where its last damage ends
    intact,        \* frames nothing happened to: [at, size]
    overruns

vars == <<wire, inside, body, ring, now, out, dropped, gone, clean, intact, overruns>>

Byte(v)   == [v |-> v, sum |-> <<>>]
MT_SOF    == Byte(254)
Noise     == Byte(1)
znp_mt_fcs(bytes) == [v |-> 0, sum |-> bytes]

Bytes(f) == <<Byte(Len(f.data)), Byte(f.cmd0), Byte(f.cmd1)>> \o [i \in DOMAIN f.data |-> Byte(f.data[i])]
znp_mt_encode(f) == <<MT_SOF>> \o Bytes(f) \o <<znp_mt_fcs(Bytes(f))>>

\* A stream of frames, one of them with a byte damaged, lost, or with noise or a stray start before it.
Harms(f) == {f} \cup {[f EXCEPT ![i] = Noise] : i \in DOMAIN f} \cup {RemoveAt(f, i) : i \in DOMAIN f}
            \cup {<<Noise>> \o f, <<MT_SOF>> \o f}

Init ==
    /\ \E n \in 1..MaxSent : \E sent \in [1..n -> Indication], k \in 1..n : \E harmed \in Harms(znp_mt_encode(sent[k])) :
          LET part  == [i \in 1..n |-> IF i = k THEN harmed ELSE znp_mt_encode(sent[i])]
              At(i) == Len(FlattenSeq(SubSeq(part, 1, i - 1)))
              before == IF IsSuffix(znp_mt_encode(sent[k]), harmed) THEN Len(harmed) - Len(znp_mt_encode(sent[k])) ELSE Len(harmed)
          IN  /\ wire = FlattenSeq(part)
              /\ intact = {[at |-> At(i) + Len(part[i]) - Len(znp_mt_encode(sent[i])), size |-> Len(znp_mt_encode(sent[i]))] :
                           i \in {j \in 1..n : IsSuffix(znp_mt_encode(sent[j]), part[j])}}
              /\ clean = IF before = 0 THEN 0 ELSE At(k) + before
    /\ inside = FALSE /\ body = <<>> /\ ring = <<>> /\ now = 0
    /\ out = <<>> /\ dropped = {} /\ gone = 0 /\ overruns = 0

-----------------------------------------------------------------------------
zdo_areq_is_in_scope(f) == f.cmd0 = 69 /\ f.cmd1 \in {130, 132, 133, 202}

Repeated(f) == \E e \in ToSet(ring) : e.frame = f /\ now - e.time < Window
Newest(r)   == IF Len(r) > DUP_RING_SIZE THEN Tail(r) ELSE r

\* on_frame with areq_is_dup: a repetition leaves the ring as it is.
on_frame(f) ==
    LET heard == [frame |-> f, at |-> gone - Len(f.data) - 4, time |-> now]
    IN  IF zdo_areq_is_in_scope(f) /\ Repeated(f)
        THEN dropped' = dropped \cup {heard} /\ UNCHANGED <<ring, out>>
        ELSE /\ out' = Append(out, heard)
             /\ ring' = IF zdo_areq_is_in_scope(f) THEN Newest(Append(ring, heard)) ELSE ring
             /\ UNCHANGED dropped

Reset == inside' = FALSE /\ body' = <<>>
Parsed == [cmd0 |-> body[2].v, cmd1 |-> body[3].v, data |-> [i \in 1 .. Len(body) - 3 |-> body[i + 3].v]]

Expects ==
    CASE ~inside                        -> "Sof"
      [] inside /\ body = <<>>          -> "Len"
      [] inside /\ Len(body) \in {1, 2} -> "Cmd"
      [] OTHER -> IF Len(body) - 3 < body[1].v THEN "Data" ELSE "Fcs"

\* MtStreamParser::feed with the next byte.
Feed ==
    /\ wire # <<>>
    /\ wire' = Tail(wire) /\ gone' = gone + 1
    /\ LET b == Head(wire) IN
          \/ /\ Expects = "Sof"
             /\ inside' = (b = MT_SOF) /\ UNCHANGED <<body, ring, out, dropped>>
          \/ /\ Expects = "Len"
             /\ IF b.v > MaxLen THEN Reset ELSE body' = <<b>> /\ UNCHANGED inside
             /\ UNCHANGED <<ring, out, dropped>>
          \/ /\ Expects \in {"Cmd", "Data"}
             /\ body' = Append(body, b) /\ UNCHANGED <<inside, ring, out, dropped>>
          \/ /\ Expects = "Fcs"
             /\ Reset
             /\ IF b = znp_mt_fcs(body) THEN on_frame(Parsed) ELSE UNCHANGED <<ring, out, dropped>>
    /\ UNCHANGED <<now, clean, intact, overruns>>

\* The driver's buffer ran over: what it held is flushed, and the parser starts afresh.
Overrun ==
    /\ overruns < MaxOverruns
    /\ overruns' = overruns + 1
    /\ \E n \in 0 .. Len(wire) :
          wire' = SubSeq(wire, n + 1, Len(wire)) /\ gone' = gone + n /\ clean' = Max({clean, gone + n})
    /\ Reset
    /\ UNCHANGED <<ring, now, out, dropped, intact>>

Tick == now < MaxNow /\ now' = now + 1 /\ UNCHANGED <<wire, inside, body, ring, out, dropped, gone, clean, intact, overruns>>

Next == Feed \/ Overrun \/ Tick

-----------------------------------------------------------------------------
Found == {e.at : e \in ToSet(out) \cup dropped}

\* Only what the radio sent is heard, and damage is over soon: a frame that starts a longest frame after
\* the last damaged byte is heard, unless a payload looks like the start of a frame.
Resynchronises ==
    /\ \A at \in Found : \E f \in intact : f.at = at
    /\ (\A f \in Indication : 254 \notin ToSet(f.data)) =>
          \A f \in intact : f.at >= clean + MaxLen + 4 /\ gone >= f.at + f.size => f.at \in Found

\* Of an indication that comes again within the window one is passed on, while the ring remembers it,
\* and nothing is dropped that was not passed on shortly before.
RepeatsDropped ==
    /\ \A i, j \in DOMAIN out :
          i < j /\ out[i].frame = out[j].frame /\ zdo_areq_is_in_scope(out[i].frame) /\ out[j].time - out[i].time < Window
          => Cardinality({k \in i + 1 .. j - 1 : zdo_areq_is_in_scope(out[k].frame)}) >= DUP_RING_SIZE
    /\ \A d \in dropped : \E e \in ToSet(out) :
          e.frame = d.frame /\ e.at < d.at /\ d.time - e.time \in 0 .. Window - 1
=============================================================================
