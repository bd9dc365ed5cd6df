------------------------------- MODULE HapWire -------------------------------
(***************************************************************************)
(* Frames on a byte stream (components/hap_protocol): encode, decode, and  *)
(* the search for the next frame after bytes were damaged or lost.         *)
(*                                                                         *)
(* A stream is a sequence of symbols: the three bytes of the preamble, the *)
(* version, the rest of the header with its checksum as one symbol, the    *)
(* payload's bytes and its checksum.  A checksum is the data it was made   *)
(* of: a damaged frame always fails it.  The caller reads some bytes,      *)
(* decodes until the decoder wants more, and drops what it consumed.  No   *)
(* such caller is in the repository: the link between the chips uses the   *)
(* decoder of fixed stages (hap_protocol.h:160-164).                       *)
(***************************************************************************)
EXTENDS Integers, Sequences, SequencesExt, FiniteSetsExt

CONSTANTS
    Payload,    \* payloads, over Preamble's symbols and others
    MaxFrames,  \* bound: frames on the stream
    MaxRead     \* bound: symbols read at once

VARIABLES
    wire,       \* symbols still to come
    buf,        \* received, not yet consumed
    intact,     \* frames nothing happened to: [at, payload], at: the place of the first symbol
    gone,       \* symbols consumed so far
    decoded,    \* places of the frames decoded
    excused     \* frames whose preamble straddled two reads, its first half thrown away with garbage

vars == <<wire, buf, intact, gone, decoded, excused>>

Sym(is, v) == [is |-> is, v |-> v]
HAP_PREAMBLE == <<Sym("preamble", 1), Sym("preamble", 2), Sym("preamble", 3)>>
HAP_VERSION  == Sym("version", 4)
Header(len)  == Sym("header", len)
crc16(data)  == Sym("crc", data)
Noise        == Sym("noise", 0)

Before == Len(HAP_PREAMBLE) + 2     \* symbols before the payload

hap_encode(payload) == HAP_PREAMBLE \o <<HAP_VERSION, Header(Len(payload))>> \o payload \o <<crc16(payload)>>

hap_decode(b) ==
    LET len     == b[Before].v
        payload == SubSeq(b, Before + 1, Before + len)
    IN  CASE Len(b) < Before                                -> [is |-> "TRUNCATED"]
          [] ~IsPrefix(HAP_PREAMBLE \o <<HAP_VERSION>>, b)  -> [is |-> "BAD_MAGIC"]
          [] b[Before].is # "header"                        -> [is |-> "BAD_HDR_CRC"]
          [] Len(b) < Before + len + 1                      -> [is |-> "TRUNCATED"]
          [] b[Before + len + 1] # crc16(payload)           -> [is |-> "CRC_ERROR"]
          [] OTHER                                          -> [is |-> "OK", size |-> Before + len + 1]

\* What the caller may drop: a whole frame, nothing yet, all before the next preamble, or everything.
Candidates(b) == {i \in 1 .. Len(b) - 3 : IsPrefix(HAP_PREAMBLE, SubSeq(b, i + 1, Len(b)))}
hap_decode_stream(b) ==
    LET r == hap_decode(b)
    IN  CASE r.is = "OK"        -> r.size
          [] r.is = "TRUNCATED" -> 0
          [] OTHER              -> IF Candidates(b) = {} THEN Len(b) ELSE Min(Candidates(b))

-----------------------------------------------------------------------------
\* A stream of frames, one of them with a symbol damaged, lost, or with noise before it.

Harms(f) == {f} \cup {[f EXCEPT ![i] = Noise] : i \in DOMAIN f} \cup {RemoveAt(f, i) : i \in DOMAIN f}
            \cup {<<Noise>> \o f, <<HAP_PREAMBLE[1]>> \o f}

Init ==
    \E n \in 1..MaxFrames : \E sent \in [1..n -> Payload], k \in 1..n : \E harmed \in Harms(hap_encode(sent[k])) :
        LET part   == [i \in 1..n |-> IF i = k THEN harmed ELSE hap_encode(sent[i])]
            At(i)  == Len(FlattenSeq(SubSeq(part, 1, i - 1)))
            In(i)  == IF i = k /\ IsSuffix(hap_encode(sent[k]), harmed) THEN Len(harmed) - Len(hap_encode(sent[k])) ELSE 0
        IN  /\ wire = FlattenSeq(part)
            /\ intact = {[at |-> At(i) + In(i), payload |-> sent[i]] :
                         i \in {j \in 1..n : IsSuffix(hap_encode(sent[j]), part[j])}}
            /\ buf = <<>> /\ gone = 0 /\ decoded = {} /\ excused = {}

Read ==
    /\ hap_decode_stream(buf) = 0
    /\ \E n \in 1 .. Min({MaxRead, Len(wire)}) :
        /\ buf' = buf \o SubSeq(wire, 1, n)
        /\ wire' = SubSeq(wire, n + 1, Len(wire))
    /\ UNCHANGED <<intact, gone, decoded, excused>>

\* Frames of which the buffer ends with one or two bytes of the preamble.
Straddling == {f \in intact : f.at < gone + Len(buf) /\ gone + Len(buf) < f.at + Len(HAP_PREAMBLE)}

Decode ==
    LET n == hap_decode_stream(buf) IN
    /\ n > 0
    /\ buf' = SubSeq(buf, n + 1, Len(buf)) /\ gone' = gone + n
    /\ decoded' = IF hap_decode(buf).is = "OK" THEN decoded \cup {gone} ELSE decoded
    /\ excused' = IF hap_decode(buf).is # "OK" /\ Candidates(buf) = {} THEN excused \cup Straddling ELSE excused
    /\ UNCHANGED <<wire, intact>>

Next == (wire # <<>> /\ Read) \/ Decode

-----------------------------------------------------------------------------
\* No frame that arrived whole is dropped unread, whatever happened to the ones around it and wherever the
\* reads fell, and nothing else is taken for a frame.  One case is excused, where the code does not do what
\* hap_protocol's README:374-377 says of it: when no preamble is in sight the whole buffer is consumed, and
\* not all but its last three bytes (hap_protocol.cpp:108-114), so a frame whose preamble straddles that read
\* and the next is lost.
FramesFound ==
    /\ \A f \in intact : gone > f.at => f.at \in decoded \/ f \in excused
    /\ \A at \in decoded : \E f \in intact : f.at = at
=============================================================================
