------------------------------ MODULE DefCache ------------------------------
(***************************************************************************)
(* Which definition decodes a device's frames: the per-device cache of     *)
(* components/zhc_adapter/src/zhc_adapter.cpp over the pool of definitions *)
(* synthesized from a device's clusters (zhc_adapter_fallback.cpp).        *)
(*                                                                         *)
(* A slot of the pool builds into the half nobody was given and publishes  *)
(* it by a flip, under the pool's mutex.  The cache has a mutex of its     *)
(* own, and neither is taken inside the other: a slot that changes hands   *)
(* clears the cached pointers into it entry by entry, under the pool's     *)
(* mutex alone, while the radio task resolves, stores and validates.       *)
(* One step here is one hold of a mutex, or one entry of that walk.        *)
(*                                                                         *)
(* The registry is a set of known models; a definition of it handles       *)
(* Covered, and what else the device has is left to a supplement.          *)
(***************************************************************************)
EXTENDS Naturals, Sequences, SequencesExt

CONSTANTS
    Device,
    Nobody,             \* no device: a free slot of the pool
    Pool,               \* kPoolSize slots
    Offers, Covered,    \* what a device may offer; what a registry definition handles
    Matched             \* devices whose model, once known, is in the registry

CONSTANTS MaxEdits      \* bound: registrations, removals, names learned

VARIABLES
    named,      \* devices whose model the hub knows
    slot,       \* g_slots: the cached definition and supplement
    pool,       \* g_pool
    recent,     \* owners of the pool's slots, least recently used first
    task,       \* the radio task, and another that configures or commands
    writer,     \* the task that registers an endpoint, or forgets a device
    edits,      \* the bound's counter
    raced       \* history: devices forgotten, registered or named while the radio resolved them

vars == <<named, slot, pool, recent, task, writer, edits, raced>>

-----------------------------------------------------------------------------
Resolver == {"radio", "caller"}

\* Pointers: none, g_miss_sentinel, the registry's, or one into a half of a pool's slot.
Null     == <<"null">>
Miss     == <<"miss">>
Registry == <<"registry">>
Half(p, h)   == <<"pool", p, h>>
IntoPool(x)  == x[1] = "pool"
Into(x, p)   == IntoPool(x) /\ x[2] = p

Blank   == [of |-> Nobody, named |-> FALSE, has |-> {}]
Unowned == [dev |-> Nobody, data |-> {}, built |-> FALSE, base |-> Null]
Done    == [pc |-> "idle", dev |-> Nobody]

Init ==
    /\ named = {}
    /\ slot = [d \in Device |-> [def |-> Null, supp |-> Null]]
    /\ pool = [p \in Pool |-> [dev |-> Nobody, data |-> {}, built |-> FALSE, base |-> Null,
                               active |-> 0, bufs |-> [h \in {0, 1} |-> Blank]]]
    /\ recent = <<>>
    /\ task = [t \in Resolver |-> Done] /\ writer = Done
    /\ edits = 0 /\ raced = {}

\* The pool's mutex; its other holders take one step.
PoolFree == writer.pc # "walk"

Owner(p)  == pool[p].dev
SlotOf(d) == {p \in Pool : Owner(p) = d}
Touched(d) == IF SlotOf(d) = {} THEN recent ELSE Append(SelectSeq(recent, LAMBDA e : e # d), d)

Owns(d, x) == IntoPool(x) => Owner(x[2]) = d

-----------------------------------------------------------------------------
\* find_definition; the memo before it returns what the walk returned.
FindDefinition(d, name) == IF name /\ d \in Matched THEN Registry ELSE Null

\* synth_definition: what is built, for this base and these labels, or the half as it is.
Spare(p)   == 1 - pool[p].active

Handled(base) == IF base = Registry THEN Covered ELSE {}

Fresh(p, name, base) == pool[p].built /\ pool[p].base = base /\ pool[p].bufs[pool[p].active].named = name

Synthesized(d, name, base) ==
    [p \in Pool |->
        IF Owner(p) # d \/ Fresh(p, name, base) THEN pool[p]
        ELSE [pool[p] EXCEPT !.built = TRUE, !.base = base, !.active = Spare(p),
                             !.bufs[Spare(p)] = [of |-> d, named |-> name, has |-> pool[p].data \ Handled(base)]]]

Published(d) ==
    LET mine == {p \in Pool : pool'[p].dev = d}
        p    == CHOOSE p \in mine : TRUE
    IN  IF mine = {} \/ pool'[p].bufs[pool'[p].active].has = {} THEN Null ELSE Half(p, pool'[p].active)

Synth(d, name, base) == PoolFree /\ pool' = Synthesized(d, name, base) /\ recent' = Touched(d)

-----------------------------------------------------------------------------
\* Both tasks: the definition, then its supplement, from a copy of the device's record.

\* zhac_adapter_try_decode, after set_runtime_addr gave the device its slot.
Decode(d) ==
    /\ task["radio"].pc = "idle"
    /\ slot[d].def = Null      \* or else the frame goes through what the slot has, and nothing changes
    /\ task' = [task EXCEPT !["radio"] = [pc |-> "primary", dev |-> d, name |-> d \in named]]
    /\ raced' = raced \ {d}
    /\ UNCHANGED <<named, slot, pool, recent, writer, edits>>

\* zhac_adapter_configure and the sends; a send takes a cached definition that the device owns.
Call(d) ==
    /\ task["caller"].pc = "idle"
    /\ \/ task' = [task EXCEPT !["caller"] = [pc |-> "primary", dev |-> d, name |-> d \in named]]
       \/ /\ PoolFree /\ slot[d].def \notin {Null, Miss} /\ Owns(d, slot[d].def)
          /\ task' = [task EXCEPT !["caller"] = [pc |-> "supp", dev |-> d, name |-> d \in named, def |-> slot[d].def]]
    /\ UNCHANGED <<named, slot, pool, recent, writer, edits, raced>>

\* resolve_definition; without a registry definition there is no supplement.
Primary(t) ==
    LET c == task[t]
        d == c.dev
    IN  /\ c.pc = "primary"
        /\ IF FindDefinition(d, c.name) = Registry
           THEN /\ task' = [task EXCEPT ![t] = [pc |-> "supp", dev |-> d, name |-> c.name, def |-> Registry]]
                /\ UNCHANGED <<pool, recent>>
           ELSE /\ Synth(d, c.name, Null)
                /\ task' = [task EXCEPT ![t] = IF t = "radio" THEN [pc |-> "store", dev |-> d, def |-> Published(d), supp |-> Null] ELSE Done]
        /\ UNCHANGED <<named, slot, writer, edits, raced>>

\* resolve_supplement: the cached answer, or ...
After(t, supp) ==
    task' = [task EXCEPT ![t] = IF t = "radio" THEN [pc |-> "store", dev |-> @.dev, def |-> @.def, supp |-> supp] ELSE Done]

Supplement(t) ==
    LET c == task[t]
        s == slot[c.dev].supp
    IN  /\ c.pc = "supp"
        /\ \/ FindDefinition(c.dev, c.name) = Null /\ After(t, Null)
           \/ FindDefinition(c.dev, c.name) # Null /\ s # Null /\ After(t, IF s = c.def THEN Null ELSE s)
           \/ FindDefinition(c.dev, c.name) # Null /\ s = Null /\ task' = [task EXCEPT ![t].pc = "synth"]
        /\ UNCHANGED <<named, slot, pool, recent, writer, edits, raced>>

\* ... a new one, whose owner is checked before it is stored.
SuppSynth(t) ==
    LET c == task[t]
    IN  /\ c.pc = "synth" /\ Synth(c.dev, c.name, c.def)
        /\ task' = [task EXCEPT ![t] = [pc |-> "check", dev |-> c.dev, def |-> c.def, supp |-> Published(c.dev)]]
        /\ UNCHANGED <<named, slot, writer, edits, raced>>

SuppCheck(t) ==
    LET c == task[t]
        x == IF c.supp = Null THEN c.def ELSE c.supp
    IN  /\ c.pc = "check" /\ PoolFree
        /\ task' = [task EXCEPT ![t] = [pc |-> "keep", dev |-> c.dev, def |-> c.def, supp |-> c.supp,
                                        kept |-> IF Owns(c.dev, x) THEN x ELSE Null]]
        /\ UNCHANGED <<named, slot, pool, recent, writer, edits, raced>>

SuppStore(t) ==
    /\ task[t].pc = "keep"
    /\ slot' = [slot EXCEPT ![task[t].dev].supp = task[t].kept]
    /\ After(t, task[t].supp)
    /\ UNCHANGED <<named, pool, recent, writer, edits, raced>>

\* try_decode stores what it resolved, then validates it, and drops it when it changed hands.
Store ==
    LET c == task["radio"]
    IN  /\ c.pc = "store"
        /\ slot' = [slot EXCEPT ![c.dev] = [def |-> IF c.def = Null THEN Miss ELSE c.def, supp |-> c.supp]]
        /\ task' = [task EXCEPT !["radio"] = IF c.def = Null THEN Done ELSE [c EXCEPT !.pc = "validate"]]
        /\ UNCHANGED <<named, pool, recent, writer, edits, raced>>

Trusted(d, def, supp) == TRUE   \* mutant
StillOwned(d, def, supp) == Owns(d, def) /\ Owns(d, supp)

Validate ==
    LET c == task["radio"]
    IN  /\ c.pc = "validate" /\ PoolFree
        /\ task' = [task EXCEPT !["radio"] = IF StillOwned(c.dev, c.def, c.supp) THEN Done ELSE [c EXCEPT !.pc = "drop"]]
        /\ UNCHANGED <<named, slot, pool, recent, writer, edits, raced>>

Drop ==
    LET c == task["radio"]
    IN  /\ c.pc = "drop"
        /\ slot' = [slot EXCEPT ![c.dev] = [def |-> Null, supp |-> Null]]
        /\ task' = [task EXCEPT !["radio"] = Done]
        /\ UNCHANGED <<named, pool, recent, writer, edits, raced>>

-----------------------------------------------------------------------------
\* The writer.

Edit == edits < MaxEdits /\ edits' = edits + 1

\* What resolves d now decides on facts that change under it.
Overtakes(d) == raced' = IF task["radio"].dev = d THEN raced \cup {d} ELSE raced

\* alloc_slot: the device's slot, a free one, or the least recently used; one that changes
\* hands is reset, which first walks the cache.
Victim(d) ==
    IF SlotOf(d) # {} THEN CHOOSE p \in SlotOf(d) : TRUE
    ELSE IF SlotOf(Nobody) # {} THEN CHOOSE p \in SlotOf(Nobody) : TRUE
    ELSE CHOOSE p \in SlotOf(Head(recent)) : TRUE

\* What a walk leaves of a reference, when p changes hands.
Kept(x, p) == IF Into(x, p) THEN Null ELSE x

Registered(p, d, data) ==
    /\ pool' = [pool EXCEPT ![p].dev = d, ![p].data = data, ![p].built = FALSE,
                            ![p].base = IF Owner(p) = d THEN @ ELSE Null]
    /\ recent' = Append(SelectSeq(recent, LAMBDA e : e \notin {d, Owner(p)}), d)

RegisterEndpoint(d, data) ==
    /\ writer.pc = "idle" /\ Edit /\ Overtakes(d)
    /\ IF SlotOf(d) # {}
       THEN /\ Registered(Victim(d), d, data)
            /\ writer' = [pc |-> "clear", dev |-> d]
       ELSE /\ writer' = [pc |-> "walk", dev |-> d, pool |-> Victim(d), left |-> Device, data |-> data]
            /\ UNCHANGED <<pool, recent>>
    /\ UNCHANGED <<named, slot, task>>

\* zhac_adapter_fallback_clear.
FallbackClear(d) ==
    /\ writer.pc = "idle" /\ Edit /\ Overtakes(d)
    /\ writer' = IF SlotOf(d) = {} THEN [pc |-> "clear", dev |-> d]
                 ELSE [pc |-> "walk", dev |-> d, pool |-> Victim(d), left |-> Device, data |-> {}]
    /\ UNCHANGED <<named, slot, pool, recent, task>>

\* invalidate_cached_defs_in, one entry of the cache.
Walk(d) ==
    /\ writer.pc = "walk" /\ d \in writer.left
    /\ slot' = [slot EXCEPT ![d] = [def |-> Kept(@.def, writer.pool), supp |-> Kept(@.supp, writer.pool)]]
    /\ writer' = [writer EXCEPT !.left = @ \ {d}]
    /\ UNCHANGED <<named, pool, recent, task, edits, raced>>

\* The rest of reset_slot, and the new owner's data when there is one.
Handover ==
    /\ writer.pc = "walk" /\ writer.left = {}
    /\ LET p == writer.pool
       IN  IF Owner(p) = writer.dev
           THEN /\ pool' = [pool EXCEPT ![p] = Unowned @@ @]
                /\ recent' = SelectSeq(recent, LAMBDA e : e # writer.dev)
           ELSE Registered(p, writer.dev, writer.data)
    /\ writer' = [pc |-> "clear", dev |-> writer.dev]
    /\ UNCHANGED <<named, slot, task, edits, raced>>

\* clear_cached_defs_for.
Cleared(s)   == [def |-> Null, supp |-> Null]

ClearCached ==
    /\ writer.pc = "clear" /\ writer' = Done
    /\ slot' = [slot EXCEPT ![writer.dev] = Cleared(@)]
    /\ UNCHANGED <<named, pool, recent, task, edits, raced>>

\* The model becomes known; the record is written first, zhac_adapter_invalidate_def_cache follows.
LearnName(d) ==
    /\ writer.pc = "idle" /\ d \notin named /\ Edit /\ Overtakes(d)
    /\ named' = named \cup {d}
    /\ writer' = [pc |-> "clear", dev |-> d]
    /\ UNCHANGED <<slot, pool, recent, task>>

-----------------------------------------------------------------------------
Next ==
    \/ \E d \in Device : \/ Decode(d) \/ Call(d) \/ Walk(d) \/ FallbackClear(d) \/ LearnName(d)
                         \/ \E data \in Offers : RegisterEndpoint(d, data)
    \/ \E t \in Resolver : Primary(t) \/ Supplement(t) \/ SuppSynth(t) \/ SuppCheck(t) \/ SuppStore(t)
    \/ Store \/ Validate \/ Drop \/ Handover \/ ClearCached

Spec == Init /\ [][Next]_vars

-----------------------------------------------------------------------------
Content(x) == pool[x[2]].bufs[x[3]]

\* The radio has stored for d and not yet validated what it stored.
Storing(d) == task["radio"].dev = d /\ task["radio"].pc \in {"validate", "drop"}

\* A cached definition was built for the device it decodes: no slot that changed hands, and no
\* second rebuild of one, ever leaves a frame to another device's definition.
CachedIsOwn ==
    \A d \in Device : IntoPool(slot[d].def) => Storing(d) \/ (Owner(slot[d].def[2]) = d /\ (d \in raced \/ Content(slot[d].def).of = d))

\* A device is not left on an answer that its clusters or its name have overtaken: with nothing
\* under way, a cached miss means that there is still no definition, and a synthesized one that
\* the registry has none, unless the change came while the radio was resolving.
CachedIsCurrent ==
    \A d \in Device \ raced :
        writer.dev = d \/ task["radio"].dev = d \/
        /\ slot[d].def = Miss => ~(d \in named /\ d \in Matched) /\ \A p \in SlotOf(d) : pool[p].data = {}
        /\ IntoPool(slot[d].def) => ~(d \in named /\ d \in Matched)

=============================================================================
