----------------------------- MODULE DevicePool ------------------------------
(***************************************************************************)
(* The table of devices (components/zigbee_mgr/zigbee_pool.cpp) and the    *)
(* device list read from it page by page (hap_json_encode_device_list).    *)
(*                                                                         *)
(* The table is an array: a removal moves the last row into the gap.  Two  *)
(* open-addressing indices find a row by its 64-bit or its network         *)
(* address; they are rebuilt by the first lookup after somebody set the    *)
(* dirty flag.  Every operation holds the pool's recursive mutex, so each  *)
(* is one step; a rejoin sets the flag only after it let the mutex go.     *)
(*                                                                         *)
(* A list is read by the other chip, one page per request; between two     *)
(* pages anything may happen to the table.  The handler between the two is *)
(* not in this repository: it passes the cursor of one page to the next,   *)
(* and stops at the sentinel.                                              *)
(***************************************************************************)
EXTENDS Integers, Sequences, SequencesExt, FiniteSetsExt

CONSTANTS
    Device,     \* 64-bit addresses
    Nwk,        \* network addresses
    Task,       \* tasks that take joins
    PoolMax,    \* ZAP_MAX_DEVICES
    HashSize,   \* HASH_SIZE: more than PoolMax
    Weight,     \* of each device, in a page
    Budget,     \* nine tenths of a frame
    MaxJoins    \* bound: joins

VARIABLES
    rows,       \* s_pool: a sequence of [ieee, nwk, removed]
    index,      \* s_ieee_idx and s_nwk_idx: a row or HASH_EMPTY, for each hash; Dirty once s_hash_dirty is set
    owes,       \* tasks that changed a network address and have not set the flag yet
    list,       \* a list being read: cursor, devices listed so far, devices that have to be, rows moved back
    joins       \* joins so far

vars == <<rows, index, owes, list, joins>>

HASH_EMPTY == 0
Dirty      == <<>>
Hash       == 0 .. HashSize - 1
Key        == {"ieee", "nwk"}
Count      == Len(rows)
RowsOf(k, x) == {i \in 1..Count : rows[i][k] = x}

NotListing == [cursor |-> 0, listed |-> {}, twice |-> {}, due |-> {}, moved |-> {}]

Init ==
    /\ rows = <<>> /\ index = Dirty
    /\ owes = {} /\ list = NotListing /\ joins = 0

-----------------------------------------------------------------------------
\* The indices.

HashOf(x)    == x % HashSize
Probe(h, n)  == (h + n) % HashSize

Insert(table, x, i) ==
    LET n == CHOOSE n \in Hash : /\ table[Probe(HashOf(x), n)] = HASH_EMPTY
                                 /\ \A m \in 0 .. n - 1 : table[Probe(HashOf(x), m)] # HASH_EMPTY
    IN  [table EXCEPT ![Probe(HashOf(x), n)] = i]

hash_rebuild ==
    [k \in Key |-> FoldLeft(LAMBDA table, i : Insert(table, rows[i][k], i),
                            [h \in Hash |-> HASH_EMPTY], [i \in 1..Count |-> i])]

Index == IF index = Dirty THEN hash_rebuild ELSE index
Built == index' = Index

\* pool_find_by_ieee, pool_find_by_nwk: the first row on the probe's way whose address is x now; 0: none.
pool_find(k, x) ==
    LET table == Index[k]
        at(n) == table[Probe(HashOf(x), n)]
        Hits  == {n \in Hash : /\ \A m \in 0..n : at(m) # HASH_EMPTY
                               /\ rows[at(n)][k] = x}
    IN  IF Hits = {} THEN 0 ELSE at(Min(Hits))

\* Frames by network address, and calls by device: each looks up, and so may build the indices.
Lookup == index = Dirty /\ Built /\ UNCHANGED <<rows, owes, list, joins>>

-----------------------------------------------------------------------------
\* Joins.

\* pool_add and the caller's first writes, under one hold of the lock; Fail when the table is full.
pool_add(d, n) == rows' = Append(rows, [ieee |-> d, nwk |-> n, removed |-> FALSE])

\* A device joins, or comes back under another address: seeded, or refreshed and no longer removed.
Join(t, d, n) ==
    /\ joins < MaxJoins /\ t \notin owes /\ joins' = joins + 1
    /\ LET i == pool_find("ieee", d) IN
        \/ /\ i = 0 /\ Count < PoolMax
           /\ pool_add(d, n) /\ index' = Dirty /\ owes' = owes \cup {t}
        \/ /\ i = 0 /\ Count >= PoolMax
           /\ Built /\ UNCHANGED <<rows, owes>>
        \/ /\ i # 0
           /\ rows' = [rows EXCEPT ![i].nwk = n, ![i].removed = FALSE]
           /\ Built /\ owes' = IF rows[i].nwk # n THEN owes \cup {t} ELSE owes
    /\ UNCHANGED list

\* Mutant: the flag is not set.
Unmarked(t) ==
    /\ t \in owes
    /\ owes' = owes \ {t}
    /\ UNCHANGED <<rows, index, list, joins>>

\* zigbee_pool_mark_dirty.
MarkDirty(t) ==
    /\ t \in owes
    /\ index' = Dirty /\ owes' = owes \ {t}
    /\ UNCHANGED <<rows, list, joins>>

\* The interview's fast path for a known device does both under the lock.
RejoinFast(d, n) ==
    /\ joins < MaxJoins /\ joins' = joins + 1
    /\ LET i == pool_find("ieee", d) IN
        /\ i # 0 /\ rows[i].nwk # n
        /\ rows' = [rows EXCEPT ![i].nwk = n]
    /\ index' = Dirty
    /\ UNCHANGED <<owes, list>>

-----------------------------------------------------------------------------
\* Removals, and a restart.

SoftRemove(d) ==
    LET i == pool_find("ieee", d) IN
    /\ i # 0 /\ ~rows[i].removed
    /\ rows' = [rows EXCEPT ![i].removed = TRUE]
    /\ Built
    /\ list' = [list EXCEPT !.due = @ \ {d}]
    /\ UNCHANGED <<owes, joins>>

\* pool_remove: the last row fills the gap.
pool_remove(i) == SubSeq(IF i < Count THEN [rows EXCEPT ![i] = rows[Count]] ELSE rows, 1, Count - 1)

HardRemove(d) ==
    /\ RowsOf("ieee", d) # {}
    /\ LET i == Min(RowsOf("ieee", d)) IN
        /\ rows' = pool_remove(i)
        /\ list' = [list EXCEPT !.due = @ \ {d},
                                !.moved = @ \cup {rows[j].ieee : j \in {j \in {Count} : i <= list.cursor /\ list.cursor < j}}]
    /\ index' = Dirty
    /\ UNCHANGED <<owes, joins>>

\* The rows come back from flash, in its order; ZapStore is about which.
zigbee_pool_restore_persisted ==
    /\ Count > 0
    /\ rows' \in {rows, Reverse(rows)}
    /\ index' = Dirty /\ owes' = {} /\ list' = NotListing
    /\ UNCHANGED joins

-----------------------------------------------------------------------------
\* The list, a page at a time: the rows from the cursor on that fit, at least one; removed ones are skipped.

Visible(i, j) == SelectSeq(SubSeq(rows, i + 1, j), LAMBDA r : ~r.removed)
Weights(seq)  == FoldLeft(LAMBDA sum, r : sum + Weight[r.ieee], 0, seq)

\* The cursor after a page: behind the last row that fits.  One row too large by itself is sent all the same.
PageEnd(start) ==
    LET Fit     == {j \in start..Count : Weights(Visible(start, j)) <= Budget}
        Crowded == {j \in start..Count : Len(Visible(start, j)) = 1}
    IN  IF Count \in Fit \/ Count <= start THEN Count
        ELSE IF Visible(start, Max(Fit)) = <<>> THEN Min(Crowded) ELSE Max(Fit)

Paged(l) ==
    LET shown == {r.ieee : r \in ToSet(Visible(l.cursor, PageEnd(l.cursor)))}
    IN  list' = [l EXCEPT !.cursor = PageEnd(l.cursor), !.listed = @ \cup shown, !.twice = @ \cup (l.listed \cap shown)]

ListStart ==
    /\ list = NotListing /\ Count > 0
    /\ Paged([NotListing EXCEPT !.due = {r.ieee : r \in {s \in ToSet(rows) : ~s.removed}}])
    /\ UNCHANGED <<rows, index, owes, joins>>

hap_json_encode_device_list ==
    /\ list # NotListing /\ list.cursor < Count
    /\ Paged(list)
    /\ UNCHANGED <<rows, index, owes, joins>>

ListEnd ==
    /\ list # NotListing /\ list.cursor >= Count
    /\ list' = NotListing
    /\ UNCHANGED <<rows, index, owes, joins>>

Next ==
    \/ Lookup \/ zigbee_pool_restore_persisted
    \/ \E d \in Device : SoftRemove(d) \/ HardRemove(d)
    \/ \E d \in Device, n \in Nwk : RejoinFast(d, n) \/ \E t \in Task : Join(t, d, n)
    \/ \E t \in Task : MarkDirty(t)
    \/ ListStart \/ hap_json_encode_device_list \/ ListEnd

-----------------------------------------------------------------------------
\* A device has one row and is found by its 64-bit address; a network address somebody holds is found,
\* except while a task has changed one and has not set the flag yet; what is found has the address asked for.
LookupsFind ==
    /\ \A d \in Device : IF RowsOf("ieee", d) = {} THEN pool_find("ieee", d) = 0
                         ELSE RowsOf("ieee", d) = {pool_find("ieee", d)}
    /\ \A n \in Nwk : pool_find("nwk", n) \in RowsOf("nwk", n) \cup {0}
    /\ owes = {} => \A n \in Nwk : RowsOf("nwk", n) # {} => pool_find("nwk", n) # 0

\* A list read to its end names every device that stayed all the while, and none twice, but for those a
\* removal moved into a gap behind the cursor.
PagesComplete ==
    /\ list # NotListing /\ list.cursor >= Count => list.due \subseteq list.listed \cup list.moved
    /\ list.twice \cap list.due = {}
=============================================================================
