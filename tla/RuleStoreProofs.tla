--------------------------- MODULE RuleStoreProofs ---------------------------
(***************************************************************************)
(* Proofs about RuleStore.  Table and jobs: one slot per rule, one flusher *)
(* per slot.  With any number of editing tasks: a load never finds what is *)
(* older than the edits it had to find, and a flush_now that said yes has  *)
(* every edit it found pending on flash; and the store implements RuleMap  *)
(* while a direct write of a rule is alone with it (DirectAlone).          *)
(***************************************************************************)
EXTENDS RuleStore, TLAPS

Flusher == Client \cup {Tick}
Busy(f) == job[f] # NoJob
Open(i) == dirty[i].state # "clean"

store == <<dirty, nvs, job, edits, deletes, failed, restarts>>

\* Steps that leave the store alone: what they change is a client's call.
CallStep ==
    \/ \E c \in Client, r \in Rule, del \in BOOLEAN : MarkDirect(c, r, del)
    \/ \E c \in Client, r \in Rule : LoadOverlay(c, r)
    \/ \E c \in Client :
          \/ FlushNow(c) \/ WaitEnds(c) \/ CheckPending(c)
          \/ ListRows(c) \/ MaxIdRows(c) \/ Reads(c)

LEMMA CallStepsKeepStore == CallStep => UNCHANGED store
BY DEF CallStep, MarkDirect, LoadOverlay, FlushNow, WaitEnds, CheckPending, ListRows,
       MaxIdRows, Reads, LoadNvs, ListMerge, MaxIdTable, Return, store

\* Every step, by what it does to the store.
LEMMA StepCases ==
    ASSUME Next
    PROVE \/ \E c \in Editor, r \in Rule, del \in BOOLEAN : Mark(c, r, del)
          \/ \E c \in Client : DirectWrite(c)
          \/ \E f \in Flusher, i \in Slot : Claim(f, i) /\ UNCHANGED <<nvs, edits, deletes, failed, restarts>>
          \/ \E f \in Flusher : Write(f) \/ Settle(f)
          \/ Restart
          \/ UNCHANGED store
<1>1. ASSUME NEW c \in Editor, Edits(c)
      PROVE (\E r \in Rule, del \in BOOLEAN : Mark(c, r, del)) \/ UNCHANGED store
  BY <1>1 DEF Edits, MarkDirect, store
<1>2. ASSUME NEW c \in Client, Barrier(c)
      PROVE \/ \E i \in Slot : Claim(c, i) /\ UNCHANGED <<nvs, edits, deletes, failed, restarts>>
            \/ UNCHANGED store
  BY <1>2 DEF Barrier, PassStep, WaitEnds, CheckPending, store
<1>3. ASSUME NEW c \in Client, Reads(c) PROVE UNCHANGED store
  BY <1>3 DEF Reads, LoadNvs, ListMerge, MaxIdTable, Return, store
<1>4. ASSUME NEW c \in Reader, ListRows(c) \/ MaxIdRows(c) \/ \E r \in Rule : LoadOverlay(c, r)
      PROVE UNCHANGED store
  BY <1>4 DEF ListRows, MaxIdRows, LoadOverlay, store
<1>5. ASSUME NEW c \in Shutdown, FlushNow(c) PROVE UNCHANGED store
  BY <1>5 DEF FlushNow, store
<1>6. ASSUME NEW i \in Slot, TickClaim(i)
      PROVE \E f \in Flusher : Claim(f, i) /\ UNCHANGED <<nvs, edits, deletes, failed, restarts>>
  BY <1>6 DEF TickClaim, Flusher
<1>q. QED BY <1>1, <1>2, <1>3, <1>4, <1>5, <1>6 DEF Next, Flushing, Flusher

-----------------------------------------------------------------------------
LEMMA OpenType ==
    ASSUME StoreTypeOK, NEW i \in Slot, Open(i)
    PROVE /\ dirty[i] \in Pending
          /\ dirty[i].rule \in Rule /\ dirty[i].edit \in Edit
BY DEF StoreTypeOK, Open, Pending, Clean

LEMMA BusyType ==
    ASSUME StoreTypeOK, NEW f \in Flusher, Busy(f)
    PROVE /\ job[f] \in Job
          /\ job[f].slot \in Slot /\ job[f].rule \in Rule /\ job[f].edit \in Edit
          /\ job[f].phase \in {"claimed", "ok", "failed"}
BY DEF StoreTypeOK, Busy, Job, Flusher

LEMMA PhaseBusy ==
    ASSUME NEW f \in Flusher, job[f].phase \in {"claimed", "ok", "failed"}
    PROVE Busy(f)
BY DEF Busy, NoJob

LEMMA InitType == Init => StoreTypeOK
BY StoreConstants DEF Init, StoreTypeOK, RuleFn, Version, Edit, Flusher

LEMMA EntryType ==
    ASSUME StoreTypeOK, NEW r \in Rule, NEW del \in BOOLEAN, NEW i \in Slot, edits < MaxEdits
    PROVE /\ Entry(r, del, dirty[i]) \in Pending
          /\ Entry(r, del, dirty[i]).state # "clean"
          /\ Entry(r, del, dirty[i]).rule = r
          /\ Entry(r, del, dirty[i]).edit = edits + 1
          /\ Entry(r, del, dirty[i]).flushing = dirty[i].flushing
          /\ Entry(r, del, dirty[i]).remarked = dirty[i].flushing
<1>0. dirty[i] \in Pending \/ dirty[i] = Clean
  BY DEF StoreTypeOK
<1>1. dirty[i].flushing \in BOOLEAN
  <2>1. CASE dirty[i] \in Pending BY <2>1 DEF Pending
  <2>2. CASE dirty[i] = Clean BY <2>2 DEF Clean
  <2>q. QED BY <1>0, <2>1, <2>2
<1>2. edits + 1 \in Edit
  BY StoreConstants DEF StoreTypeOK, Edit, Version
<1>q. QED BY <1>1, <1>2 DEF Entry, Pending

\* Accept numbers the edit and leaves the history in range.
LEMMA AcceptType ==
    ASSUME StoreTypeOK, NEW del \in BOOLEAN, Accept(del)
    PROVE /\ edits' = edits + 1 /\ edits' \in Version /\ edits' \in Edit
          /\ deletes' \subseteq Edit
BY StoreConstants DEF StoreTypeOK, Accept, Edit, Version

\* An NVS write touches one row, and a failed one may leave it as it was.
LEMMA NvsType ==
    ASSUME StoreTypeOK, NEW r \in Rule, NEW e \in Edit, NvsWrites(r, e) \/ NvsFails(r, e)
    PROVE /\ nvs' \in RuleFn
          /\ failed' \in [Rule -> 0..MaxFails]
          /\ nvs' = [nvs EXCEPT ![r] = e] \/ nvs' = nvs
BY StoreConstants DEF StoreTypeOK, RuleFn, NvsWrites, NvsFails, Edit, Version

LEMMA ClaimType ==
    ASSUME StoreTypeOK, NEW f \in Flusher, NEW i \in Slot, Claim(f, i)
    PROVE /\ Open(i) /\ ~dirty[i].flushing /\ ~Busy(f)
          /\ dirty' = [dirty EXCEPT ![i] = [dirty[i] EXCEPT !.flushing = TRUE, !.remarked = FALSE]]
          /\ job' = [job EXCEPT ![f] = [phase |-> "claimed", slot |-> i,
                                         rule |-> dirty[i].rule, edit |-> dirty[i].edit]]
          /\ dirty' \in [Slot -> Pending \cup {Clean}]
          /\ job' \in [Flusher -> Job \cup {NoJob}]
<1>1. Open(i) /\ ~dirty[i].flushing /\ ~Busy(f)
  BY DEF Claim, Claimable, Open, Busy
<1>2. dirty' = [dirty EXCEPT ![i] = [dirty[i] EXCEPT !.flushing = TRUE, !.remarked = FALSE]]
  BY DEF Claim, StoreTypeOK
<1>3. [dirty[i] EXCEPT !.flushing = TRUE, !.remarked = FALSE] \in Pending
  BY <1>1, OpenType DEF Pending
<1>4. dirty' \in [Slot -> Pending \cup {Clean}]
  BY <1>2, <1>3 DEF StoreTypeOK
<1>5. [phase |-> "claimed", slot |-> i, rule |-> dirty[i].rule, edit |-> dirty[i].edit] \in Job
  BY <1>1, OpenType DEF Job
<1>6. job' \in [Flusher -> Job \cup {NoJob}]
  BY <1>5 DEF StoreTypeOK, Claim, Flusher
<1>q. QED BY <1>1, <1>2, <1>4, <1>6 DEF Claim

LEMMA SettledType ==
    ASSUME StoreTypeOK, NEW i \in Slot, Open(i), NEW ph \in {"ok", "failed"}
    PROVE /\ Settled(dirty[i], ph) \in Pending \cup {Clean}
          /\ Settled(dirty[i], ph).flushing = FALSE
          /\ Settled(dirty[i], ph).state # "clean" =>
                /\ Settled(dirty[i], ph).state = dirty[i].state
                /\ Settled(dirty[i], ph).rule = dirty[i].rule
                /\ Settled(dirty[i], ph).edit = dirty[i].edit
          /\ Settled(dirty[i], ph).state = "clean" => ph = "ok" /\ ~dirty[i].remarked
<1>1. dirty[i] \in Pending BY OpenType
<1>2. CASE ph = "ok" /\ ~dirty[i].remarked
  BY <1>2 DEF Settled, Clean
<1>3. CASE ~(ph = "ok" /\ ~dirty[i].remarked)
  BY <1>1, <1>3 DEF Settled, Pending
<1>q. QED BY <1>2, <1>3

-----------------------------------------------------------------------------
\* Table and flushers.  A slot in flight has one owner, a busy flusher's slot is in
\* flight and still holds its rule, and no rule has two slots.
TableInv ==
    /\ \A i, j \in Slot : Open(i) /\ Open(j) /\ dirty[i].rule = dirty[j].rule => i = j
    /\ \A f \in Flusher : Busy(f) =>
          /\ Open(job[f].slot) /\ dirty[job[f].slot].flushing
          /\ dirty[job[f].slot].rule = job[f].rule
    /\ \A f, g \in Flusher : Busy(f) /\ Busy(g) /\ job[f].slot = job[g].slot => f = g
    /\ \A i \in Slot : dirty[i].flushing => \E f \in Flusher : Busy(f) /\ job[f].slot = i

\* Of the calls only the direct edits matter to the store.
CallOK(k) ==
    /\ "op" \in DOMAIN k
    /\ k.op = "direct" => k \in [op : {"direct"}, rule : Rule, del : BOOLEAN]

CallInv ==
    /\ call = [c \in Client |-> call[c]]
    /\ \A c \in Client : CallOK(call[c])

LEMMA NextType == StoreTypeOK /\ CallInv /\ TableInv /\ [Next]_vars => StoreTypeOK'
<1> SUFFICES ASSUME StoreTypeOK, CallInv, TableInv, [Next]_vars PROVE StoreTypeOK'
  OBVIOUS
<1>1. ASSUME NEW c \in Editor, NEW r \in Rule, NEW del \in BOOLEAN, Mark(c, r, del)
      PROVE StoreTypeOK'
  <2>1. PICK i \in Slot : dirty' = [dirty EXCEPT ![i] = Entry(r, del, dirty[i])]
    BY <1>1 DEF Mark
  <2>2. edits < MaxEdits /\ Accept(del)
    BY <1>1 DEF Mark, Accept
  <2>3. dirty' \in [Slot -> Pending \cup {Clean}]
    BY <2>1, <2>2, EntryType DEF StoreTypeOK
  <2>q. QED BY <1>1, <2>2, <2>3, AcceptType DEF Mark, StoreTypeOK
<1>2. ASSUME NEW c \in Client, DirectWrite(c) PROVE StoreTypeOK'
  <2>1. call[c].op = "direct" /\ Accept(call[c].del)
    BY <1>2 DEF DirectWrite
  <2>2. call[c].rule \in Rule /\ call[c].del \in BOOLEAN
    BY <2>1 DEF CallInv, CallOK
  <2>3. edits + 1 \in Edit /\ edits' \in Version /\ deletes' \subseteq Edit
    BY <2>1, <2>2, AcceptType
  <2>4. NvsWrites(call[c].rule, edits + 1) \/ NvsFails(call[c].rule, edits + 1)
    BY <1>2 DEF DirectWrite
  <2>5. nvs' \in RuleFn /\ failed' \in [Rule -> 0..MaxFails]
    BY <2>2, <2>3, <2>4, NvsType
  <2>q. QED BY <1>2, <2>3, <2>5 DEF DirectWrite, StoreTypeOK
<1>3. ASSUME NEW f \in Flusher, NEW i \in Slot, Claim(f, i),
             UNCHANGED <<nvs, edits, deletes, failed, restarts>>
      PROVE StoreTypeOK'
  BY <1>3, ClaimType DEF StoreTypeOK, Flusher
<1>4. ASSUME NEW f \in Flusher, Write(f) PROVE StoreTypeOK'
  <2>1. Busy(f) BY <1>4, PhaseBusy DEF Write
  <2>2. NvsWrites(job[f].rule, job[f].edit) \/ NvsFails(job[f].rule, job[f].edit)
    BY <1>4 DEF Write
  <2>3. \E ph \in {"ok", "failed"} : job' = [job EXCEPT ![f] = [job[f] EXCEPT !.phase = ph]]
    BY <1>4 DEF Write, StoreTypeOK
  <2>4. \A ph \in {"ok", "failed"} : [job[f] EXCEPT !.phase = ph] \in Job
    BY <2>1, BusyType DEF Job
  <2>5. job' \in [Flusher -> Job \cup {NoJob}]
    BY <2>3, <2>4 DEF StoreTypeOK, Flusher
  <2>q. QED BY <1>4, <2>1, <2>2, <2>5, BusyType, NvsType DEF Write, StoreTypeOK, Flusher
<1>5. ASSUME NEW f \in Flusher, Settle(f) PROVE StoreTypeOK'
  <2>1. Busy(f) /\ job[f].slot \in Slot /\ job[f].phase \in {"ok", "failed"}
    BY <1>5, PhaseBusy, BusyType DEF Settle
  <2> DEFINE i == job[f].slot
  <2>2. dirty' = [dirty EXCEPT ![i] = Settled(dirty[i], job[f].phase)]
    BY <1>5, <2>1 DEF Settle, StoreTypeOK
  <2>3. Settled(dirty[i], job[f].phase) \in Pending \cup {Clean}
    BY <2>1, SettledType DEF TableInv
  <2>4. dirty' \in [Slot -> Pending \cup {Clean}]
    BY <2>1, <2>2, <2>3 DEF StoreTypeOK
  <2>q. QED BY <1>5, <2>1, <2>4 DEF Settle, StoreTypeOK, Flusher
<1>6. ASSUME Restart PROVE StoreTypeOK'
  BY <1>6, StoreConstants DEF Restart, StoreTypeOK, Flusher
<1>7. ASSUME UNCHANGED store PROVE StoreTypeOK'
  BY <1>7 DEF store, StoreTypeOK
<1>8. UNCHANGED vars => UNCHANGED store
  BY DEF vars, store
<1>q. QED BY <1>1, <1>2, <1>3, <1>4, <1>5, <1>6, <1>7, <1>8, StepCases

-----------------------------------------------------------------------------
LEMMA InitCall == Init => CallInv
BY DEF Init, CallInv, CallOK, Idle

LEMMA NextCall == CallInv /\ [Next]_vars => CallInv'
<1> SUFFICES ASSUME CallInv, [Next]_vars PROVE CallInv'
  OBVIOUS
<1>1. ASSUME NEW c \in Client, NEW k, call' = [call EXCEPT ![c] = k], CallOK(k)
      PROVE CallInv'
  BY <1>1 DEF CallInv
<1>2. ASSUME UNCHANGED call PROVE CallInv'
  BY <1>2 DEF CallInv
<1>3. ASSUME NEW c \in Client, Edits(c) PROVE CallInv'
  <2>1. ASSUME NEW r \in Rule, NEW del \in BOOLEAN, Mark(c, r, del) PROVE CallInv'
    BY <1>2, <2>1 DEF Mark
  <2>2. ASSUME NEW r \in Rule, NEW del \in BOOLEAN, MarkDirect(c, r, del) PROVE CallInv'
    <3> DEFINE k == [op |-> "direct", rule |-> r, del |-> del]
    <3>1. call' = [call EXCEPT ![c] = k]
      BY <2>2 DEF MarkDirect
    <3>2. CallOK(k)
      BY DEF CallOK
    <3>q. QED BY ONLY <1>1, <3>1, <3>2
  <2>q. QED BY <1>3, <2>1, <2>2 DEF Edits
<1>4. ASSUME NEW c \in Client, DirectWrite(c) PROVE CallInv'
  <2> DEFINE k == Idle
  <2>1. call' = [call EXCEPT ![c] = k]
    BY <1>4 DEF DirectWrite
  <2>2. CallOK(k)
    BY DEF CallOK, Idle
  <2>q. QED BY ONLY <1>1, <2>1, <2>2
<1>5. ASSUME NEW c \in Client, FlushNow(c) PROVE CallInv'
  <2> DEFINE k == [op |-> "pass", pass |-> 1, at |-> 1, expired |-> FALSE,
                  bar |-> [r \in Rule |-> IF SlotsOf(r) = {} THEN 0 ELSE Visible(r)]]
  <2>1. call' = [call EXCEPT ![c] = k]
    BY <1>5 DEF FlushNow
  <2>2. CallOK(k)
    BY DEF CallOK
  <2>q. QED BY ONLY <1>1, <2>1, <2>2
<1>6. ASSUME NEW c \in Client, PassStep(c) PROVE CallInv'
  <2>1. CallOK(call[c])
    BY DEF CallInv
  <2>2. CallOK([call[c] EXCEPT !.at = call[c].at + 1])
    BY <2>1 DEF CallOK
  <2>3. call' = [call EXCEPT ![c] = [call[c] EXCEPT !.at = call[c].at + 1]]
    BY <1>6 DEF PassStep, CallInv
  <2>q. QED BY <1>1, <2>2, <2>3
<1>7. ASSUME NEW c \in Client, WaitEnds(c) PROVE CallInv'
  <2>1. CallOK(call[c])
    BY DEF CallInv
  <2>2. CallOK([call[c] EXCEPT !.op = "check", !.expired = call[c].expired \/ InFlight])
    BY <2>1 DEF CallOK
  <2>3. call' = [call EXCEPT ![c] = [call[c] EXCEPT !.op = "check", !.expired = call[c].expired \/ InFlight]]
    BY <1>7 DEF WaitEnds, CallInv
  <2>q. QED BY <1>1, <2>2, <2>3
<1>8. ASSUME NEW c \in Client, CheckPending(c) PROVE CallInv'
  <2>1. CallOK(call[c])
    BY DEF CallInv
  <2>2. CallOK([call[c] EXCEPT !.op = "pass", !.pass = 2, !.at = 1])
    BY <2>1 DEF CallOK
  <2>3. CallOK([call[c] EXCEPT !.op = "flushed"])
    BY <2>1 DEF CallOK
  <2>4. \/ call' = [call EXCEPT ![c] = [call[c] EXCEPT !.op = "pass", !.pass = 2, !.at = 1]]
        \/ call' = [call EXCEPT ![c] = [call[c] EXCEPT !.op = "flushed"]]
    BY <1>8 DEF CheckPending, CallInv
  <2>q. QED BY <1>1, <2>2, <2>3, <2>4
<1>9. ASSUME NEW c \in Client, NEW r \in Rule, LoadOverlay(c, r) PROVE CallInv'
  <2> DEFINE k == [op |-> IF Found(r) THEN "loaded" ELSE "load",
                  rule |-> r, got |-> Visible(r), floor |-> Visible(r)]
  <2>1. call' = [call EXCEPT ![c] = k]
    BY <1>9 DEF LoadOverlay
  <2>2. CallOK(k)
    BY DEF CallOK
  <2>q. QED BY ONLY <1>1, <2>1, <2>2
<1>10. ASSUME NEW c \in Client, LoadNvs(c) PROVE CallInv'
  <2>1. CallOK(call[c])
    BY DEF CallInv
  <2>2. CallOK([call[c] EXCEPT !.op = "loaded", !.got = nvs[call[c].rule]])
    BY <2>1 DEF CallOK
  <2>3. call' = [call EXCEPT ![c] = [call[c] EXCEPT !.op = "loaded", !.got = nvs[call[c].rule]]]
    BY <1>10 DEF LoadNvs, CallInv
  <2>q. QED BY <1>1, <2>2, <2>3
<1>11. ASSUME NEW c \in Client, ListRows(c) PROVE CallInv'
  <2>1. PICK out, floor : call' = [call EXCEPT ![c] = [op |-> "merge", out |-> out, floor |-> floor]]
    BY <1>11 DEF ListRows
  <2>2. CallOK([op |-> "merge", out |-> out, floor |-> floor])
    BY DEF CallOK
  <2>q. QED BY <1>1, <2>1, <2>2
<1>12. ASSUME NEW c \in Client, ListMerge(c) PROVE CallInv'
  <2>1. CallOK(call[c])
    BY DEF CallInv
  <2>2. CallOK([call[c] EXCEPT !.op = "listed", !.out = FoldLeft(Merge, call[c].out, dirty)])
    BY <2>1 DEF CallOK
  <2>3. call' = [call EXCEPT ![c] = [call[c] EXCEPT !.op = "listed", !.out = FoldLeft(Merge, call[c].out, dirty)]]
    BY <1>12 DEF ListMerge, CallInv
  <2>q. QED BY <1>1, <2>2, <2>3
<1>13. ASSUME NEW c \in Client, MaxIdRows(c) PROVE CallInv'
  <2> DEFINE k == [op |-> "max", got |-> Max(Rows \cup {0}), floor |-> [r \in Rule |-> Visible(r)]]
  <2>1. call' = [call EXCEPT ![c] = k]
    BY <1>13 DEF MaxIdRows
  <2>2. CallOK(k)
    BY DEF CallOK
  <2>q. QED BY ONLY <1>1, <2>1, <2>2
<1>14. ASSUME NEW c \in Client, MaxIdTable(c) PROVE CallInv'
  <2>1. PICK got : call' = [call EXCEPT ![c] = [call[c] EXCEPT !.op = "maxed", !.got = got]]
    BY <1>14 DEF MaxIdTable, CallInv
  <2>2. CallOK([call[c] EXCEPT !.op = "maxed", !.got = got])
    BY DEF CallOK, CallInv
  <2>q. QED BY <1>1, <2>1, <2>2
<1>15. ASSUME NEW c \in Client, Return(c) PROVE CallInv'
  <2> DEFINE k == Idle
  <2>1. call' = [call EXCEPT ![c] = k]
    BY <1>15 DEF Return
  <2>2. CallOK(k)
    BY DEF CallOK, Idle
  <2>q. QED BY ONLY <1>1, <2>1, <2>2
<1>16. ASSUME Restart PROVE CallInv'
  BY <1>16 DEF Restart, CallInv, CallOK, Idle
<1>17. ASSUME NEW f \in Flusher, Flushing(f) PROVE CallInv'
  BY <1>17, <1>2 DEF Flushing, Write, Settle
<1>18. ASSUME NEW i \in Slot, TickClaim(i) PROVE CallInv'
  BY <1>18, <1>2 DEF TickClaim
<1>19. CASE UNCHANGED vars
  BY <1>19, <1>2 DEF vars
<1>q. QED
  BY <1>3, <1>4, <1>5, <1>6, <1>7, <1>8, <1>9, <1>10, <1>11, <1>12, <1>13, <1>14, <1>15,
     <1>16, <1>17, <1>18, <1>19, StoreConstants DEF Next, Barrier, Reads, Flusher

-----------------------------------------------------------------------------
LEMMA InitTable == Init => TableInv
BY DEF Init, TableInv, Open, Busy, Clean, Flusher

\* The slot a mark takes is the rule's own, or free.
LEMMA SlotForRule ==
    ASSUME StoreTypeOK, TableInv, NEW i \in Slot, NEW r \in Rule, SlotFor(i, r)
    PROVE /\ Open(i) => dirty[i].rule = r
          /\ \A j \in Slot : Open(j) /\ dirty[j].rule = r => j = i
BY DEF SlotFor, SlotsOf, IsFree, Open, TableInv

LEMMA NextTable == StoreTypeOK /\ TableInv /\ [Next]_vars => TableInv'
<1> SUFFICES ASSUME StoreTypeOK, TableInv, [Next]_vars PROVE TableInv'
  OBVIOUS
<1>1. ASSUME NEW c \in Editor, NEW r \in Rule, NEW del \in BOOLEAN, Mark(c, r, del)
      PROVE TableInv'
  <2>1. PICK i \in Slot : SlotFor(i, r) /\ dirty' = [dirty EXCEPT ![i] = Entry(r, del, dirty[i])]
    BY <1>1 DEF Mark
  <2>2. edits < MaxEdits /\ job' = job
    BY <1>1 DEF Mark, Accept
  <2>3. /\ dirty'[i].rule = r /\ dirty'[i].flushing = dirty[i].flushing
        /\ \A j \in Slot : j # i => dirty'[j] = dirty[j]
        /\ dirty'[i].state # "clean"
    BY <2>1, <2>2, EntryType DEF StoreTypeOK
  <2>4. Open(i) => dirty[i].rule = r
    BY <2>1, SlotForRule
  <2>5. \A j \in Slot : Open(j) /\ dirty[j].rule = r => j = i
    BY <2>1, SlotForRule
  <2>6. \A f \in Flusher : Busy(f) => job[f].slot \in Slot
    BY BusyType
  <2>q. QED BY <2>2, <2>3, <2>4, <2>5, <2>6 DEF TableInv, Open, Busy
<1>2. ASSUME dirty' = dirty,
             \A f \in Flusher :
                /\ job'[f] # NoJob <=> job[f] # NoJob
                /\ job[f] # NoJob => job'[f].slot = job[f].slot /\ job'[f].rule = job[f].rule
      PROVE TableInv'
  BY <1>2 DEF TableInv, Open, Busy
<1>3. ASSUME NEW f \in Flusher, NEW i \in Slot, Claim(f, i)
      PROVE TableInv'
  <2>1. Open(i) /\ ~dirty[i].flushing /\ ~Busy(f)
    BY <1>3, ClaimType
  <2>a. /\ dirty'[i] = [dirty[i] EXCEPT !.flushing = TRUE, !.remarked = FALSE]
        /\ \A j \in Slot : j # i => dirty'[j] = dirty[j]
    BY <1>3, ClaimType DEF StoreTypeOK
  <2>b. dirty[i] \in Pending BY <2>1, OpenType
  <2>2. /\ dirty'[i].flushing /\ dirty'[i].state = dirty[i].state /\ dirty'[i].rule = dirty[i].rule
        /\ \A j \in Slot : j # i => dirty'[j] = dirty[j]
    BY <2>a, <2>b DEF Pending
  <2>c. /\ job'[f] = [phase |-> "claimed", slot |-> i, rule |-> dirty[i].rule, edit |-> dirty[i].edit]
        /\ \A g \in Flusher : g # f => job'[g] = job[g]
    <3>1. job' = [job EXCEPT ![f] = [phase |-> "claimed", slot |-> i,
                                     rule |-> dirty[i].rule, edit |-> dirty[i].edit]]
      BY <1>3 DEF Claim
    <3>2. job = [g \in Flusher |-> job[g]]
      BY DEF StoreTypeOK, Flusher
    <3>q. QED BY <3>1, <3>2
  <2>d. job'[f].phase # NoJob.phase
    BY <2>c DEF NoJob
  <2>3. /\ job'[f].slot = i /\ job'[f].rule = dirty[i].rule /\ Busy(f)'
        /\ \A g \in Flusher : g # f => job'[g] = job[g]
    BY <2>c, <2>d DEF Busy
  <2>4. \A g \in Flusher : Busy(g) => job[g].slot # i /\ job[g].slot \in Slot
    BY <2>1, BusyType DEF TableInv
  <2>q. QED BY <2>1, <2>2, <2>3, <2>4 DEF TableInv, Open, Busy
<1>4. ASSUME NEW f \in Flusher, Write(f) PROVE TableInv'
  <2>1. Busy(f) /\ job[f] \in Job
    BY <1>4, PhaseBusy, BusyType DEF Write
  <2>2. PICK ph \in {"ok", "failed"} : job' = [job EXCEPT ![f] = [job[f] EXCEPT !.phase = ph]]
    BY <1>4 DEF Write, StoreTypeOK
  <2>3. /\ job'[f].slot = job[f].slot /\ job'[f].rule = job[f].rule /\ Busy(f)'
        /\ \A g \in Flusher : g # f => job'[g] = job[g]
    BY <2>1, <2>2 DEF StoreTypeOK, Flusher, Job, Busy, NoJob
  <2>4. \A g \in Flusher : (job'[g] # NoJob <=> job[g] # NoJob) /\ job'[g].slot = job[g].slot /\ job'[g].rule = job[g].rule
    BY <2>1, <2>3 DEF Busy
  <2>q. QED BY <1>2, <1>4, <2>4 DEF Write
<1>5. ASSUME NEW f \in Flusher, Settle(f) PROVE TableInv'
  <2>1. Busy(f) /\ job[f].slot \in Slot /\ job[f].phase \in {"ok", "failed"} /\ Open(job[f].slot)
    BY <1>5, PhaseBusy, BusyType DEF Settle, TableInv
  <2> DEFINE i == job[f].slot
  <2>2. dirty' = [dirty EXCEPT ![i] = Settled(dirty[i], job[f].phase)]
    BY <1>5, <2>1 DEF Settle, StoreTypeOK
  <2>3. /\ dirty'[i].flushing = FALSE
        /\ dirty'[i].state # "clean" => dirty'[i].rule = dirty[i].rule
        /\ \A j \in Slot : j # i => dirty'[j] = dirty[j]
    BY <2>1, <2>2, SettledType DEF StoreTypeOK
  <2>4. /\ ~Busy(f)' /\ \A g \in Flusher : g # f => job'[g] = job[g]
    BY <1>5 DEF Settle, Busy, StoreTypeOK, Flusher
  <2>5. \A g \in Flusher : g # f /\ Busy(g) => job[g].slot # i /\ job[g].slot \in Slot
    BY <2>1, BusyType DEF TableInv
  <2>q. QED BY <2>1, <2>3, <2>4, <2>5 DEF TableInv, Open, Busy
<1>6. ASSUME Restart PROVE TableInv'
  BY <1>6 DEF Restart, TableInv, Open, Busy, Clean, Flusher
<1>7. ASSUME UNCHANGED store PROVE TableInv'
  BY <1>7 DEF store, TableInv, Open, Busy
<1>8. ASSUME NEW c \in Client, DirectWrite(c) PROVE TableInv'
  BY <1>8 DEF DirectWrite, TableInv, Open, Busy
<1>9. UNCHANGED vars => UNCHANGED store
  BY DEF vars, store
<1>q. QED BY <1>1, <1>3, <1>4, <1>5, <1>6, <1>7, <1>8, <1>9, StepCases

LEMMA StoreInvariant == Spec => [](StoreTypeOK /\ CallInv /\ TableInv)
<1>1. Init => StoreTypeOK /\ CallInv /\ TableInv
  BY InitType, InitCall, InitTable
<1>2. StoreTypeOK /\ CallInv /\ TableInv /\ [Next]_vars => (StoreTypeOK /\ CallInv /\ TableInv)'
  BY NextType, NextCall, NextTable
<1>q. QED BY <1>1, <1>2, PTL DEF Spec

\* The table never holds two pending edits of a rule, for any table, rules, tasks.
THEOREM OneEditPerRule == Spec => []OneSlotPerRule
<1>1. TableInv => OneSlotPerRule
  BY DEF TableInv, OneSlotPerRule, SlotsOf, Open
<1>q. QED BY <1>1, StoreInvariant, PTL

\* A write in flight has exactly one owner, however many tasks flush.
THEOREM OneOwnerPerWrite == Spec => []OneFlusherPerSlot
<1>1. StoreTypeOK /\ TableInv => OneFlusherPerSlot
  <2> SUFFICES ASSUME StoreTypeOK, TableInv, NEW i \in Slot, dirty[i].flushing
               PROVE \E f \in DOMAIN job :
                        /\ job[f] # NoJob /\ job[f].slot = i /\ job[f].rule = dirty[i].rule
                        /\ \A g \in DOMAIN job : job[g] # NoJob /\ job[g].slot = i => g = f
    BY DEF OneFlusherPerSlot
  <2>1. DOMAIN job = Flusher
    BY DEF StoreTypeOK, Flusher
  <2>q. QED BY <2>1 DEF TableInv, Busy
<1>q. QED BY <1>1, StoreInvariant, PTL

-----------------------------------------------------------------------------
\* Edits of a rule come in order from the table through the flusher's snapshot to the row,
\* whoever edits, as long as no task marks a rule whose direct write is under way.
InOrder(f) ==
    /\ job[f].edit <= dirty[job[f].slot].edit
    /\ ~dirty[job[f].slot].remarked => job[f].edit = dirty[job[f].slot].edit
    /\ nvs[job[f].rule] <= job[f].edit
    /\ job[f].phase = "ok" => nvs[job[f].rule] = job[f].edit

OrderInv ==
    /\ \A i \in Slot : Open(i) => nvs[dirty[i].rule] <= dirty[i].edit /\ dirty[i].edit <= edits
    /\ \A r \in Rule : nvs[r] <= edits
    /\ \A f \in Flusher : Busy(f) => InOrder(f)

\* What the editing tasks have to keep to: while an edit goes past the full table to NVS, no
\* other task gives the same rule a slot of the table.
DirectAlone ==
    \A c \in Client : call[c].op = "direct" => \A i \in Slot : Open(i) => dirty[i].rule # call[c].rule

IInv == StoreTypeOK /\ CallInv /\ TableInv

LEMMA InitOrder == Init => OrderInv
BY DEF Init, OrderInv, Open, Busy, Clean, Idle, Flusher

LEMMA NextOrder == IInv /\ OrderInv /\ DirectAlone /\ [Next]_vars => OrderInv'
<1> SUFFICES ASSUME IInv, OrderInv, DirectAlone, [Next]_vars PROVE OrderInv'
  OBVIOUS
<1> USE DEF IInv
<1>t. /\ edits \in Nat /\ \A r \in Rule : nvs[r] \in Nat
      /\ \A i \in Slot : Open(i) => dirty[i].rule \in Rule /\ dirty[i].edit \in Nat
      /\ \A f \in Flusher : Busy(f) => /\ job[f].slot \in Slot /\ job[f].rule \in Rule
                                       /\ job[f].edit \in Nat /\ Open(job[f].slot)
                                       /\ job[f].rule = dirty[job[f].slot].rule
  <2>1. edits \in Nat /\ \A r \in Rule : nvs[r] \in Nat
    BY DEF StoreTypeOK, RuleFn, Version
  <2>2. \A i \in Slot : Open(i) => dirty[i].rule \in Rule /\ dirty[i].edit \in Nat
    BY OpenType DEF Edit
  <2>3. \A f \in Flusher : Busy(f) => /\ job[f].slot \in Slot /\ job[f].rule \in Rule /\ job[f].edit \in Nat
    BY BusyType DEF Edit
  <2>q. QED BY <2>1, <2>2, <2>3 DEF TableInv
<1>1. ASSUME NEW c \in Editor, NEW r \in Rule, NEW del \in BOOLEAN, Mark(c, r, del)
      PROVE OrderInv'
  <2>1. PICK i \in Slot : SlotFor(i, r) /\ dirty' = [dirty EXCEPT ![i] = Entry(r, del, dirty[i])]
    BY <1>1 DEF Mark
  <2>2. edits < MaxEdits /\ edits' = edits + 1 /\ UNCHANGED <<nvs, job>>
    BY <1>1 DEF Mark, Accept
  <2>3. /\ dirty'[i].rule = r /\ dirty'[i].edit = edits + 1
        /\ dirty'[i].remarked = dirty[i].flushing
        /\ \A j \in Slot : j # i => dirty'[j] = dirty[j]
    BY <2>1, <2>2, EntryType DEF StoreTypeOK
  <2>4. \A j \in Slot : Open(j)' => nvs'[dirty'[j].rule] <= dirty'[j].edit /\ dirty'[j].edit <= edits'
    BY <1>t, <2>2, <2>3 DEF OrderInv, Open
  <2>5. \A f \in Flusher : Busy(f) => InOrder(f)'
    <3> SUFFICES ASSUME NEW f \in Flusher, Busy(f) PROVE InOrder(f)'
      OBVIOUS
    <3>1. CASE job[f].slot = i
      <4>1. dirty'[i].remarked
        BY <2>3, <3>1 DEF TableInv
      <4>2. job[f].edit <= edits
        BY <3>1, <1>t DEF OrderInv, InOrder
      <4>q. QED BY <1>t, <2>2, <2>3, <3>1, <4>1, <4>2 DEF OrderInv, InOrder
    <3>2. CASE job[f].slot # i
      BY <1>t, <2>2, <2>3, <3>2 DEF OrderInv, InOrder
    <3>q. QED BY <3>1, <3>2
  <2>6. \A r2 \in Rule : nvs'[r2] <= edits'
    BY <1>t, <2>2 DEF OrderInv
  <2>q. QED BY <2>2, <2>4, <2>5, <2>6 DEF OrderInv, Busy
<1>2. ASSUME NEW c \in Client, DirectWrite(c) PROVE OrderInv'
  <2> DEFINE r == call[c].rule
  <2>1. /\ r \in Rule /\ call[c].del \in BOOLEAN
        /\ \A i \in Slot : Open(i) => dirty[i].rule # r
    BY <1>2 DEF DirectWrite, CallInv, CallOK, DirectAlone
  <2>2. edits' = edits + 1 /\ edits + 1 \in Edit /\ UNCHANGED <<dirty, job>>
    BY <1>2, <2>1, AcceptType DEF DirectWrite
  <2>3. nvs' = [nvs EXCEPT ![r] = edits + 1] \/ nvs' = nvs
    BY <1>2, <2>1, <2>2, NvsType DEF DirectWrite
  <2>4. nvs \in [Rule -> Version]
    BY DEF StoreTypeOK, RuleFn
  <2>5. \A q \in Rule : q # r => nvs'[q] = nvs[q]
    BY <2>3, <2>4
  <2>6. \A q \in Rule : nvs'[q] <= edits'
    BY <2>1, <2>2, <2>3, <2>4, <1>t DEF OrderInv
  <2>7. \A i \in Slot : Open(i) => nvs'[dirty[i].rule] = nvs[dirty[i].rule]
    BY <1>t, <2>1, <2>5
  <2>8. \A f \in Flusher : Busy(f) => nvs'[job[f].rule] = nvs[job[f].rule]
    BY <1>t, <2>1, <2>5
  <2>9. \A f \in Flusher : Busy(f) => InOrder(f)'
    BY <2>2, <2>8 DEF OrderInv, InOrder
  <2>10. \A i \in Slot : Open(i) => nvs'[dirty'[i].rule] <= dirty'[i].edit /\ dirty'[i].edit <= edits'
    BY <1>t, <2>2, <2>7 DEF OrderInv
  <2>q. QED BY <2>2, <2>6, <2>9, <2>10 DEF OrderInv, Open, Busy
<1>3. ASSUME NEW f \in Flusher, NEW i \in Slot, Claim(f, i), UNCHANGED <<nvs, edits>>
      PROVE OrderInv'
  <2>1. Open(i) /\ ~dirty[i].flushing /\ ~Busy(f)
    BY <1>3, ClaimType
  <2>2. /\ dirty'[i] = [dirty[i] EXCEPT !.flushing = TRUE, !.remarked = FALSE]
        /\ \A j \in Slot : j # i => dirty'[j] = dirty[j]
    BY <1>3, ClaimType DEF StoreTypeOK
  <2>3. dirty[i] \in Pending BY <2>1, OpenType
  <2>4. dirty'[i].rule = dirty[i].rule /\ dirty'[i].edit = dirty[i].edit /\ ~dirty'[i].remarked
    BY <2>2, <2>3 DEF Pending
  <2>5. /\ job'[f] = [phase |-> "claimed", slot |-> i, rule |-> dirty[i].rule, edit |-> dirty[i].edit]
        /\ \A g \in Flusher : g # f => job'[g] = job[g]
    <3>1. job' = [job EXCEPT ![f] = [phase |-> "claimed", slot |-> i,
                                     rule |-> dirty[i].rule, edit |-> dirty[i].edit]]
      BY <1>3 DEF Claim
    <3>2. job = [g \in Flusher |-> job[g]]
      BY DEF StoreTypeOK, Flusher
    <3>q. QED BY <3>1, <3>2
  <2>6. InOrder(f)'
    <3>1. /\ job'[f].slot = i /\ job'[f].rule = dirty[i].rule /\ job'[f].edit = dirty[i].edit
          /\ job'[f].phase # "ok"
      BY <2>5
    <3>q. QED BY <1>3, <1>t, <2>1, <2>4, <3>1 DEF OrderInv, InOrder
  <2>7. \A g \in Flusher : g # f /\ Busy(g) => InOrder(g)'
    <3> SUFFICES ASSUME NEW g \in Flusher, g # f, Busy(g) PROVE InOrder(g)'
      OBVIOUS
    <3>1. job[g].slot # i
      BY <2>1 DEF TableInv
    <3>q. QED BY <1>3, <1>t, <2>2, <2>5, <3>1 DEF OrderInv, InOrder
  <2>8. \A j \in Slot : Open(j)' => nvs'[dirty'[j].rule] <= dirty'[j].edit /\ dirty'[j].edit <= edits'
    BY <1>3, <2>1, <2>2, <2>4 DEF OrderInv, Open
  <2>q. QED BY <1>3, <2>5, <2>6, <2>7, <2>8 DEF OrderInv, Busy
<1>4. ASSUME NEW f \in Flusher, Write(f) PROVE OrderInv'
  <2>1. Busy(f) /\ job[f] \in Job /\ job[f].edit \in Edit /\ job[f].phase = "claimed"
    BY <1>4, PhaseBusy, BusyType DEF Write
  <2> DEFINE r == job[f].rule
             i == job[f].slot
             e == job[f].edit
  <2>2. UNCHANGED <<dirty, edits>>
    BY <1>4 DEF Write
  <2>3. nvs' = [nvs EXCEPT ![r] = e] \/ nvs' = nvs
    BY <1>4, <1>t, <2>1, NvsType DEF Write
  <2>4. nvs \in [Rule -> Version]
    BY DEF StoreTypeOK, RuleFn
  <2>5. \A q \in Rule : q # r => nvs'[q] = nvs[q]
    BY <2>3, <2>4
  <2>6. InOrder(f) /\ i \in Slot /\ r \in Rule /\ e \in Nat /\ Open(i) /\ dirty[i].rule = r
    BY <1>t, <2>1 DEF OrderInv
  <2>7. nvs'[r] <= e /\ nvs'[r] \in Nat
    BY <2>3, <2>4, <2>6, <1>t DEF InOrder
  <2>8. e <= dirty[i].edit /\ dirty[i].edit <= edits
    BY <2>6 DEF InOrder, OrderInv
  <2>9. \A j \in Slot : Open(j) => nvs'[dirty'[j].rule] <= dirty'[j].edit /\ dirty'[j].edit <= edits'
    <3> SUFFICES ASSUME NEW j \in Slot, Open(j)
                 PROVE nvs'[dirty[j].rule] <= dirty[j].edit /\ dirty[j].edit <= edits
      BY <2>2
    <3>1. CASE j = i
      BY <1>t, <2>6, <2>7, <2>8, <3>1
    <3>2. CASE j # i
      <4>1. dirty[j].rule # r BY <2>6, <3>2 DEF TableInv
      <4>q. QED BY <1>t, <2>5, <4>1 DEF OrderInv
    <3>q. QED BY <3>1, <3>2
  <2>10. \A q \in Rule : nvs'[q] <= edits'
    BY <1>t, <2>2, <2>5, <2>6, <2>7, <2>8 DEF OrderInv
  <2>11. \A g \in Flusher : g # f /\ Busy(g) => InOrder(g)'
    <3> SUFFICES ASSUME NEW g \in Flusher, g # f, Busy(g) PROVE InOrder(g)'
      OBVIOUS
    <3>1. job[g].slot # i
      BY <2>1 DEF TableInv
    <3>2. job[g].rule # r
      BY <1>t, <2>6, <3>1 DEF TableInv
    <3>3. job'[g] = job[g]
      BY <1>4 DEF Write, StoreTypeOK, Flusher
    <3>q. QED BY <1>t, <2>2, <2>5, <3>2, <3>3 DEF OrderInv, InOrder
  <2>12. InOrder(f)'
    <3>1. \/ /\ job'[f] = [job[f] EXCEPT !.phase = "ok"] /\ nvs'[r] = e
          \/ job'[f] = [job[f] EXCEPT !.phase = "failed"]
      BY <1>4, <2>4, <2>6 DEF Write, NvsWrites, StoreTypeOK, Flusher
    <3>2. /\ job'[f].slot = i /\ job'[f].rule = r /\ job'[f].edit = e
          /\ job'[f].phase = "ok" => nvs'[r] = e
      BY <2>1, <3>1 DEF Job
    <3>q. QED BY <2>2, <2>6, <2>7, <3>2 DEF InOrder
  <2>13. \A g \in Flusher : g # f => job'[g] = job[g]
    BY <1>4 DEF Write, StoreTypeOK, Flusher
  <2>q. QED BY <2>2, <2>9, <2>10, <2>11, <2>12, <2>13 DEF OrderInv, Open, Busy
<1>5. ASSUME NEW f \in Flusher, Settle(f) PROVE OrderInv'
  <2>1. Busy(f) /\ job[f].phase \in {"ok", "failed"}
    BY <1>5, PhaseBusy DEF Settle
  <2> DEFINE i == job[f].slot
  <2>2. dirty' = [dirty EXCEPT ![i] = Settled(dirty[i], job[f].phase)]
    BY <1>5, <1>t, <2>1 DEF Settle, StoreTypeOK
  <2>3. /\ dirty'[i].state # "clean" => /\ dirty'[i].rule = dirty[i].rule
                                        /\ dirty'[i].edit = dirty[i].edit
        /\ \A j \in Slot : j # i => dirty'[j] = dirty[j]
    <3>1. dirty'[i] = Settled(dirty[i], job[f].phase)
      BY <1>t, <2>1, <2>2 DEF StoreTypeOK
    <3>2. \A j \in Slot : j # i => dirty'[j] = dirty[j]
      BY <2>2 DEF StoreTypeOK
    <3>q. QED BY <1>t, <2>1, <3>1, <3>2, SettledType
  <2>4. /\ UNCHANGED <<nvs, edits>> /\ job'[f] = NoJob
        /\ \A g \in Flusher : g # f => job'[g] = job[g]
    BY <1>5 DEF Settle, StoreTypeOK, Flusher
  <2>5. \A g \in Flusher : g # f /\ Busy(g) => InOrder(g)'
    <3> SUFFICES ASSUME NEW g \in Flusher, g # f, Busy(g) PROVE InOrder(g)'
      OBVIOUS
    <3>1. job[g].slot # i
      BY <2>1 DEF TableInv
    <3>q. QED BY <1>t, <2>3, <2>4, <3>1 DEF OrderInv, InOrder
  <2>6. \A j \in Slot : Open(j)' => nvs'[dirty'[j].rule] <= dirty'[j].edit /\ dirty'[j].edit <= edits'
    <3> SUFFICES ASSUME NEW j \in Slot, dirty'[j].state # "clean"
                 PROVE nvs[dirty'[j].rule] <= dirty'[j].edit /\ dirty'[j].edit <= edits
      BY <2>4 DEF Open
    <3>1. CASE j = i BY <1>t, <2>1, <2>3, <3>1 DEF OrderInv
    <3>2. CASE j # i BY <2>3, <3>2 DEF OrderInv, Open
    <3>q. QED BY <3>1, <3>2
  <2>q. QED BY <2>4, <2>5, <2>6 DEF OrderInv, Busy
<1>6. ASSUME Restart PROVE OrderInv'
  BY <1>6 DEF Restart, OrderInv, Open, Busy, Clean, Flusher
<1>7. ASSUME UNCHANGED store PROVE OrderInv'
  BY <1>7 DEF store, OrderInv, InOrder, Open, Busy
<1>8. UNCHANGED vars => UNCHANGED store
  BY DEF vars, store
<1>q. QED BY <1>1, <1>2, <1>3, <1>4, <1>5, <1>6, <1>7, <1>8, StepCases

-----------------------------------------------------------------------------
\* What readers see: the pending edit of the rule's one slot, else the row.
SeenOK ==
    \A r \in Rule :
       /\ \A i \in Slot : Open(i) /\ dirty[i].rule = r => Visible(r) = dirty[i].edit
       /\ (\A i \in Slot : Open(i) => dirty[i].rule # r) => Visible(r) = nvs[r]

LEMMA SeenLemma == TableInv => SeenOK
<1> SUFFICES ASSUME TableInv, NEW r \in Rule
             PROVE /\ \A i \in Slot : Open(i) /\ dirty[i].rule = r => Visible(r) = dirty[i].edit
                   /\ (\A i \in Slot : Open(i) => dirty[i].rule # r) => Visible(r) = nvs[r]
  BY DEF SeenOK
<1>1. ASSUME NEW i \in Slot, Open(i), dirty[i].rule = r PROVE Visible(r) = dirty[i].edit
  <2>1. SlotsOf(r) = {i}
    BY <1>1 DEF SlotsOf, TableInv, Open
  <2>2. (CHOOSE j \in {i} : TRUE) = i
    OBVIOUS
  <2>q. QED BY <2>1, <2>2 DEF Visible
<1>2. ASSUME \A i \in Slot : Open(i) => dirty[i].rule # r PROVE Visible(r) = nvs[r]
  <2>1. SlotsOf(r) = {}
    BY <1>2 DEF SlotsOf, Open
  <2>q. QED BY <2>1 DEF Visible
<1>q. QED BY <1>1, <1>2

Seen == [r \in Rule |-> Visible(r)]

LEMMA StepRefines ==
    ASSUME IInv, OrderInv, DirectAlone, SeenOK, SeenOK', StoreTypeOK', TableInv', [Next]_vars
    PROVE RMap!Next \/ UNCHANGED <<Seen, nvs, restarts>>
<1> USE DEF IInv
<1>t. /\ nvs \in [Rule -> Version] /\ nvs' \in [Rule -> Version]
      /\ \A r \in Rule : nvs[r] \in Nat /\ nvs[r] <= edits
      /\ edits \in Nat
  BY DEF StoreTypeOK, RuleFn, Version, OrderInv
<1>s. \A r \in Rule : Visible(r) \in Nat /\ nvs[r] <= Visible(r) /\ Visible(r) <= edits
  <2> SUFFICES ASSUME NEW r \in Rule
               PROVE Visible(r) \in Nat /\ nvs[r] <= Visible(r) /\ Visible(r) <= edits
    OBVIOUS
  <2>1. CASE \E i \in Slot : Open(i) /\ dirty[i].rule = r
    <3>1. PICK i \in Slot : Open(i) /\ dirty[i].rule = r
      BY <2>1
    <3>2. Visible(r) = dirty[i].edit /\ dirty[i].edit \in Nat
      BY <3>1, OpenType DEF SeenOK, Edit
    <3>q. QED BY <3>1, <3>2 DEF OrderInv
  <2>2. CASE \A i \in Slot : Open(i) => dirty[i].rule # r
    BY <2>2, <1>t DEF SeenOK
  <2>q. QED BY <2>1, <2>2
\* A rule whose pending edits and row are the same is seen the same.
<1>u. ASSUME NEW r \in Rule, nvs'[r] = nvs[r] \/ \E i \in Slot : Open(i) /\ dirty[i].rule = r,
             \A i \in Slot : (Open(i) /\ dirty[i].rule = r) <=> (dirty'[i].state # "clean" /\ dirty'[i].rule = r),
             \A i \in Slot : Open(i) /\ dirty[i].rule = r => dirty'[i].edit = dirty[i].edit
      PROVE Visible(r)' = Visible(r)
  <2>1. CASE \E i \in Slot : Open(i) /\ dirty[i].rule = r
    <3>1. PICK i \in Slot : Open(i) /\ dirty[i].rule = r
      BY <2>1
    <3>2. Visible(r) = dirty[i].edit
      BY <3>1 DEF SeenOK
    <3>3. Visible(r)' = dirty'[i].edit
      BY <3>1, <1>u DEF SeenOK, Open
    <3>q. QED BY <3>1, <3>2, <3>3, <1>u
  <2>2. CASE \A i \in Slot : Open(i) => dirty[i].rule # r
    <3>1. Visible(r) = nvs[r]
      BY <2>2 DEF SeenOK
    <3>2. Visible(r)' = nvs'[r]
      BY <2>2, <1>u DEF SeenOK, Open
    <3>q. QED BY <3>1, <3>2, <2>2, <1>u
  <2>q. QED BY <2>1, <2>2
<1>1. ASSUME NEW c \in Editor, NEW r \in Rule, NEW del \in BOOLEAN, Mark(c, r, del)
      PROVE RMap!Next
  <2>1. PICK i \in Slot : SlotFor(i, r) /\ dirty' = [dirty EXCEPT ![i] = Entry(r, del, dirty[i])]
    BY <1>1 DEF Mark
  <2>2. edits < MaxEdits /\ nvs' = nvs /\ restarts' = restarts
    BY <1>1 DEF Mark, Accept
  <2>3. /\ dirty'[i].rule = r /\ dirty'[i].edit = edits + 1 /\ dirty'[i].state # "clean"
        /\ \A j \in Slot : j # i => dirty'[j] = dirty[j]
    BY <2>1, <2>2, EntryType DEF StoreTypeOK
  <2>4. Visible(r)' = edits + 1
    BY <2>3 DEF SeenOK, Open
  <2>5. \A q \in Rule : q # r => Visible(q)' = Visible(q)
    <3> SUFFICES ASSUME NEW q \in Rule, q # r PROVE Visible(q)' = Visible(q)
      OBVIOUS
    <3>1. Open(i) => dirty[i].rule = r
      BY <2>1, SlotForRule
    <3>2. \A j \in Slot : (Open(j) /\ dirty[j].rule = q) <=> (dirty'[j].state # "clean" /\ dirty'[j].rule = q)
      BY <2>3, <3>1 DEF Open
    <3>3. \A j \in Slot : Open(j) /\ dirty[j].rule = q => dirty'[j].edit = dirty[j].edit
      BY <2>3, <3>1
    <3>q. QED BY <2>2, <3>2, <3>3, <1>u
  <2>6. edits + 1 \in 1..MaxEdits /\ edits + 1 > Visible(r)
    BY <2>2, <1>s, <1>t, StoreConstants
  <2>7. Seen' = [Seen EXCEPT ![r] = edits + 1]
    BY <2>4, <2>5 DEF Seen
  <2>8. RMap!Edit(r)
    BY <2>2, <2>6, <2>7 DEF RMap!Edit, Seen
  <2>q. QED BY <2>8 DEF RMap!Next
<1>2. ASSUME NEW c \in Client, DirectWrite(c) PROVE RMap!Next \/ UNCHANGED <<Seen, nvs, restarts>>
  <2>0. PICK r \in Rule : r = call[c].rule
    BY <1>2 DEF DirectWrite, CallInv, CallOK
  <2>1. /\ call[c].del \in BOOLEAN
        /\ \A i \in Slot : Open(i) => dirty[i].rule # r
    BY <1>2, <2>0 DEF DirectWrite, CallInv, CallOK, DirectAlone
  <2>2. edits + 1 \in Edit /\ dirty' = dirty /\ restarts' = restarts
    BY <1>2, <2>1, AcceptType DEF DirectWrite
  <2>3. nvs' = [nvs EXCEPT ![r] = edits + 1] \/ nvs' = nvs
    BY <1>2, <2>0, <2>1, <2>2, NvsType DEF DirectWrite
  <2>4. \A q \in Rule : q # r => nvs'[q] = nvs[q]
    BY <2>3, <1>t
  <2>5. \A q \in Rule : q # r => Visible(q)' = Visible(q)
    BY <2>2, <2>4, <1>u DEF Open
  <2>6. CASE nvs' = nvs
    <3>1. Visible(r)' = Visible(r)
      BY <2>1, <2>2, <2>6, <1>u DEF Open
    <3>q. QED BY <2>2, <2>5, <2>6, <3>1 DEF Seen
  <2>7. CASE nvs' = [nvs EXCEPT ![r] = edits + 1]
    <3>1. Visible(r)' = edits + 1
      BY <2>1, <2>2, <2>7, <1>t DEF SeenOK, Open
    <3>2. Seen' = [Seen EXCEPT ![r] = edits + 1]
      BY <2>1, <2>5, <3>1 DEF Seen
    <3>3. edits + 1 \in 1..MaxEdits /\ edits + 1 > Visible(r)
      BY <2>1, <2>2, <1>s, <1>t DEF Edit
    <3>4. RMap!Edit(r)
      BY <2>1, <2>2, <2>7, <3>2, <3>3 DEF RMap!Edit, Seen
    <3>q. QED BY <2>1, <3>4 DEF RMap!Next
  <2>q. QED BY <2>3, <2>6, <2>7
<1>3. ASSUME NEW f \in Flusher, NEW i \in Slot, Claim(f, i), UNCHANGED <<nvs, restarts>>
      PROVE UNCHANGED <<Seen, nvs, restarts>>
  <2>1. Open(i) /\ dirty[i] \in Pending
    BY <1>3, ClaimType, OpenType
  <2>2. /\ dirty'[i] = [dirty[i] EXCEPT !.flushing = TRUE, !.remarked = FALSE]
        /\ \A j \in Slot : j # i => dirty'[j] = dirty[j]
    BY <1>3, ClaimType DEF StoreTypeOK
  <2>3. dirty'[i].rule = dirty[i].rule /\ dirty'[i].edit = dirty[i].edit /\ dirty'[i].state = dirty[i].state
    BY <2>1, <2>2 DEF Pending
  <2>4. \A r \in Rule : Visible(r)' = Visible(r)
    BY <1>3, <2>2, <2>3, <1>u DEF Open
  <2>q. QED BY <1>3, <2>4 DEF Seen
<1>4. ASSUME NEW f \in Flusher, Write(f) PROVE RMap!Next \/ UNCHANGED <<Seen, nvs, restarts>>
  <2> DEFINE r == job[f].rule
             i == job[f].slot
             e == job[f].edit
  <2>1. Busy(f) /\ r \in Rule /\ e \in Edit /\ i \in Slot
    BY <1>4, PhaseBusy, BusyType DEF Write
  <2>2. Open(i) /\ dirty[i].rule = r /\ dirty' = dirty /\ restarts' = restarts /\ InOrder(f)
    BY <1>4, <2>1 DEF Write, TableInv, OrderInv
  <2>3. nvs' = [nvs EXCEPT ![r] = e] \/ nvs' = nvs
    BY <1>4, <2>1, NvsType DEF Write
  <2>4. \A q \in Rule : q # r => nvs'[q] = nvs[q]
    BY <2>3, <1>t
  <2>5. \A q \in Rule : Visible(q)' = Visible(q)
    BY <2>1, <2>2, <2>4, <1>u DEF Open
  <2>6. Visible(r) = dirty[i].edit /\ dirty[i].edit \in Nat
    BY <2>1, <2>2, OpenType DEF SeenOK, Edit
  <2>7. e \in nvs[r]..Visible(r)
    BY <2>1, <2>2, <2>6, <1>t DEF InOrder, Edit
  <2>8. CASE nvs' = nvs BY <2>2, <2>5, <2>8 DEF Seen
  <2>9. CASE nvs' = [nvs EXCEPT ![r] = e]
    <3>1. Seen' = Seen BY <2>5 DEF Seen
    <3>2. RMap!Persist(r)
      BY <2>1, <2>2, <2>7, <2>9, <3>1 DEF RMap!Persist, Seen
    <3>q. QED BY <2>1, <3>2 DEF RMap!Next
  <2>q. QED BY <2>3, <2>8, <2>9
<1>5. ASSUME NEW f \in Flusher, Settle(f) PROVE UNCHANGED <<Seen, nvs, restarts>>
  <2> DEFINE i == job[f].slot
             ph == job[f].phase
  <2>1. Busy(f) /\ i \in Slot /\ ph \in {"ok", "failed"} /\ Open(i) /\ dirty[i].rule = job[f].rule
        /\ InOrder(f) /\ dirty[i].rule \in Rule
    BY <1>5, PhaseBusy, BusyType DEF Settle, TableInv, OrderInv
  <2>2. dirty' = [dirty EXCEPT ![i] = Settled(dirty[i], ph)] /\ nvs' = nvs /\ restarts' = restarts
    BY <1>5, <2>1 DEF Settle, StoreTypeOK
  <2>3. /\ dirty'[i] = Settled(dirty[i], ph)
        /\ \A j \in Slot : j # i => dirty'[j] = dirty[j]
    BY <2>1, <2>2 DEF StoreTypeOK
  <2>4. CASE dirty'[i].state # "clean"
    <3>1. dirty'[i].rule = dirty[i].rule /\ dirty'[i].edit = dirty[i].edit
      BY <2>1, <2>3, <2>4, SettledType
    <3>2. \A r \in Rule : Visible(r)' = Visible(r)
      BY <2>1, <2>2, <2>3, <2>4, <3>1, <1>u DEF Open
    <3>q. QED BY <2>2, <3>2 DEF Seen
  <2>5. CASE dirty'[i].state = "clean"
    <3>0. PICK r \in Rule, k \in Slot : r = dirty[i].rule /\ k = i
      BY <2>1
    <3>1. ph = "ok" /\ ~dirty[i].remarked
      <4>1. Settled(dirty[i], ph).state = "clean"
        BY <2>3, <2>5
      <4>q. QED BY <2>1, <4>1, SettledType
    <3>2. nvs[r] = dirty[i].edit
      BY <2>1, <3>0, <3>1 DEF InOrder
    <3>3. Visible(r) = nvs[r]
      BY <2>1, <3>0, <3>2 DEF SeenOK
    <3>4. \A j \in Slot : Open(j)' => dirty'[j].rule # r
      BY <2>1, <2>3, <2>5, <3>0 DEF TableInv, Open
    <3>5. Visible(r)' = nvs'[r]
      BY <3>4 DEF SeenOK
    <3>6. \A q \in Rule : q # r => Visible(q)' = Visible(q)
      BY <2>1, <2>2, <2>3, <2>5, <3>0, <1>u DEF Open
    <3>q. QED BY <2>2, <3>3, <3>5, <3>6 DEF Seen
  <2>q. QED BY <2>4, <2>5
<1>6. ASSUME Restart PROVE RMap!Next
  <2>1. nvs' = nvs /\ restarts' = restarts + 1 /\ \A r \in Rule : Visible(r)' = nvs'[r]
    BY <1>6 DEF Restart, SeenOK, Open, Clean
  <2>2. Seen' = nvs
    BY <2>1, <1>t DEF Seen
  <2>q. QED BY <2>1, <2>2 DEF RMap!Next, RMap!Restart, Seen
<1>7. ASSUME UNCHANGED store PROVE UNCHANGED <<Seen, nvs, restarts>>
  BY <1>7 DEF store, Seen, Visible, SlotsOf
<1>8. UNCHANGED vars => UNCHANGED store
  BY DEF vars, store
<1>q. QED BY <1>1, <1>2, <1>3, <1>4, <1>5, <1>6, <1>7, <1>8, StepCases

\* The store implements its promise, RuleMap, whatever the table size, the rules, the editing
\* tasks, the readers, the flushers and the write failures, if direct writes are alone at their
\* rule: readers see the newest edit, flash follows and never goes back, flushing changes
\* nothing seen.
THEOREM StoreImplementsMap == Spec /\ []DirectAlone => RuleMapSpec
<1> DEFINE FullInv == IInv /\ OrderInv /\ SeenOK
<1>1. Init => FullInv
  BY InitType, InitCall, InitTable, InitOrder, SeenLemma DEF IInv
<1>2. FullInv /\ DirectAlone /\ [Next]_vars => (IInv /\ OrderInv)'
  BY NextType, NextCall, NextTable, NextOrder DEF IInv
<1>3. (TableInv => SeenOK)'
  BY SeenLemma, PTL
<1>4. FullInv /\ DirectAlone /\ [Next]_vars => FullInv'
  BY <1>2, <1>3 DEF IInv
<1>5. Init => RMap!Init
  <2> SUFFICES ASSUME Init PROVE RMap!Init
    OBVIOUS
  <2>1. \A r \in Rule : Visible(r) = 0
    BY <1>1 DEF Init, SeenOK, Open, Clean
  <2>q. QED BY <2>1 DEF Init, RMap!Init
<1>6. FullInv /\ DirectAlone /\ FullInv' /\ [Next]_vars => [RMap!Next]_<<Seen, nvs, restarts>>
  BY StepRefines DEF IInv
<1>q. QED BY <1>1, <1>4, <1>5, <1>6, PTL DEF Spec, RuleMapSpec, RMap!Spec, Seen

-----------------------------------------------------------------------------
\* What a read or a barrier relies on, with any number of editing tasks.  A flusher's
\* snapshot is not newer than its slot and, unless the slot was marked again, is what
\* the slot holds; its write is on flash, or counted as failed.
Snapshot(f) ==
    /\ job[f].edit <= dirty[job[f].slot].edit
    /\ ~dirty[job[f].slot].remarked => job[f].edit = dirty[job[f].slot].edit
    /\ job[f].phase = "ok" => job[f].edit <= nvs[job[f].rule]
    /\ job[f].phase = "failed" => failed[job[f].rule] > 0

FlushInv ==
    /\ \A i \in Slot : Open(i) => dirty[i].edit <= edits
    /\ \A r \in Rule : nvs[r] <= edits
    /\ \A f \in Flusher : Busy(f) => Snapshot(f)

\* The ranges the steps below do arithmetic on.
LEMMA StoreRanges ==
    ASSUME IInv
    PROVE /\ edits \in Nat /\ nvs \in [Rule -> Nat] /\ failed \in [Rule -> Nat]
          /\ \A i \in Slot : Open(i) => dirty[i].rule \in Rule /\ dirty[i].edit \in Nat
          /\ \A f \in Flusher : Busy(f) =>
                /\ job[f].slot \in Slot /\ job[f].rule \in Rule /\ job[f].edit \in Nat
                /\ Open(job[f].slot) /\ dirty[job[f].slot].rule = job[f].rule
<1> USE DEF IInv
<1>1. edits \in Nat /\ nvs \in [Rule -> Nat] /\ failed \in [Rule -> Nat]
  <2>1. edits \in Nat /\ Version \subseteq Nat
    BY DEF StoreTypeOK, Version
  <2>2. nvs \in [Rule -> Nat]
    BY <2>1 DEF StoreTypeOK, RuleFn
  <2>3. failed \in [Rule -> Nat]
    BY DEF StoreTypeOK
  <2>q. QED BY <2>1, <2>2, <2>3
<1>2. \A i \in Slot : Open(i) => dirty[i].rule \in Rule /\ dirty[i].edit \in Nat
  BY OpenType DEF Edit
<1>3. \A f \in Flusher : Busy(f) => /\ job[f].slot \in Slot /\ job[f].rule \in Rule /\ job[f].edit \in Nat
                                    /\ Open(job[f].slot) /\ dirty[job[f].slot].rule = job[f].rule
  BY BusyType DEF TableInv, Edit
<1>q. QED BY <1>1, <1>2, <1>3

\* The steps of the store, field by field.
LEMMA MarkEffect ==
    ASSUME IInv, NEW c \in Editor, NEW r \in Rule, NEW del \in BOOLEAN, Mark(c, r, del)
    PROVE /\ edits' = edits + 1 /\ UNCHANGED <<nvs, job, failed>>
          /\ \E i \in Slot :
                /\ dirty'[i].state # "clean" /\ dirty'[i].rule = r /\ dirty'[i].edit = edits + 1
                /\ dirty'[i].flushing = dirty[i].flushing /\ dirty'[i].remarked = dirty[i].flushing
                /\ Open(i) => dirty[i].rule = r
                /\ \A j \in Slot : j # i => dirty'[j] = dirty[j]
<1> USE DEF IInv
<1>1. edits < MaxEdits /\ edits' = edits + 1 /\ UNCHANGED <<nvs, job, failed>>
  BY DEF Mark, Accept
<1>2. PICK i \in Slot : SlotFor(i, r) /\ dirty' = [dirty EXCEPT ![i] = Entry(r, del, dirty[i])]
  BY DEF Mark
<1>3. /\ dirty'[i].state # "clean" /\ dirty'[i].rule = r /\ dirty'[i].edit = edits + 1
      /\ dirty'[i].flushing = dirty[i].flushing /\ dirty'[i].remarked = dirty[i].flushing
      /\ \A j \in Slot : j # i => dirty'[j] = dirty[j]
  BY <1>1, <1>2, EntryType DEF StoreTypeOK
<1>4. Open(i) => dirty[i].rule = r
  BY <1>2, SlotForRule
<1>q. QED BY <1>1, <1>3, <1>4

LEMMA DirectEffect ==
    ASSUME IInv, NEW c \in Client, DirectWrite(c)
    PROVE /\ edits' = edits + 1 /\ UNCHANGED <<dirty, job>>
          /\ \E q \in Rule :
                /\ nvs' = [nvs EXCEPT ![q] = edits + 1] \/ (nvs' = nvs /\ failed'[q] > 0)
                /\ \A r \in Rule : failed'[r] = 0 => failed[r] = 0
<1> USE DEF IInv
<1> DEFINE q == call[c].rule
<1>1. q \in Rule /\ call[c].del \in BOOLEAN
  BY DEF DirectWrite, CallInv, CallOK
<1>2. edits' = edits + 1 /\ UNCHANGED <<dirty, job>>
  BY <1>1, AcceptType DEF DirectWrite
<1>3. failed \in [Rule -> Nat]
  BY StoreRanges
<1>4. /\ nvs' = [nvs EXCEPT ![q] = edits + 1] \/ (nvs' = nvs /\ failed'[q] > 0)
      /\ \A r \in Rule : failed'[r] = 0 => failed[r] = 0
  <2>1. CASE NvsWrites(q, edits + 1)
    BY <2>1 DEF NvsWrites
  <2>2. CASE NvsFails(q, edits + 1)
    <3>1. failed' = [failed EXCEPT ![q] = failed[q] + 1] /\ nvs' \in {nvs, [nvs EXCEPT ![q] = edits + 1]}
      BY <2>2 DEF NvsFails
    <3>2. failed'[q] > 0 /\ \A r \in Rule : failed'[r] = 0 => failed[r] = 0
      BY <1>1, <1>3, <3>1
    <3>q. QED BY <3>1, <3>2
  <2>q. QED BY <2>1, <2>2 DEF DirectWrite
<1>q. QED BY <1>1, <1>2, <1>4

LEMMA ClaimEffect ==
    ASSUME IInv, NEW f \in Flusher, NEW i \in Slot, Claim(f, i)
    PROVE /\ Open(i) /\ ~dirty[i].flushing /\ ~Busy(f)
          /\ dirty'[i].state = dirty[i].state /\ dirty'[i].rule = dirty[i].rule
          /\ dirty'[i].edit = dirty[i].edit /\ dirty'[i].flushing /\ ~dirty'[i].remarked
          /\ job'[f].slot = i /\ job'[f].rule = dirty[i].rule /\ job'[f].edit = dirty[i].edit
          /\ job'[f].phase = "claimed"
          /\ \A j \in Slot : j # i => dirty'[j] = dirty[j]
          /\ \A g \in Flusher : g # f => job'[g] = job[g]
<1>0. StoreTypeOK /\ Claim(f, i)
  BY DEF IInv
<1>1. Open(i) /\ ~dirty[i].flushing /\ ~Busy(f)
  BY <1>0 DEF Claim, Claimable, Open, Busy
<1>2. /\ dirty'[i] = [dirty[i] EXCEPT !.flushing = TRUE, !.remarked = FALSE]
      /\ \A j \in Slot : j # i => dirty'[j] = dirty[j]
  BY <1>0 DEF Claim, StoreTypeOK
<1>3. dirty[i] \in Pending BY <1>0, <1>1, OpenType
<1>4. /\ dirty'[i].state = dirty[i].state /\ dirty'[i].rule = dirty[i].rule
      /\ dirty'[i].edit = dirty[i].edit /\ dirty'[i].flushing /\ ~dirty'[i].remarked
  BY <1>2, <1>3 DEF Pending
<1>5. /\ job'[f] = [phase |-> "claimed", slot |-> i, rule |-> dirty[i].rule, edit |-> dirty[i].edit]
      /\ \A g \in Flusher : g # f => job'[g] = job[g]
  <2>1. job' = [job EXCEPT ![f] = [phase |-> "claimed", slot |-> i,
                                   rule |-> dirty[i].rule, edit |-> dirty[i].edit]]
    BY <1>0 DEF Claim
  <2>2. job = [g \in Flusher |-> job[g]]
    BY <1>0 DEF StoreTypeOK, Flusher
  <2>q. QED BY <2>1, <2>2
<1>q. QED BY <1>1, <1>2, <1>4, <1>5

LEMMA WriteEffect ==
    ASSUME IInv, NEW f \in Flusher, Write(f)
    PROVE /\ Busy(f) /\ UNCHANGED <<dirty, edits>>
          /\ job'[f].slot = job[f].slot /\ job'[f].rule = job[f].rule /\ job'[f].edit = job[f].edit
          /\ nvs' = [nvs EXCEPT ![job[f].rule] = job[f].edit] \/ (nvs' = nvs /\ failed'[job[f].rule] > 0)
          /\ job'[f].phase = "ok" => nvs'[job[f].rule] = job[f].edit
          /\ job'[f].phase = "failed" => failed'[job[f].rule] > 0
          /\ \A r \in Rule : failed[r] <= failed'[r]
          /\ \A g \in Flusher : g # f => job'[g] = job[g]
<1> USE DEF IInv
<1> DEFINE r == job[f].rule
           e == job[f].edit
<1>1. Busy(f) /\ job[f] \in Job /\ r \in Rule /\ e \in Edit
  BY PhaseBusy, BusyType DEF Write
<1>2. nvs \in [Rule -> Nat] /\ failed \in [Rule -> Nat]
  BY StoreRanges
<1>3. \A g \in Flusher : g # f => job'[g] = job[g]
  BY DEF Write, StoreTypeOK, Flusher
<1>4. CASE NvsWrites(r, e) /\ job' = [job EXCEPT ![f].phase = "ok"]
  <2>1. nvs' = [nvs EXCEPT ![r] = e] /\ nvs'[r] = e /\ failed' = failed
    BY <1>1, <1>2, <1>4 DEF NvsWrites
  <2>2. job'[f] = [job[f] EXCEPT !.phase = "ok"]
    BY <1>4 DEF StoreTypeOK, Flusher
  <2>3. job'[f].slot = job[f].slot /\ job'[f].rule = r /\ job'[f].edit = e /\ job'[f].phase = "ok"
    BY <1>1, <2>2 DEF Job
  <2>4. \A q \in Rule : failed[q] <= failed'[q]
    BY <1>2, <2>1
  <2>q. QED BY <1>1, <1>3, <2>1, <2>3, <2>4 DEF Write
<1>5. CASE NvsFails(r, e) /\ job' = [job EXCEPT ![f].phase = "failed"]
  <2>1. nvs' \in {nvs, [nvs EXCEPT ![r] = e]} /\ failed' = [failed EXCEPT ![r] = failed[r] + 1]
    BY <1>5 DEF NvsFails
  <2>2. job'[f] = [job[f] EXCEPT !.phase = "failed"]
    BY <1>5 DEF StoreTypeOK, Flusher
  <2>3. job'[f].slot = job[f].slot /\ job'[f].rule = r /\ job'[f].edit = e /\ job'[f].phase = "failed"
    BY <1>1, <2>2 DEF Job
  <2>4. failed'[r] > 0 /\ \A q \in Rule : failed[q] <= failed'[q]
    BY <1>1, <1>2, <2>1
  <2>q. QED BY <1>1, <1>3, <2>1, <2>3, <2>4 DEF Write
<1>q. QED BY <1>4, <1>5 DEF Write

LEMMA SettleEffect ==
    ASSUME IInv, NEW f \in Flusher, Settle(f)
    PROVE LET i == job[f].slot IN
          /\ Busy(f) /\ i \in Slot /\ job[f].phase \in {"ok", "failed"}
          /\ UNCHANGED <<nvs, edits, failed>> /\ job'[f] = NoJob
          /\ dirty'[i].flushing = FALSE
          /\ dirty'[i].state # "clean" => dirty'[i].rule = dirty[i].rule /\ dirty'[i].edit = dirty[i].edit
          /\ dirty'[i].state = "clean" => job[f].phase = "ok" /\ ~dirty[i].remarked
          /\ \A j \in Slot : j # i => dirty'[j] = dirty[j]
          /\ \A g \in Flusher : g # f => job'[g] = job[g]
<1> USE DEF IInv
<1> DEFINE i == job[f].slot
<1>1. Busy(f) /\ i \in Slot /\ job[f].phase \in {"ok", "failed"} /\ Open(i)
  BY PhaseBusy, BusyType DEF Settle, TableInv
<1>2. dirty' = [dirty EXCEPT ![i] = Settled(dirty[i], job[f].phase)]
  BY <1>1 DEF Settle, StoreTypeOK
<1>3. /\ dirty'[i] = Settled(dirty[i], job[f].phase)
      /\ \A j \in Slot : j # i => dirty'[j] = dirty[j]
  BY <1>1, <1>2 DEF StoreTypeOK
<1>4. /\ dirty'[i].flushing = FALSE
      /\ dirty'[i].state # "clean" => dirty'[i].rule = dirty[i].rule /\ dirty'[i].edit = dirty[i].edit
      /\ dirty'[i].state = "clean" => job[f].phase = "ok" /\ ~dirty[i].remarked
  <2> DEFINE new == Settled(dirty[i], job[f].phase)
  <2>1. /\ new.flushing = FALSE
        /\ new.state # "clean" => new.rule = dirty[i].rule /\ new.edit = dirty[i].edit
        /\ new.state = "clean" => job[f].phase = "ok" /\ ~dirty[i].remarked
    BY <1>1, SettledType
  <2>2. dirty'[i] = new
    BY <1>3
  <2> HIDE DEF new, i
  <2>q. QED BY <2>1, <2>2
<1>5. UNCHANGED <<nvs, edits, failed>> /\ job'[f] = NoJob /\ \A g \in Flusher : g # f => job'[g] = job[g]
  BY DEF Settle, StoreTypeOK, Flusher
<1>q. QED BY <1>1, <1>3, <1>4, <1>5

LEMMA InitFlush == Init => FlushInv
BY DEF Init, FlushInv, Open, Busy, Clean, Flusher

LEMMA NextFlush == IInv /\ FlushInv /\ [Next]_vars => FlushInv'
<1> SUFFICES ASSUME IInv, FlushInv, [Next]_vars PROVE FlushInv'
  OBVIOUS
<1>t. /\ edits \in Nat /\ nvs \in [Rule -> Nat] /\ failed \in [Rule -> Nat]
      /\ \A i \in Slot : Open(i) => dirty[i].rule \in Rule /\ dirty[i].edit \in Nat
      /\ \A f \in Flusher : Busy(f) =>
            /\ job[f].slot \in Slot /\ job[f].rule \in Rule /\ job[f].edit \in Nat
            /\ Open(job[f].slot) /\ dirty[job[f].slot].rule = job[f].rule
  BY StoreRanges
<1>u. /\ \A f, g \in Flusher : Busy(f) /\ Busy(g) /\ job[f].slot = job[g].slot => f = g
      /\ \A f \in Flusher : Busy(f) => dirty[job[f].slot].flushing
      /\ \A i, j \in Slot : Open(i) /\ Open(j) /\ dirty[i].rule = dirty[j].rule => i = j
  BY DEF IInv, TableInv
<1>1. ASSUME NEW c \in Editor, NEW r \in Rule, NEW del \in BOOLEAN, Mark(c, r, del)
      PROVE FlushInv'
  <2>1. edits' = edits + 1 /\ UNCHANGED <<nvs, job, failed>>
    BY <1>1, MarkEffect
  <2>2. PICK i \in Slot :
           /\ dirty'[i].state # "clean" /\ dirty'[i].rule = r /\ dirty'[i].edit = edits + 1
           /\ dirty'[i].flushing = dirty[i].flushing /\ dirty'[i].remarked = dirty[i].flushing
           /\ Open(i) => dirty[i].rule = r
           /\ \A j \in Slot : j # i => dirty'[j] = dirty[j]
    BY <1>1, MarkEffect
  <2>3. \A j \in Slot : Open(j)' => dirty'[j].edit <= edits'
    BY <1>t, <2>1, <2>2 DEF FlushInv, Open
  <2>4. \A q \in Rule : nvs'[q] <= edits'
    BY <1>t, <2>1 DEF FlushInv
  <2>5. \A f \in Flusher : Busy(f) => Snapshot(f)'
    <3> SUFFICES ASSUME NEW f \in Flusher, Busy(f) PROVE Snapshot(f)'
      OBVIOUS
    <3>0. Snapshot(f) BY DEF FlushInv
    <3>1. CASE job[f].slot = i
      <4>1. dirty'[i].remarked
        BY <1>u, <2>2, <3>1
      <4>2. job[f].edit <= edits
        BY <1>t, <3>0, <3>1 DEF FlushInv, Snapshot
      <4>q. QED BY <1>t, <2>1, <2>2, <3>0, <3>1, <4>1, <4>2 DEF Snapshot
    <3>2. CASE job[f].slot # i
      <4>1. dirty'[job[f].slot] = dirty[job[f].slot]
        BY <1>t, <2>2, <3>2
      <4>q. QED BY <2>1, <3>0, <4>1 DEF Snapshot
    <3>q. QED BY <3>1, <3>2
  <2>q. QED BY <2>1, <2>3, <2>4, <2>5 DEF FlushInv, Busy
<1>2. ASSUME NEW c \in Client, DirectWrite(c) PROVE FlushInv'
  <2>1. edits' = edits + 1 /\ UNCHANGED <<dirty, job>>
    BY <1>2, DirectEffect
  <2>2. PICK q \in Rule :
           /\ nvs' = [nvs EXCEPT ![q] = edits + 1] \/ (nvs' = nvs /\ failed'[q] > 0)
           /\ \A r \in Rule : failed'[r] = 0 => failed[r] = 0
    BY <1>2, DirectEffect
  <2>3. \A r \in Rule : nvs[r] <= nvs'[r] /\ nvs'[r] <= edits'
    <3> SUFFICES ASSUME NEW r \in Rule PROVE nvs[r] <= nvs'[r] /\ nvs'[r] <= edits'
      OBVIOUS
    <3>1. nvs[r] \in Nat /\ nvs[r] <= edits
      BY <1>t DEF FlushInv
    <3>2. nvs'[r] = nvs[r] \/ nvs'[r] = edits + 1
      BY <1>t, <2>2
    <3>q. QED BY <1>t, <2>1, <3>1, <3>2
  <2>4. \A r \in Rule : failed[r] > 0 => failed'[r] > 0
    <3>1. failed' \in [Rule -> Nat]
      <4>1. StoreTypeOK' BY NextType DEF IInv
      <4>q. QED BY <4>1 DEF StoreTypeOK
    <3>q. QED BY <1>t, <2>2, <3>1
  <2>5. \A f \in Flusher : Busy(f) => Snapshot(f)'
    <3> SUFFICES ASSUME NEW f \in Flusher, Busy(f) PROVE Snapshot(f)'
      OBVIOUS
    <3>1. Snapshot(f) /\ job[f].rule \in Rule /\ job[f].edit \in Nat
      BY <1>t DEF FlushInv
    <3>2. nvs[job[f].rule] \in Nat /\ nvs'[job[f].rule] \in Nat
      <4>1. StoreTypeOK' BY NextType DEF IInv
      <4>q. QED BY <1>t, <3>1, <4>1 DEF StoreTypeOK, RuleFn, Version
    <3>q. QED BY <2>1, <2>3, <2>4, <3>1, <3>2 DEF Snapshot
  <2>6. \A i \in Slot : Open(i) => dirty[i].edit <= edits'
    BY <1>t, <2>1 DEF FlushInv
  <2>q. QED BY <2>1, <2>3, <2>5, <2>6 DEF FlushInv, Open, Busy
<1>3. ASSUME NEW f \in Flusher, NEW i \in Slot, Claim(f, i), UNCHANGED <<nvs, edits, failed>>
      PROVE FlushInv'
  <2>1. /\ Open(i) /\ ~dirty[i].flushing /\ ~Busy(f)
        /\ dirty'[i].state = dirty[i].state /\ dirty'[i].rule = dirty[i].rule
        /\ dirty'[i].edit = dirty[i].edit /\ ~dirty'[i].remarked
        /\ job'[f].slot = i /\ job'[f].rule = dirty[i].rule /\ job'[f].edit = dirty[i].edit
        /\ job'[f].phase = "claimed"
        /\ \A j \in Slot : j # i => dirty'[j] = dirty[j]
        /\ \A g \in Flusher : g # f => job'[g] = job[g]
    BY <1>3, ClaimEffect
  <2>2. Snapshot(f)'
    BY <1>t, <2>1 DEF Snapshot
  <2>3. \A g \in Flusher : g # f /\ Busy(g) => Snapshot(g)'
    <3> SUFFICES ASSUME NEW g \in Flusher, g # f, Busy(g) PROVE Snapshot(g)'
      OBVIOUS
    <3>1. job[g].slot # i /\ job[g].slot \in Slot /\ Snapshot(g)
      BY <1>t, <1>u, <2>1 DEF FlushInv
    <3>2. dirty'[job[g].slot] = dirty[job[g].slot] /\ job'[g] = job[g]
      BY <2>1, <3>1
    <3>q. QED BY <1>3, <3>1, <3>2 DEF Snapshot
  <2>4. \A j \in Slot : Open(j)' => dirty'[j].edit <= edits'
    BY <1>3, <2>1 DEF FlushInv, Open
  <2>5. \A q \in Rule : nvs'[q] <= edits'
    BY <1>3 DEF FlushInv
  <2>q. QED BY <2>1, <2>2, <2>3, <2>4, <2>5 DEF FlushInv, Busy
<1>4. ASSUME NEW f \in Flusher, Write(f) PROVE FlushInv'
  <2> DEFINE q == job[f].rule
             e == job[f].edit
  <2>1. /\ Busy(f) /\ UNCHANGED <<dirty, edits>>
        /\ job'[f].slot = job[f].slot /\ job'[f].rule = q /\ job'[f].edit = e
        /\ nvs' = [nvs EXCEPT ![q] = e] \/ (nvs' = nvs /\ failed'[q] > 0)
        /\ job'[f].phase = "ok" => nvs'[q] = e
        /\ job'[f].phase = "failed" => failed'[q] > 0
        /\ \A r \in Rule : failed[r] <= failed'[r]
        /\ \A g \in Flusher : g # f => job'[g] = job[g]
    BY <1>4, WriteEffect
  <2>2. q \in Rule /\ e \in Nat /\ e <= edits /\ Snapshot(f)
    BY <1>t, <2>1 DEF FlushInv, Snapshot
  <2>3. \A r \in Rule : nvs'[r] <= edits' /\ (r # q => nvs'[r] = nvs[r])
    BY <1>t, <2>1, <2>2 DEF FlushInv
  <2>4. Snapshot(f)'
    BY <2>1, <2>2 DEF Snapshot
  <2>5. \A g \in Flusher : g # f /\ Busy(g) => Snapshot(g)'
    <3> SUFFICES ASSUME NEW g \in Flusher, g # f, Busy(g) PROVE Snapshot(g)'
      OBVIOUS
    <3>1. job[g].rule # q /\ job[g].rule \in Rule /\ Snapshot(g) /\ job'[g] = job[g]
      BY <1>t, <1>u, <2>1 DEF FlushInv
    <3>2. nvs'[job[g].rule] = nvs[job[g].rule]
      BY <2>3, <3>1
    <3>3. failed[job[g].rule] > 0 => failed'[job[g].rule] > 0
      <4>1. StoreTypeOK' BY NextType DEF IInv
      <4>2. failed' \in [Rule -> Nat] BY <4>1 DEF StoreTypeOK
      <4>q. QED BY <1>t, <2>1, <3>1, <4>2
    <3>q. QED BY <2>1, <3>1, <3>2, <3>3 DEF Snapshot
  <2>6. \A i \in Slot : Open(i) => dirty[i].edit <= edits
    BY DEF FlushInv
  <2>q. QED BY <2>1, <2>3, <2>4, <2>5, <2>6 DEF FlushInv, Open, Busy
<1>5. ASSUME NEW f \in Flusher, Settle(f) PROVE FlushInv'
  <2> DEFINE i == job[f].slot
  <2>1. /\ Busy(f) /\ i \in Slot
        /\ UNCHANGED <<nvs, edits, failed>> /\ job'[f] = NoJob
        /\ dirty'[i].state # "clean" => dirty'[i].rule = dirty[i].rule /\ dirty'[i].edit = dirty[i].edit
        /\ \A j \in Slot : j # i => dirty'[j] = dirty[j]
        /\ \A g \in Flusher : g # f => job'[g] = job[g]
    BY <1>5, SettleEffect
  <2>2. \A g \in Flusher : g # f /\ Busy(g) => Snapshot(g)'
    <3> SUFFICES ASSUME NEW g \in Flusher, g # f, Busy(g) PROVE Snapshot(g)'
      OBVIOUS
    <3>1. job[g].slot # i /\ job[g].slot \in Slot /\ Snapshot(g)
      BY <1>t, <1>u, <2>1 DEF FlushInv
    <3>2. dirty'[job[g].slot] = dirty[job[g].slot] /\ job'[g] = job[g]
      BY <2>1, <3>1
    <3>q. QED BY <2>1, <3>1, <3>2 DEF Snapshot
  <2>3. \A j \in Slot : Open(j)' => dirty'[j].edit <= edits'
    <3> SUFFICES ASSUME NEW j \in Slot, dirty'[j].state # "clean" PROVE dirty'[j].edit <= edits
      BY <2>1 DEF Open
    <3>1. CASE j = i BY <1>t, <2>1, <3>1 DEF FlushInv
    <3>2. CASE j # i BY <2>1, <3>2 DEF FlushInv, Open
    <3>q. QED BY <3>1, <3>2
  <2>4. \A q \in Rule : nvs'[q] <= edits'
    BY <2>1 DEF FlushInv
  <2>q. QED BY <2>1, <2>2, <2>3, <2>4 DEF FlushInv, Busy
<1>6. ASSUME Restart PROVE FlushInv'
  BY <1>6 DEF Restart, FlushInv, Open, Busy, Clean, Flusher
<1>7. ASSUME UNCHANGED store PROVE FlushInv'
  BY <1>7 DEF store, FlushInv, Snapshot, Open, Busy
<1>8. UNCHANGED vars => UNCHANGED store
  BY DEF vars, store
<1>q. QED BY <1>1, <1>2, <1>3, <1>4, <1>5, <1>6, <1>7, <1>8, StepCases

-----------------------------------------------------------------------------
\* What a step may not do to a rule of which a client has seen edit v: take back an
\* edit as new as v, or lose it between the table and flash.
Above(r, v) == v <= edits /\ \A i \in Slot : Open(i) /\ dirty[i].rule = r => v <= dirty[i].edit
JobsAbove(r, v) == \A f \in Flusher : Busy(f) /\ job[f].rule = r => v <= job[f].edit
OnFlash(r, v) == v <= nvs[r]
Kept(r, v) == OnFlash(r, v) \/ \E i \in Slot : Open(i) /\ dirty[i].rule = r
\* The pass has still to visit the slot, or someone is writing it.
Covered(r, v, n) ==
    OnFlash(r, v) \/ \E i \in Slot : Open(i) /\ dirty[i].rule = r /\ (i < n => dirty[i].flushing)

Holds(r, v) ==
    /\ Above(r, v) => Above(r, v)'
    /\ Above(r, v) /\ JobsAbove(r, v) => JobsAbove(r, v)'
    /\ Above(r, v) /\ JobsAbove(r, v) /\ OnFlash(r, v) => OnFlash(r, v)'
    /\ failed'[r] = 0 => failed[r] = 0
    /\ failed'[r] = 0 /\ Above(r, v) /\ Kept(r, v) => Kept(r, v)'
    /\ failed'[r] = 0 /\ Above(r, v) /\ JobsAbove(r, v) =>
          \A n \in Nat : Covered(r, v, n) => Covered(r, v, n)'

LEMMA StepHolds ==
    ASSUME IInv, FlushInv, [Next]_vars, ~Restart, NEW r \in Rule, NEW v \in Nat
    PROVE Holds(r, v)
<1>t. /\ edits \in Nat /\ nvs \in [Rule -> Nat] /\ failed \in [Rule -> Nat]
      /\ \A i \in Slot : Open(i) => dirty[i].rule \in Rule /\ dirty[i].edit \in Nat
      /\ \A f \in Flusher : Busy(f) =>
            /\ job[f].slot \in Slot /\ job[f].rule \in Rule /\ job[f].edit \in Nat
            /\ Open(job[f].slot) /\ dirty[job[f].slot].rule = job[f].rule
  BY StoreRanges
<1>s. failed' \in [Rule -> Nat] /\ nvs' \in [Rule -> Nat]
  <2>1. StoreTypeOK' BY NextType DEF IInv
  <2>q. QED BY <2>1 DEF StoreTypeOK, RuleFn, Version
<1>u. /\ \A f, g \in Flusher : Busy(f) /\ Busy(g) /\ job[f].slot = job[g].slot => f = g
      /\ \A f \in Flusher : Busy(f) => dirty[job[f].slot].flushing
      /\ \A i, j \in Slot : Open(i) /\ Open(j) /\ dirty[i].rule = dirty[j].rule => i = j
  BY DEF IInv, TableInv
<1>1. ASSUME NEW c \in Editor, NEW q \in Rule, NEW del \in BOOLEAN, Mark(c, q, del)
      PROVE Holds(r, v)
  <2>1. edits' = edits + 1 /\ UNCHANGED <<nvs, job, failed>>
    BY <1>1, MarkEffect
  <2>2. PICK i \in Slot :
           /\ dirty'[i].state # "clean" /\ dirty'[i].rule = q /\ dirty'[i].edit = edits + 1
           /\ dirty'[i].flushing = dirty[i].flushing /\ dirty'[i].remarked = dirty[i].flushing
           /\ Open(i) => dirty[i].rule = q
           /\ \A j \in Slot : j # i => dirty'[j] = dirty[j]
    BY <1>1, MarkEffect
  <2>3. Above(r, v) => Above(r, v)'
    BY <1>t, <2>1, <2>2 DEF Above, Open
  <2>4. /\ JobsAbove(r, v) => JobsAbove(r, v)'
        /\ OnFlash(r, v)' = OnFlash(r, v)
    BY <2>1 DEF JobsAbove, Busy, OnFlash
  <2>5. \A j \in Slot : Open(j) /\ dirty[j].rule = r =>
           Open(j)' /\ dirty'[j].rule = r /\ dirty'[j].flushing = dirty[j].flushing
    BY <2>2 DEF Open
  <2>6. Kept(r, v) => Kept(r, v)'
    BY <2>4, <2>5 DEF Kept
  <2>7. \A n \in Nat : Covered(r, v, n) => Covered(r, v, n)'
    BY <2>4, <2>5 DEF Covered
  <2>q. QED BY <2>1, <2>3, <2>4, <2>6, <2>7 DEF Holds
<1>2. ASSUME NEW c \in Client, DirectWrite(c) PROVE Holds(r, v)
  <2>1. edits' = edits + 1 /\ UNCHANGED <<dirty, job>>
    BY <1>2, DirectEffect
  <2>2. PICK q \in Rule :
           /\ nvs' = [nvs EXCEPT ![q] = edits + 1] \/ (nvs' = nvs /\ failed'[q] > 0)
           /\ \A p \in Rule : failed'[p] = 0 => failed[p] = 0
    BY <1>2, DirectEffect
  <2>3. nvs[r] <= nvs'[r]
    BY <1>t, <2>2 DEF FlushInv
  <2>4. OnFlash(r, v) => OnFlash(r, v)'
    BY <1>t, <1>s, <2>3 DEF OnFlash
  <2>5. (Above(r, v) => Above(r, v)') /\ (JobsAbove(r, v) => JobsAbove(r, v)')
    BY <1>t, <2>1 DEF Above, JobsAbove, Open, Busy
  <2>6. Kept(r, v) => Kept(r, v)'
    BY <2>1, <2>4 DEF Kept, Open
  <2>7. \A n \in Nat : Covered(r, v, n) => Covered(r, v, n)'
    BY <2>1, <2>4 DEF Covered, Open
  <2>q. QED BY <2>2, <2>4, <2>5, <2>6, <2>7 DEF Holds
<1>3. ASSUME NEW f \in Flusher, NEW i \in Slot, Claim(f, i), UNCHANGED <<nvs, edits, failed>>
      PROVE Holds(r, v)
  <2>1. /\ Open(i)
        /\ dirty'[i].state = dirty[i].state /\ dirty'[i].rule = dirty[i].rule
        /\ dirty'[i].edit = dirty[i].edit /\ dirty'[i].flushing
        /\ job'[f].slot = i /\ job'[f].rule = dirty[i].rule /\ job'[f].edit = dirty[i].edit
        /\ \A j \in Slot : j # i => dirty'[j] = dirty[j]
        /\ \A g \in Flusher : g # f => job'[g] = job[g]
    BY <1>3, ClaimEffect
  <2>2. OnFlash(r, v)' = OnFlash(r, v)
    BY <1>3 DEF OnFlash
  <2>3. Above(r, v) => Above(r, v)'
    BY <1>3, <2>1 DEF Above, Open
  <2>4. Above(r, v) /\ JobsAbove(r, v) => JobsAbove(r, v)'
    BY <2>1 DEF Above, JobsAbove, Busy
  <2>5. \A j \in Slot : Open(j) /\ dirty[j].rule = r =>
           Open(j)' /\ dirty'[j].rule = r /\ (dirty[j].flushing => dirty'[j].flushing)
    BY <2>1 DEF Open
  <2>6. Kept(r, v) => Kept(r, v)'
    BY <2>2, <2>5 DEF Kept
  <2>7. \A n \in Nat : Covered(r, v, n) => Covered(r, v, n)'
    BY <2>2, <2>5 DEF Covered
  <2>q. QED BY <1>3, <2>2, <2>3, <2>4, <2>6, <2>7 DEF Holds
<1>4. ASSUME NEW f \in Flusher, Write(f) PROVE Holds(r, v)
  <2> DEFINE q == job[f].rule
             e == job[f].edit
             i == job[f].slot
  <2>1. /\ Busy(f) /\ UNCHANGED <<dirty, edits>>
        /\ job'[f].rule = q /\ job'[f].edit = e
        /\ nvs' = [nvs EXCEPT ![q] = e] \/ (nvs' = nvs /\ failed'[q] > 0)
        /\ \A p \in Rule : failed[p] <= failed'[p]
        /\ \A g \in Flusher : g # f => job'[g] = job[g]
    BY <1>4, WriteEffect
  <2>2. q \in Rule /\ e \in Nat /\ i \in Slot /\ Open(i) /\ dirty[i].rule = q /\ dirty[i].flushing
    BY <1>t, <1>u, <2>1
  <2>3. Above(r, v) => Above(r, v)'
    BY <2>1 DEF Above, Open
  <2>4. JobsAbove(r, v) => JobsAbove(r, v)'
    BY <2>1 DEF JobsAbove, Busy
  <2>5. JobsAbove(r, v) /\ OnFlash(r, v) => OnFlash(r, v)'
    <3> SUFFICES ASSUME JobsAbove(r, v), v <= nvs[r] PROVE v <= nvs'[r]
      BY DEF OnFlash
    <3>1. CASE q = r
      <4>1. v <= e BY <2>1, <3>1 DEF JobsAbove
      <4>2. nvs'[r] = e \/ nvs'[r] = nvs[r] BY <1>t, <2>1, <3>1
      <4>q. QED BY <4>1, <4>2
    <3>2. CASE q # r
      BY <1>t, <2>1, <3>2
    <3>q. QED BY <3>1, <3>2
  <2>6. Kept(r, v) => Kept(r, v)'
    <3>1. CASE q = r
      BY <2>1, <2>2, <3>1 DEF Kept, Open
    <3>2. CASE q # r
      <4>1. nvs'[r] = nvs[r] BY <1>t, <2>1, <3>2
      <4>q. QED BY <2>1, <4>1 DEF Kept, OnFlash, Open
    <3>q. QED BY <3>1, <3>2
  <2>7. JobsAbove(r, v) => \A n \in Nat : Covered(r, v, n) => Covered(r, v, n)'
    <3>1. \A n \in Nat : (\E j \in Slot : Open(j) /\ dirty[j].rule = r /\ (j < n => dirty[j].flushing))
             => Covered(r, v, n)'
      BY <2>1 DEF Covered, Open
    <3>q. QED BY <2>5, <3>1 DEF Covered
  <2>8. failed'[r] = 0 => failed[r] = 0
    <3>1. failed[r] \in Nat /\ failed'[r] \in Nat /\ failed[r] <= failed'[r]
      BY <1>t, <1>s, <2>1
    <3>q. QED BY <3>1
  <2>q. QED BY <2>3, <2>4, <2>5, <2>6, <2>7, <2>8 DEF Holds
<1>5. ASSUME NEW f \in Flusher, Settle(f) PROVE Holds(r, v)
  <2> DEFINE i == job[f].slot
  <2>1. /\ Busy(f) /\ i \in Slot /\ job[f].phase \in {"ok", "failed"}
        /\ UNCHANGED <<nvs, edits, failed>> /\ job'[f] = NoJob
        /\ dirty'[i].state # "clean" => dirty'[i].rule = dirty[i].rule /\ dirty'[i].edit = dirty[i].edit
        /\ dirty'[i].state = "clean" => job[f].phase = "ok" /\ ~dirty[i].remarked
        /\ \A j \in Slot : j # i => dirty'[j] = dirty[j]
        /\ \A g \in Flusher : g # f => job'[g] = job[g]
    BY <1>5, SettleEffect
  <2>2. /\ Open(i) /\ dirty[i].rule = job[f].rule /\ job[f].rule \in Rule
        /\ dirty[i].edit \in Nat /\ job[f].edit \in Nat /\ nvs[job[f].rule] \in Nat
    BY <1>t, <2>1
  <2>3. /\ ~dirty[i].remarked => job[f].edit = dirty[i].edit
        /\ job[f].phase = "ok" => job[f].edit <= nvs[job[f].rule]
        /\ job[f].phase = "failed" => failed[job[f].rule] > 0
    BY <2>1 DEF FlushInv, Snapshot
  <2>4. OnFlash(r, v)' = OnFlash(r, v)
    BY <2>1 DEF OnFlash
  <2>5. Above(r, v) => Above(r, v)'
    <3> SUFFICES ASSUME Above(r, v), NEW j \in Slot, dirty'[j].state # "clean", dirty'[j].rule = r
                 PROVE v <= dirty'[j].edit
      BY <2>1 DEF Above, Open
    <3>1. CASE j = i BY <2>1, <2>2, <3>1 DEF Above
    <3>2. CASE j # i BY <2>1, <3>2 DEF Above, Open
    <3>q. QED BY <3>1, <3>2
  <2>6. JobsAbove(r, v) => JobsAbove(r, v)'
    BY <2>1 DEF JobsAbove, Busy
  <2>7. Above(r, v) /\ Kept(r, v) => Kept(r, v)'
    <3> SUFFICES ASSUME Above(r, v), NEW j \in Slot, Open(j), dirty[j].rule = r PROVE Kept(r, v)'
      BY <2>4 DEF Kept
    <3>1. CASE j # i
      BY <2>1, <3>1 DEF Kept, Open
    <3>2. CASE j = i /\ dirty'[i].state # "clean"
      BY <2>1, <3>2 DEF Kept, Open
    <3>3. CASE j = i /\ dirty'[i].state = "clean"
      <4>1. v <= dirty[i].edit /\ job[f].edit = dirty[i].edit /\ job[f].edit <= nvs[r]
        BY <2>1, <2>2, <2>3, <3>3 DEF Above
      <4>2. OnFlash(r, v)
        BY <2>2, <3>3, <4>1 DEF OnFlash
      <4>q. QED BY <2>4, <4>2 DEF Kept
    <3>q. QED BY <3>1, <3>2, <3>3
  <2>8. failed'[r] = 0 /\ Above(r, v) /\ JobsAbove(r, v) =>
           \A n \in Nat : Covered(r, v, n) => Covered(r, v, n)'
    <3> SUFFICES ASSUME failed[r] = 0, JobsAbove(r, v), NEW n \in Nat,
                        NEW j \in Slot, Open(j), dirty[j].rule = r, j < n => dirty[j].flushing
                 PROVE Covered(r, v, n)'
      BY <2>1, <2>4 DEF Covered
    <3>1. CASE j # i
      BY <2>1, <3>1 DEF Covered, Open
    <3>2. CASE j = i
      <4>1. v <= job[f].edit /\ job[f].phase = "ok"
        BY <2>1, <2>2, <2>3, <3>2 DEF JobsAbove
      <4>2. OnFlash(r, v)
        BY <2>2, <2>3, <3>2, <4>1 DEF OnFlash
      <4>q. QED BY <2>4, <4>2 DEF Covered
    <3>q. QED BY <3>1, <3>2
  <2>q. QED BY <2>1, <2>4, <2>5, <2>6, <2>7, <2>8 DEF Holds
<1>6. ASSUME UNCHANGED store PROVE Holds(r, v)
  <2>1. /\ Above(r, v)' = Above(r, v) /\ JobsAbove(r, v)' = JobsAbove(r, v)
        /\ OnFlash(r, v)' = OnFlash(r, v) /\ Kept(r, v)' = Kept(r, v) /\ failed' = failed
        /\ \A n \in Nat : Covered(r, v, n)' = Covered(r, v, n)
    BY <1>6 DEF store, Above, JobsAbove, OnFlash, Kept, Covered, Open, Busy
  <2>q. QED BY <2>1 DEF Holds
<1>7. UNCHANGED vars => UNCHANGED store
  BY DEF vars, store
<1>q. QED BY <1>1, <1>2, <1>3, <1>4, <1>5, <1>6, <1>7, StepCases

-----------------------------------------------------------------------------
\* What a step does to a client's call, as far as loads and barriers go.
Moved(d) ==
    \/ call'[d] = call[d]
    \/ call'[d].op \in {"idle", "direct", "merge", "listed", "max", "maxed"}
    \/ \E r \in Rule : LoadOverlay(d, r)
    \/ LoadNvs(d) \/ FlushNow(d) \/ PassStep(d) \/ WaitEnds(d) \/ CheckPending(d)

LEMMA CallMoves == CallInv /\ [Next]_vars => \A d \in Client : Moved(d)
<1> SUFFICES ASSUME CallInv, [Next]_vars PROVE \A d \in Client : Moved(d)
  OBVIOUS
<1>1. ASSUME NEW c \in Client, NEW k, call' = [call EXCEPT ![c] = k],
             k.op \in {"idle", "direct", "merge", "listed", "max", "maxed"}
      PROVE \A d \in Client : Moved(d)
  BY <1>1 DEF Moved, CallInv
<1>2. ASSUME NEW c \in Client, NEW k, call' = [call EXCEPT ![c] = k], Moved(c)
      PROVE \A d \in Client : Moved(d)
  <2>1. \A d \in Client : d # c => call'[d] = call[d]
    BY <1>2 DEF CallInv
  <2>q. QED BY <1>2, <2>1 DEF Moved
<1>3. ASSUME UNCHANGED call PROVE \A d \in Client : Moved(d)
  BY <1>3 DEF Moved
<1>4. ASSUME NEW c \in Editor, Edits(c) PROVE \A d \in Client : Moved(d)
  <2>1. ASSUME NEW r \in Rule, NEW del \in BOOLEAN, Mark(c, r, del) PROVE \A d \in Client : Moved(d)
    BY <1>3, <2>1 DEF Mark
  <2>2. ASSUME NEW r \in Rule, NEW del \in BOOLEAN, MarkDirect(c, r, del) PROVE \A d \in Client : Moved(d)
    <3> DEFINE k == [op |-> "direct", rule |-> r, del |-> del]
    <3>1. call' = [call EXCEPT ![c] = k] /\ c \in Client
      BY <2>2, StoreConstants DEF MarkDirect
    <3>2. k.op \in {"idle", "direct", "merge", "listed", "max", "maxed"}
      OBVIOUS
    <3>q. QED BY ONLY <1>1, <3>1, <3>2
  <2>q. QED BY <1>4, <2>1, <2>2 DEF Edits
<1>5. ASSUME NEW c \in Client, call' = [call EXCEPT ![c] = Idle] PROVE \A d \in Client : Moved(d)
  <2>1. Idle.op \in {"idle", "direct", "merge", "listed", "max", "maxed"}
    BY DEF Idle
  <2>q. QED BY <1>1, <1>5, <2>1
<1>6. ASSUME NEW c \in Client, FlushNow(c) PROVE \A d \in Client : Moved(d)
  <2>1. Moved(c)
    BY <1>6 DEF Moved
  <2>2. PICK k : call' = [call EXCEPT ![c] = k]
    BY <1>6 DEF FlushNow
  <2>q. QED BY <1>2, <2>1, <2>2
<1>7. ASSUME NEW c \in Client, Barrier(c) PROVE \A d \in Client : Moved(d)
  <2>1. Moved(c)
    BY <1>7 DEF Moved, Barrier
  <2>2. PICK k : call' = [call EXCEPT ![c] = k]
    BY <1>7 DEF Barrier, PassStep, WaitEnds, CheckPending
  <2>q. QED BY <1>2, <2>1, <2>2
<1>8. ASSUME NEW c \in Client, NEW r \in Rule, LoadOverlay(c, r) PROVE \A d \in Client : Moved(d)
  <2>1. Moved(c)
    BY <1>8 DEF Moved
  <2>2. PICK k : call' = [call EXCEPT ![c] = k]
    BY <1>8 DEF LoadOverlay
  <2>q. QED BY <1>2, <2>1, <2>2
<1>9. ASSUME NEW c \in Client, LoadNvs(c) PROVE \A d \in Client : Moved(d)
  <2>1. Moved(c)
    BY <1>9 DEF Moved
  <2>2. PICK k : call' = [call EXCEPT ![c] = k]
    BY <1>9 DEF LoadNvs
  <2>q. QED BY <1>2, <2>1, <2>2
<1>10. ASSUME NEW c \in Client, ListRows(c) PROVE \A d \in Client : Moved(d)
  <2>1. PICK out, floor : call' = [call EXCEPT ![c] = [op |-> "merge", out |-> out, floor |-> floor]]
    BY <1>10 DEF ListRows
  <2>q. QED BY <1>1, <2>1
<1>11. ASSUME NEW c \in Client, ListMerge(c) PROVE \A d \in Client : Moved(d)
  <2> DEFINE out == FoldLeft(Merge, call[c].out, dirty)
  <2>1. call' = [call EXCEPT ![c] = [call[c] EXCEPT !.op = "listed", !.out = out]]
    BY <1>11 DEF ListMerge, CallInv
  <2> HIDE DEF out
  <2>2. "op" \in DOMAIN call[c]
    BY DEF CallInv, CallOK
  <2>3. [call[c] EXCEPT !.op = "listed", !.out = out].op = "listed"
    BY <2>2
  <2>q. QED BY <1>1, <2>1, <2>3
<1>12. ASSUME NEW c \in Client, MaxIdRows(c) PROVE \A d \in Client : Moved(d)
  <2>1. PICK got, floor : call' = [call EXCEPT ![c] = [op |-> "max", got |-> got, floor |-> floor]]
    BY <1>12 DEF MaxIdRows
  <2>q. QED BY <1>1, <2>1
<1>13. ASSUME NEW c \in Client, MaxIdTable(c) PROVE \A d \in Client : Moved(d)
  <2>1. PICK got : call' = [call EXCEPT ![c] = [call[c] EXCEPT !.op = "maxed", !.got = got]]
    BY <1>13 DEF MaxIdTable, CallInv
  <2>2. "op" \in DOMAIN call[c]
    BY DEF CallInv, CallOK
  <2>3. [call[c] EXCEPT !.op = "maxed", !.got = got].op = "maxed"
    BY <2>2
  <2>q. QED BY <1>1, <2>1, <2>3
<1>14. ASSUME Restart PROVE \A d \in Client : Moved(d)
  BY <1>14 DEF Restart, Moved, Idle
<1>15. ASSUME NEW f \in Flusher, Flushing(f) PROVE \A d \in Client : Moved(d)
  BY <1>3, <1>15 DEF Flushing, Write, Settle
<1>16. ASSUME NEW i \in Slot, TickClaim(i) PROVE \A d \in Client : Moved(d)
  BY <1>3, <1>16 DEF TickClaim
<1>17. CASE UNCHANGED vars
  BY <1>3, <1>17 DEF vars
<1>18. ASSUME NEW c \in Client, Return(c) \/ DirectWrite(c) PROVE \A d \in Client : Moved(d)
  BY <1>5, <1>18 DEF Return, DirectWrite
<1>q. QED
  BY <1>4, <1>6, <1>7, <1>8, <1>9, <1>10, <1>11, <1>12, <1>13, <1>14, <1>15, <1>16, <1>17, <1>18,
     StoreConstants DEF Next, Reads, Flusher

-----------------------------------------------------------------------------
\* rule_store_load between its two locks: the rule was not pending when it looked, so
\* what it saw is on flash, and nothing older is on its way there.
LoadRec == [op : {"load", "loaded"}, rule : Rule, got : Version, floor : Version]
LoadOK(d) ==
    call[d].op \in {"load", "loaded"} =>
       /\ call[d] \in LoadRec
       /\ call[d].op = "load" =>
             /\ Above(call[d].rule, call[d].floor)
             /\ JobsAbove(call[d].rule, call[d].floor)
             /\ OnFlash(call[d].rule, call[d].floor)
       /\ call[d].op = "loaded" => call[d].floor <= call[d].got
LoadInv == \A d \in Client : LoadOK(d)

LEMMA NextLoad == IInv /\ FlushInv /\ SeenOK /\ LoadInv /\ [Next]_vars => LoadInv'
<1> SUFFICES ASSUME IInv, FlushInv, SeenOK, LoadInv, [Next]_vars, NEW d \in Client PROVE LoadOK(d)'
  BY DEF LoadInv
<1>t. /\ nvs \in [Rule -> Version] /\ Version \subseteq Nat
      /\ \A i \in Slot : Open(i) => dirty[i].rule \in Rule /\ dirty[i].edit \in Version
      /\ edits \in Nat
  <2>1. \A i \in Slot : Open(i) => dirty[i].rule \in Rule /\ dirty[i].edit \in Version
    BY OpenType DEF IInv, Edit, Version
  <2>q. QED BY <2>1 DEF IInv, StoreTypeOK, RuleFn, Version
<1>v. \A r \in Rule : Visible(r) \in Version
  BY <1>t DEF SeenOK
<1>c. call = [c \in Client |-> call[c]]
  BY DEF IInv, CallInv
<1>1. CASE call'[d].op \notin {"load", "loaded"}
  BY <1>1 DEF LoadOK
<1>2. CASE call'[d] = call[d]
  <2>1. CASE Restart
    BY <1>1, <2>1 DEF Restart, Idle
  <2>2. CASE ~Restart
    <3> SUFFICES ASSUME call[d].op \in {"load", "loaded"} PROVE LoadOK(d)'
      BY <1>1, <1>2
    <3>1. PICK k : k = call[d]
      OBVIOUS
    <3>2. k \in LoadRec /\ LoadOK(d)
      BY <3>1 DEF LoadInv, LoadOK
    <3>3. CASE k.op = "loaded"
      BY <1>2, <3>1, <3>2, <3>3 DEF LoadOK
    <3>4. CASE k.op = "load"
      <4>1. k.rule \in Rule /\ k.floor \in Nat
        BY <1>t, <3>2 DEF LoadRec
      <4>2. Above(k.rule, k.floor) /\ JobsAbove(k.rule, k.floor) /\ OnFlash(k.rule, k.floor)
        BY <3>1, <3>2, <3>4 DEF LoadOK
      <4>3. Above(k.rule, k.floor)' /\ JobsAbove(k.rule, k.floor)' /\ OnFlash(k.rule, k.floor)'
        BY <2>2, <4>1, <4>2, StepHolds DEF Holds
      <4>4. call'[d] = k
        BY <1>2, <3>1
      <4>5. k.op # "loaded"
        BY <3>4
      <4>q. QED BY <3>2, <4>3, <4>4, <4>5 DEF LoadOK
    <3>q. QED BY <3>2, <3>3, <3>4 DEF LoadRec
  <2>q. QED BY <2>1, <2>2
<1>3. ASSUME NEW r \in Rule, LoadOverlay(d, r) PROVE LoadOK(d)'
  <2> DEFINE k == [op |-> IF Found(r) THEN "loaded" ELSE "load",
                  rule |-> r, got |-> Visible(r), floor |-> Visible(r)]
  <2>1. call'[d] = k
    BY <1>3, <1>c DEF LoadOverlay
  <2>2. k \in LoadRec /\ k.rule = r /\ k.floor = Visible(r) /\ k.got = Visible(r)
    BY <1>v DEF LoadRec
  <2>3. ASSUME ~Found(r) PROVE Above(r, Visible(r)) /\ JobsAbove(r, Visible(r)) /\ OnFlash(r, Visible(r))
    <3>1. \A i \in Slot : Open(i) => dirty[i].rule # r
      BY <2>3 DEF Found, SlotsOf, Open
    <3>2. Visible(r) = nvs[r]
      BY <3>1 DEF SeenOK
    <3>3. \A f \in Flusher : Busy(f) => job[f].rule # r
      BY <3>1, StoreRanges
    <3>4. nvs[r] \in Nat /\ nvs[r] <= edits
      BY <1>t DEF FlushInv
    <3>q. QED BY <3>1, <3>2, <3>3, <3>4 DEF Above, JobsAbove, OnFlash
  <2>4. UNCHANGED store
    BY <1>3 DEF LoadOverlay, store
  <2>5. PICK v : v = Visible(r)
    OBVIOUS
  <2>6. k.op = "load" => Above(r, v)' /\ JobsAbove(r, v)' /\ OnFlash(r, v)'
    <3>1. k.op = "load" => Above(r, v) /\ JobsAbove(r, v) /\ OnFlash(r, v)
      BY <2>3, <2>5
    <3>q. QED BY <2>4, <3>1 DEF store, Above, JobsAbove, OnFlash, Open, Busy
  <2>7. /\ call'[d].rule = r /\ call'[d].floor = v /\ call'[d].got = v /\ call'[d] \in LoadRec
        /\ call'[d].op = "load" => k.op = "load"
    BY <2>1, <2>2, <2>5
  <2>8. v \in Nat
    BY <1>t, <1>v, <2>5
  <2> HIDE DEF k
  <2>q. QED BY <2>6, <2>7, <2>8 DEF LoadOK
<1>4. ASSUME LoadNvs(d) PROVE LoadOK(d)'
  <2>1. call[d] \in LoadRec /\ OnFlash(call[d].rule, call[d].floor)
    BY <1>4 DEF LoadNvs, LoadInv, LoadOK
  <2>2. call'[d] = [call[d] EXCEPT !.op = "loaded", !.got = nvs[call[d].rule]]
    BY <1>4, <1>c DEF LoadNvs
  <2>3. call'[d] \in LoadRec /\ call'[d].op = "loaded" /\ call'[d].floor <= call'[d].got
    BY <1>t, <2>1, <2>2 DEF LoadRec, OnFlash
  <2>q. QED BY <2>3 DEF LoadOK
<1>5. ASSUME FlushNow(d) \/ PassStep(d) \/ WaitEnds(d) \/ CheckPending(d)
      PROVE call'[d].op \notin {"load", "loaded"}
  <2>1. "op" \in DOMAIN call[d]
    BY DEF IInv, CallInv, CallOK
  <2>2. CASE FlushNow(d)
    <3> DEFINE k == [op |-> "pass", pass |-> 1, at |-> 1, expired |-> FALSE,
                    bar |-> [r \in Rule |-> IF SlotsOf(r) = {} THEN 0 ELSE Visible(r)]]
    <3>1. call'[d] = k
      BY <1>c, <2>2 DEF FlushNow
    <3>2. k.op = "pass"
      OBVIOUS
    <3>q. QED BY ONLY <3>1, <3>2
  <2>3. CASE PassStep(d)
    <3>1. call'[d] = [call[d] EXCEPT !.at = call[d].at + 1] /\ call[d].op = "pass"
      BY <1>c, <2>3 DEF PassStep
    <3>2. call'[d].op = "pass"
      BY <2>1, <3>1
    <3>q. QED BY <3>2
  <2>4. CASE WaitEnds(d)
    <3>1. call'[d] = [call[d] EXCEPT !.op = "check", !.expired = call[d].expired \/ InFlight]
      BY <1>c, <2>4 DEF WaitEnds
    <3>2. call'[d].op = "check"
      BY <2>1, <3>1
    <3>q. QED BY <3>2
  <2>5. CASE CheckPending(d)
    <3>1. \/ call'[d] = [call[d] EXCEPT !.op = "pass", !.pass = 2, !.at = 1]
          \/ call'[d] = [call[d] EXCEPT !.op = "flushed"]
      BY <1>c, <2>5 DEF CheckPending
    <3>2. call'[d].op \in {"pass", "flushed"}
      BY <2>1, <3>1
    <3>q. QED BY <3>2
  <2>q. QED BY <1>5, <2>2, <2>3, <2>4, <2>5
<1>6. Moved(d)
  BY CallMoves DEF IInv
<1>q. QED BY <1>1, <1>2, <1>3, <1>4, <1>5, <1>6 DEF Moved

-----------------------------------------------------------------------------
\* rule_store_flush_now: in the first pass what was pending at the call is in the table
\* or on flash; once a wait has found nothing in flight, every write in flight holds
\* an edit as new as that, so a visited slot is on flash or being written.
BarrierRec == [op : {"pass", "check", "flushed"}, pass : 1..2, at : Nat, expired : BOOLEAN,
               bar : [Rule -> Version]]
Later(k) == k.op \in {"check", "flushed"} \/ (k.op = "pass" /\ k.pass = 2)
Done(k) == k.op = "flushed" \/ (k.op = "check" /\ k.pass = 2)
BarrierAt(k, r) ==
    /\ Above(r, k.bar[r])
    /\ failed[r] = 0 => Kept(r, k.bar[r])
    /\ ~k.expired /\ Later(k) =>
          /\ JobsAbove(r, k.bar[r])
          /\ failed[r] = 0 /\ k.op = "pass" => Covered(r, k.bar[r], k.at)
          /\ failed[r] = 0 /\ Done(k) => OnFlash(r, k.bar[r])
BarrierOK(d) ==
    call[d].op \in {"pass", "check", "flushed"} =>
       call[d] \in BarrierRec /\ \A r \in Rule : BarrierAt(call[d], r)
BarrierInv == \A d \in Client : BarrierOK(d)

\* Whatever the others do, a barrier stands.
LEMMA BarrierStands ==
    ASSUME IInv, FlushInv, [Next]_vars, ~Restart, NEW k \in BarrierRec, NEW r \in Rule, BarrierAt(k, r)
    PROVE BarrierAt(k, r)'
<1> DEFINE v == k.bar[r]
<1>1. v \in Nat /\ k.at \in Nat
  BY DEF BarrierRec, Version
<1>2. Holds(r, v)
  BY <1>1, StepHolds
<1>3. Above(r, v) /\ Above(r, v)'
  BY <1>2 DEF BarrierAt, Holds
<1>4. (failed[r] = 0)' => failed[r] = 0 /\ Kept(r, v)'
  BY <1>2 DEF BarrierAt, Holds
<1>5. ASSUME ~k.expired, Later(k)
      PROVE /\ JobsAbove(r, v)'
            /\ failed'[r] = 0 /\ k.op = "pass" => Covered(r, v, k.at)'
            /\ failed'[r] = 0 /\ Done(k) => OnFlash(r, v)'
  <2>1. /\ JobsAbove(r, v)
        /\ failed[r] = 0 /\ k.op = "pass" => Covered(r, v, k.at)
        /\ failed[r] = 0 /\ Done(k) => OnFlash(r, v)
    BY <1>5 DEF BarrierAt
  <2>q. QED BY <1>1, <1>2, <1>3, <2>1 DEF Holds
<1>q. QED BY <1>3, <1>4, <1>5 DEF BarrierAt, Later, Done

LEMMA NextBarrier == IInv /\ FlushInv /\ SeenOK /\ BarrierInv /\ [Next]_vars => BarrierInv'
<1> SUFFICES ASSUME IInv, FlushInv, SeenOK, BarrierInv, [Next]_vars, NEW d \in Client
             PROVE BarrierOK(d)'
  BY DEF BarrierInv
<1>t. /\ edits \in Nat /\ nvs \in [Rule -> Nat] /\ Version \subseteq Nat
      /\ \A i \in Slot : Open(i) => dirty[i].rule \in Rule /\ dirty[i].edit \in Version
  <2>1. \A i \in Slot : Open(i) => dirty[i].rule \in Rule /\ dirty[i].edit \in Version
    BY OpenType DEF IInv, Edit, Version
  <2>q. QED BY <2>1, StoreRanges DEF Version
<1>c. call = [c \in Client |-> call[c]]
  BY DEF IInv, CallInv
<1>1. CASE call'[d].op \notin {"pass", "check", "flushed"}
  BY <1>1 DEF BarrierOK
<1>2. CASE Restart
  BY <1>2 DEF Restart, Idle, BarrierOK
<1>3. ASSUME ~Restart, call[d].op \in {"pass", "check", "flushed"}
      PROVE \E k \in BarrierRec : k = call[d] /\ \A r \in Rule : BarrierAt(k, r) /\ BarrierAt(k, r)'
  <2>1. PICK k : k = call[d]
    OBVIOUS
  <2>2. k \in BarrierRec /\ \A r \in Rule : BarrierAt(k, r)
    BY <1>3, <2>1 DEF BarrierInv, BarrierOK
  <2>3. \A r \in Rule : BarrierAt(k, r)'
    BY <1>3, <2>2, BarrierStands
  <2>q. QED BY <2>1, <2>2, <2>3
<1>4. CASE call'[d] = call[d]
  <2> SUFFICES ASSUME ~Restart, call[d].op \in {"pass", "check", "flushed"} PROVE BarrierOK(d)'
    BY <1>1, <1>2, <1>4
  <2>1. PICK k \in BarrierRec : k = call[d] /\ \A r \in Rule : BarrierAt(k, r) /\ BarrierAt(k, r)'
    BY <1>3
  <2>2. call'[d] = k
    BY <1>4, <2>1
  <2>q. QED BY <2>1, <2>2 DEF BarrierOK
<1>5. ASSUME FlushNow(d) PROVE BarrierOK(d)'
  <2> DEFINE bar == [r \in Rule |-> IF SlotsOf(r) = {} THEN 0 ELSE Visible(r)]
  <2>1. call'[d] = [op |-> "pass", pass |-> 1, at |-> 1, expired |-> FALSE, bar |-> bar]
    BY <1>5, <1>c DEF FlushNow
  <2>2. UNCHANGED store
    BY <1>5 DEF FlushNow, store
  <2>3. \A r \in Rule : bar[r] \in Version /\ Above(r, bar[r]) /\ Kept(r, bar[r])
    <3> SUFFICES ASSUME NEW r \in Rule PROVE bar[r] \in Version /\ Above(r, bar[r]) /\ Kept(r, bar[r])
      OBVIOUS
    <3>1. CASE SlotsOf(r) = {}
      <4>1. bar[r] = 0 /\ 0 \in Version
        BY <3>1, StoreConstants DEF Version
      <4>2. \A i \in Slot : Open(i) => dirty[i].rule # r
        BY <3>1 DEF SlotsOf, Open
      <4>3. 0 <= edits /\ 0 <= nvs[r]
        BY <1>t
      <4> HIDE DEF bar
      <4>q. QED BY <4>1, <4>2, <4>3 DEF Above, Kept, OnFlash
    <3>2. CASE SlotsOf(r) # {}
      <4>1. PICK i \in Slot : Open(i) /\ dirty[i].rule = r
        BY <3>2 DEF SlotsOf, Open
      <4>2. bar[r] = dirty[i].edit
        BY <3>2, <4>1 DEF SeenOK
      <4>3. dirty[i].edit \in Version /\ dirty[i].edit <= edits
        BY <1>t, <4>1 DEF FlushInv
      <4>4. \A j \in Slot : Open(j) /\ dirty[j].rule = r => j = i
        BY <4>1 DEF IInv, TableInv
      <4>5. dirty[i].edit <= dirty[i].edit
        <5>1. dirty[i].edit \in Nat
          BY <1>t, <4>3
        <5>q. QED BY <5>1
      <4> HIDE DEF bar
      <4>q. QED BY <4>1, <4>2, <4>3, <4>4, <4>5 DEF Above, Kept
    <3>q. QED BY <3>1, <3>2
  <2> HIDE DEF bar
  <2>4. PICK b : b = bar
    OBVIOUS
  <2>5. \A r \in Rule : Above(r, b[r])' /\ Kept(r, b[r])'
    <3>1. \A r \in Rule : Above(r, b[r]) /\ Kept(r, b[r])
      BY <2>3, <2>4
    <3>q. QED BY <2>2, <3>1 DEF store, Above, Kept, OnFlash, Open
  <2>6. /\ call'[d] \in BarrierRec /\ call'[d].bar = b
        /\ call'[d].op = "pass" /\ call'[d].pass = 1
    <3>1. bar \in [Rule -> Version]
      <4>1. bar = [r \in Rule |-> bar[r]]
        BY DEF bar
      <4>q. QED BY <2>3, <4>1
    <3>q. QED BY <2>1, <2>4, <3>1 DEF BarrierRec
  <2>7. ~Later(call[d])'
    BY <2>6 DEF Later
  <2>q. QED BY <2>5, <2>6, <2>7 DEF BarrierOK, BarrierAt
<1>6. ASSUME PassStep(d) PROVE BarrierOK(d)'
  <2>1. /\ call[d].op = "pass" /\ call[d].at \in Slot /\ ~Restart
        /\ call'[d] = [call[d] EXCEPT !.at = call[d].at + 1]
        /\ Claim(d, call[d].at) \/ (~Claimable(call[d].at) /\ UNCHANGED dirty)
    <3>1. ~Restart
      BY <1>6 DEF PassStep, Restart, IInv, StoreTypeOK
    <3>q. QED BY <1>6, <1>c, <3>1 DEF PassStep
  <2>2. PICK k \in BarrierRec : k = call[d] /\ \A r \in Rule : BarrierAt(k, r) /\ BarrierAt(k, r)'
    BY <1>3, <2>1
  <2> DEFINE l == [k EXCEPT !.at = k.at + 1]
  <2>3. /\ l \in BarrierRec /\ l.op = k.op /\ l.pass = k.pass /\ l.expired = k.expired
        /\ l.bar = k.bar /\ l.at = k.at + 1 /\ k.op = "pass" /\ k.at \in Slot /\ call'[d] = l
    BY <2>1, <2>2 DEF BarrierRec
  <2>4. Open(k.at) => Open(k.at)' /\ dirty'[k.at].rule = dirty[k.at].rule /\ dirty'[k.at].flushing
    <3>1. CASE Claim(d, k.at)
      <4>1. d \in Flusher BY DEF Flusher
      <4>q. QED BY <2>3, <3>1, <4>1, ClaimEffect DEF Open
    <3>2. CASE ~Claimable(k.at) /\ UNCHANGED dirty
      BY <3>2 DEF Claimable, Open
    <3>q. QED BY <2>1, <2>2, <3>1, <3>2
  <2>5. ASSUME NEW r \in Rule, Covered(r, k.bar[r], k.at)' PROVE Covered(r, k.bar[r], k.at + 1)'
    <3>1. CASE OnFlash(r, k.bar[r])'
      BY <3>1 DEF Covered
    <3>2. ASSUME NEW i \in Slot, Open(i)', dirty'[i].rule = r, i < k.at => dirty'[i].flushing
          PROVE Covered(r, k.bar[r], k.at + 1)'
      <4>1. i = k.at => dirty'[i].flushing
        <5>1. Open(i)' => Open(i) \/ i # k.at
          <6>1. CASE Claim(d, k.at)
            <7>1. d \in Flusher BY DEF Flusher
            <7>q. QED BY <2>3, <6>1, <7>1, ClaimEffect DEF Open
          <6>2. CASE UNCHANGED dirty
            BY <6>2 DEF Open
          <6>q. QED BY <2>1, <2>2, <6>1, <6>2
        <5>q. QED BY <2>4, <3>2, <5>1
      <4>2. i < k.at + 1 => dirty'[i].flushing
        <5>1. i \in Nat /\ k.at \in Nat
          BY <2>3 DEF Slot
        <5>2. i < k.at + 1 => i < k.at \/ i = k.at
          BY <5>1
        <5>q. QED BY <3>2, <4>1, <5>2
      <4>q. QED BY <3>2, <4>2 DEF Covered
    <3>q. QED BY <2>5, <3>1, <3>2 DEF Covered
  <2>6. ASSUME NEW r \in Rule PROVE BarrierAt(l, r)'
    <3> HIDE DEF l
    <3>1. BarrierAt(k, r)'
      BY <2>2
    <3>2. (Later(l) <=> Later(k)) /\ ~Done(l)
      BY <2>3 DEF Later, Done
    <3>q. QED BY <2>3, <2>5, <3>1, <3>2 DEF BarrierAt
  <2> HIDE DEF l
  <2>q. QED BY <2>3, <2>6 DEF BarrierOK
<1>7. ASSUME WaitEnds(d) \/ CheckPending(d) PROVE UNCHANGED store /\ ~Restart
  BY <1>7 DEF WaitEnds, CheckPending, store, Restart, IInv, StoreTypeOK
<1>8. ASSUME WaitEnds(d) PROVE BarrierOK(d)'
  <2>1. /\ call[d].op = "pass" /\ call[d].at = DirtyCap + 1
        /\ call'[d] = [call[d] EXCEPT !.op = "check", !.expired = call[d].expired \/ InFlight]
    BY <1>8, <1>c DEF WaitEnds
  <2>2. PICK k \in BarrierRec : k = call[d] /\ \A r \in Rule : BarrierAt(k, r) /\ BarrierAt(k, r)'
    BY <1>3, <1>7, <1>8, <2>1
  <2>3. PICK x \in BOOLEAN : x = InFlight
    BY DEF InFlight
  <2> DEFINE l == [k EXCEPT !.op = "check", !.expired = k.expired \/ x]
  <2>4. /\ l \in BarrierRec /\ l.op = "check" /\ l.pass = k.pass /\ l.bar = k.bar
        /\ l.expired = (k.expired \/ x) /\ k.op = "pass" /\ k.at = DirtyCap + 1 /\ call'[d] = l
    BY <2>1, <2>2, <2>3 DEF BarrierRec
  <2> HIDE DEF l
  <2>5. ASSUME NEW r \in Rule, ~l.expired
        PROVE /\ JobsAbove(r, k.bar[r])
              /\ failed[r] = 0 /\ k.pass = 2 => OnFlash(r, k.bar[r])
    <3>1. ~k.expired /\ ~InFlight
      BY <2>3, <2>4, <2>5
    <3>2. \A i \in Slot : ~dirty[i].flushing
      BY <3>1 DEF InFlight
    <3>3. \A f \in Flusher : ~Busy(f)
      BY <3>2, StoreRanges DEF IInv, TableInv
    <3>4. ASSUME failed[r] = 0, k.pass = 2 PROVE OnFlash(r, k.bar[r])
      <4>1. Covered(r, k.bar[r], DirtyCap + 1)
        BY <2>2, <2>4, <3>1, <3>4 DEF BarrierAt, Later
      <4>2. \A i \in Slot : i < DirtyCap + 1
        BY StoreConstants DEF Slot
      <4>q. QED BY <3>2, <4>1, <4>2 DEF Covered
    <3>q. QED BY <3>3, <3>4 DEF JobsAbove
  <2>6. ASSUME NEW r \in Rule PROVE BarrierAt(l, r)'
    <3>1. BarrierAt(k, r)'
      BY <2>2
    <3>2. ~l.expired => JobsAbove(r, k.bar[r])' /\ (failed'[r] = 0 /\ k.pass = 2 => OnFlash(r, k.bar[r])')
      BY <1>7, <1>8, <2>5 DEF store, JobsAbove, OnFlash, Busy
    <3>q. QED BY <2>4, <3>1, <3>2 DEF BarrierAt, Later, Done
  <2>q. QED BY <2>4, <2>6 DEF BarrierOK
<1>9. ASSUME CheckPending(d) PROVE BarrierOK(d)'
  <2>1. /\ call[d].op = "check"
        /\ call'[d] = IF AnyPending /\ call[d].pass = 1
                      THEN [call[d] EXCEPT !.op = "pass", !.pass = 2, !.at = 1]
                      ELSE [call[d] EXCEPT !.op = "flushed"]
    BY <1>9, <1>c DEF CheckPending
  <2>2. PICK k \in BarrierRec : k = call[d] /\ \A r \in Rule : BarrierAt(k, r) /\ BarrierAt(k, r)'
    BY <1>3, <1>7, <1>9, <2>1
  <2>3. CASE AnyPending /\ k.pass = 1
    <3> DEFINE l == [k EXCEPT !.op = "pass", !.pass = 2, !.at = 1]
    <3>1. /\ l \in BarrierRec /\ l.op = "pass" /\ l.pass = 2 /\ l.at = 1 /\ l.bar = k.bar
          /\ l.expired = k.expired /\ k.op = "check" /\ call'[d] = l
      <4>1. k.op = "check" /\ call'[d] = l
        BY <2>1, <2>2, <2>3
      <4> DEFINE l1 == [k EXCEPT !.op = "pass"]
                 l2 == [l1 EXCEPT !.pass = 2]
      <4>2. /\ l1 \in BarrierRec
            /\ l1.op = "pass" /\ l1.at = k.at /\ l1.bar = k.bar /\ l1.expired = k.expired
        BY DEF BarrierRec
      <4>3. l = [l2 EXCEPT !.at = 1]
        OBVIOUS
      <4> HIDE DEF l, l1
      <4>4. /\ l2 \in BarrierRec
            /\ l2.op = "pass" /\ l2.pass = 2 /\ l2.bar = k.bar /\ l2.expired = k.expired
        BY <4>2 DEF BarrierRec
      <4> HIDE DEF l2
      <4>5. /\ l \in BarrierRec
            /\ l.op = "pass" /\ l.pass = 2 /\ l.at = 1 /\ l.bar = k.bar /\ l.expired = k.expired
        BY <4>3, <4>4 DEF BarrierRec
      <4>q. QED BY <4>1, <4>5
    <3> HIDE DEF l
    <3>2. \A r \in Rule : Kept(r, k.bar[r])' => Covered(r, k.bar[r], 1)'
      <4>1. \A i \in Slot : ~(i < 1)
        BY DEF Slot
      <4>q. QED BY <4>1 DEF Kept, Covered
    <3>3. \A r \in Rule : BarrierAt(l, r)'
      BY <2>2, <3>1, <3>2 DEF BarrierAt, Later, Done
    <3>q. QED BY <3>1, <3>3 DEF BarrierOK
  <2>4. CASE ~(AnyPending /\ k.pass = 1)
    <3> DEFINE l == [k EXCEPT !.op = "flushed"]
    <3>1. /\ l \in BarrierRec /\ l.op = "flushed" /\ l.pass = k.pass /\ l.bar = k.bar
          /\ l.expired = k.expired /\ k.op = "check" /\ call'[d] = l /\ k.pass \in 1..2
      BY <2>1, <2>2, <2>4 DEF BarrierRec
    <3> HIDE DEF l
    <3>2. ASSUME NEW r \in Rule, ~k.expired, failed'[r] = 0 PROVE OnFlash(r, k.bar[r])'
      <4>1. CASE k.pass = 2
        BY <2>2, <3>1, <3>2, <4>1 DEF BarrierAt, Later, Done
      <4>2. CASE ~AnyPending
        <5>1. Kept(r, k.bar[r])
          <6>1. failed[r] = 0
            BY <1>7, <1>9, <3>2 DEF store
          <6>q. QED BY <2>2, <6>1 DEF BarrierAt
        <5>2. OnFlash(r, k.bar[r])
          BY <4>2, <5>1 DEF Kept, AnyPending, IsFree, Open
        <5>q. QED BY <1>7, <1>9, <5>2 DEF store, OnFlash
      <4>3. k.pass = 1 \/ k.pass = 2
        BY <3>1
      <4>q. QED BY <2>4, <4>1, <4>2, <4>3
    <3>3. \A r \in Rule : BarrierAt(l, r)'
      BY <2>2, <3>1, <3>2 DEF BarrierAt, Later, Done
    <3>q. QED BY <3>1, <3>3 DEF BarrierOK
  <2>q. QED BY <2>3, <2>4
<1>10. ASSUME (\E r \in Rule : LoadOverlay(d, r)) \/ LoadNvs(d)
       PROVE call'[d].op \notin {"pass", "check", "flushed"}
  <2>1. "op" \in DOMAIN call[d]
    BY DEF IInv, CallInv, CallOK
  <2>2. ASSUME NEW r \in Rule, LoadOverlay(d, r) PROVE call'[d].op \in {"load", "loaded"}
    <3> DEFINE k == [op |-> IF Found(r) THEN "loaded" ELSE "load",
                    rule |-> r, got |-> Visible(r), floor |-> Visible(r)]
    <3>1. call'[d] = k
      BY <1>c, <2>2 DEF LoadOverlay
    <3>2. k.op \in {"load", "loaded"}
      OBVIOUS
    <3>q. QED BY ONLY <3>1, <3>2
  <2>3. ASSUME LoadNvs(d) PROVE call'[d].op = "loaded"
    BY <1>c, <2>1, <2>3 DEF LoadNvs
  <2>q. QED BY <1>10, <2>2, <2>3
<1>11. Moved(d)
  BY CallMoves DEF IInv
<1>q. QED BY <1>1, <1>4, <1>5, <1>6, <1>8, <1>9, <1>10, <1>11 DEF Moved

\* The invariant of all calls under way, over that of the store.
LEMMA ReturnsInvariant == Spec => [](IInv /\ FlushInv /\ SeenOK /\ LoadInv /\ BarrierInv)
<1> DEFINE All == IInv /\ FlushInv /\ SeenOK /\ LoadInv /\ BarrierInv
<1>1. Init => IInv /\ FlushInv /\ SeenOK
  BY InitType, InitCall, InitTable, InitFlush, SeenLemma DEF IInv
<1>2. Init => LoadInv /\ BarrierInv
  BY DEF Init, LoadInv, LoadOK, BarrierInv, BarrierOK, Idle
<1>3. IInv /\ FlushInv /\ [Next]_vars => IInv' /\ FlushInv'
  BY NextType, NextCall, NextTable, NextFlush DEF IInv
<1>4. (IInv => SeenOK)'
  <2>1. IInv => SeenOK
    BY SeenLemma DEF IInv
  <2>q. QED BY <2>1, PTL
<1>5. All /\ [Next]_vars => All'
  BY <1>3, <1>4, NextLoad, NextBarrier
<1>q. QED BY <1>1, <1>2, <1>5, PTL DEF Spec

\* Read-after-write, for every table, rules and tasks: rule_store_load never returns
\* anything older than what was visible when it was called, although it reads the
\* table and NVS under different locks and the flusher moves edits from one to the other.
THEOREM LoadsAreFresh == Spec => []LoadFresh
<1>1. IInv /\ LoadInv => LoadFresh
  <2> SUFFICES ASSUME LoadInv, NEW c \in Client, call[c].op = "loaded" PROVE call[c].got >= call[c].floor
    BY DEF LoadFresh
  <2>1. call[c] \in LoadRec /\ call[c].floor <= call[c].got
    BY DEF LoadInv, LoadOK
  <2>2. call[c].floor \in Nat /\ call[c].got \in Nat
    BY <2>1 DEF LoadRec, Version
  <2>q. QED BY <2>1, <2>2
<1>q. QED BY <1>1, ReturnsInvariant, PTL

\* The shutdown barrier, for every table, rules and tasks: when rule_store_flush_now
\* returns, whatever was pending at its call is on flash or overtaken there, unless a
\* write of that rule failed or its wait for the other flushers ran out.
THEOREM FlushIsBarrier == Spec => []FlushNowDurable
<1>1. ASSUME IInv, BarrierInv PROVE FlushNowDurable
  <2> SUFFICES ASSUME NEW c \in Client, call[c].op = "flushed", ~call[c].expired,
                      NEW r \in Rule, failed[r] = 0
               PROVE nvs[r] >= call[c].bar[r]
    <3>1. failed \in [Rule -> Nat]
      BY <1>1, StoreRanges
    <3>2. \A r \in Rule : failed[r] > 0 \/ failed[r] = 0
      BY <3>1
    <3>q. QED BY <3>2 DEF FlushNowDurable
  <2>1. call[c] \in BarrierRec /\ BarrierAt(call[c], r)
    BY <1>1 DEF BarrierInv, BarrierOK
  <2>2. call[c].bar[r] <= nvs[r]
    BY <2>1 DEF BarrierAt, Later, Done, OnFlash
  <2>3. call[c].bar[r] \in Nat /\ nvs[r] \in Nat
    BY <1>1, <2>1, StoreRanges DEF BarrierRec, Version
  <2>q. QED BY <2>2, <2>3
<1>2. IInv /\ BarrierInv => FlushNowDurable
  BY <1>1
<1>q. QED BY <1>2, ReturnsInvariant, PTL
=============================================================================
