------------------------------ MODULE RuleStore ------------------------------
(***************************************************************************)
(* The rule store (components/rule_store): rules in NVS behind a write-    *)
(* back table of pending saves and deletes.  Any number of tasks edit and  *)
(* read rules and call rule_store_flush_now beside the flush task.         *)
(*                                                                         *)
(* A hold of s_mtx (the table) or of s_mutex (NVS) is one step.  Only      *)
(* rule_store_load_all holds s_mutex over two of them.  An NVS write and   *)
(* its commit may fail with or without having taken effect.                *)
(*                                                                         *)
(* Edits are numbered in the order the store accepts them and the number   *)
(* stands for the rule's content; deletes is the set of those that delete. *)
(* An absent row is tagged with the delete that left it absent, 0 if none. *)
(* Time is not modelled: any pending slot may be due when the flush task   *)
(* looks.  DirtyCap = 0 is the store without its write-back task.          *)
(***************************************************************************)
EXTENDS Naturals, FiniteSets, FiniteSetsExt, SequencesExt

CONSTANTS
    Rule,        \* rule ids
    DirtyCap,    \* DIRTY_CAP, slots of the table
    Client,      \* tasks that call the store
    Editor,      \* those of them that edit
    Reader,      \* those that read
    Shutdown,    \* those that call rule_store_flush_now
    Tick,        \* the flush task
    MaxCount     \* max_count given to rule_store_load_all

CONSTANTS        \* bounds of the state space
    MaxEdits,    \* edits accepted
    MaxFails,    \* NVS writes of one rule that fail
    MaxRestarts

ASSUME StoreConstants ==
    /\ Rule \subseteq Nat \ {0}
    /\ Editor \cup Reader \cup Shutdown \subseteq Client /\ Tick \notin Client
    /\ DirtyCap \in Nat /\ MaxCount \in Nat /\ MaxEdits \in Nat
    /\ MaxFails \in Nat /\ MaxRestarts \in Nat

VARIABLES
    dirty,       \* s_dirty
    nvs,         \* the namespace zap_rules: the edit each row holds
    job,         \* flush_slot in progress in each task, with its snapshot
    call,        \* what each client is in the middle of
    edits, deletes, failed, restarts   \* history: edits accepted, those that
                 \* delete, failed writes of each rule; restarts so far

vars == <<dirty, nvs, job, call, edits, deletes, failed, restarts>>

-----------------------------------------------------------------------------
Slot    == 1..DirtyCap
Edit    == 1..MaxEdits
Version == 0..MaxEdits

Clean   == [state |-> "clean", rule |-> 0, edit |-> 0, flushing |-> FALSE, remarked |-> FALSE]
Pending == [state : {"write", "tombstone"}, rule : Rule, edit : Edit,
            flushing : BOOLEAN, remarked : BOOLEAN]
NoJob   == [phase |-> "none"]
Job     == [phase : {"claimed", "ok", "failed"}, slot : Slot, rule : Rule, edit : Edit]
Idle    == [op |-> "idle"]

Live(v)  == v # 0 /\ v \notin deletes
NvsFree  == \A c \in Client : call[c].op # "merge"           \* s_mutex
SlotsOf(r) == {i \in Slot : dirty[i].state # "clean" /\ dirty[i].rule = r}
Rows     == {r \in Rule : Live(nvs[r])}

\* What a reader is to see of rule r: the pending edit before the row.
Visible(r) == IF SlotsOf(r) = {} THEN nvs[r] ELSE dirty[CHOOSE i \in SlotsOf(r) : TRUE].edit

Init ==
    /\ dirty = [i \in Slot |-> Clean]
    /\ nvs = [r \in Rule |-> 0]
    /\ job = [f \in Client \cup {Tick} |-> NoJob]
    /\ call = [c \in Client |-> Idle]
    /\ edits = 0 /\ deletes = {} /\ failed = [r \in Rule |-> 0] /\ restarts = 0

-----------------------------------------------------------------------------
\* Edits: rule_store_mark_dirty and rule_store_mark_delete.

\* Bound: what is left of MaxEdits after the direct edits under way.
MayEdit == edits + Cardinality({c \in Client : call[c].op = "direct"}) < MaxEdits

IsFree(i) == dirty[i].state = "clean"

\* find_slot_locked, else find_free_locked
SlotFor(i, r) ==
    \/ i \in SlotsOf(r)
    \/ SlotsOf(r) = {} /\ IsFree(i) /\ \A j \in Slot : IsFree(j) => i <= j

TableFull(r) == SlotsOf(r) = {} /\ \A i \in Slot : ~IsFree(i)

\* The next edit is a save or a delete.
Accept(del) ==
    /\ edits < MaxEdits
    /\ edits' = edits + 1
    /\ deletes' = IF del THEN deletes \cup {edits + 1} ELSE deletes

\* The slot takes the edit; a flush of its previous edit is told of it.
EntryForgetsRemark(r, del, old) ==                            \* mutant
    [state |-> IF del THEN "tombstone" ELSE "write", rule |-> r, edit |-> edits + 1,
     flushing |-> old.flushing, remarked |-> FALSE]
Entry(r, del, old) ==
    [state |-> IF del THEN "tombstone" ELSE "write", rule |-> r, edit |-> edits + 1,
     flushing |-> old.flushing, remarked |-> old.flushing]

Mark(c, r, del) ==
    /\ call[c] = Idle
    /\ MayEdit
    /\ Accept(del)
    /\ \E i \in Slot : SlotFor(i, r) /\ dirty' = [dirty EXCEPT ![i] = Entry(r, del, @)]
    /\ UNCHANGED <<nvs, job, call, failed, restarts>>

\* Table full: the lock is released and the edit goes to NVS at once.
MarkDirect(c, r, del) ==
    /\ call[c] = Idle
    /\ MayEdit
    /\ TableFull(r)
    /\ call' = [call EXCEPT ![c] = [op |-> "direct", rule |-> r, del |-> del]]
    /\ UNCHANGED <<dirty, nvs, job, edits, deletes, failed, restarts>>

\* rule_store_save and rule_store_delete_err under s_mutex: succeeds, or fails
\* with or without having changed the row.
NvsWrites(r, e) == NvsFree /\ nvs' = [nvs EXCEPT ![r] = e] /\ UNCHANGED failed
NvsFails(r, e) ==
    /\ NvsFree
    /\ failed[r] < MaxFails
    /\ nvs' \in {nvs, [nvs EXCEPT ![r] = e]}
    /\ failed' = [failed EXCEPT ![r] = @ + 1]

\* A failed direct write is logged and the edit is lost.
DirectWrite(c) ==
    /\ call[c].op = "direct"
    /\ Accept(call[c].del)
    /\ NvsWrites(call[c].rule, edits + 1) \/ NvsFails(call[c].rule, edits + 1)
    /\ call' = [call EXCEPT ![c] = Idle]
    /\ UNCHANGED <<dirty, job, restarts>>

-----------------------------------------------------------------------------
\* flush_slot, in the flush task and in rule_store_flush_now.

ClaimableEvenInFlight(i) == dirty[i].state # "clean"          \* mutant
Claimable(i) == dirty[i].state # "clean" /\ ~dirty[i].flushing

\* The snapshot is taken under the lock; the slot stays visible.
Claim(f, i) ==
    /\ job[f] = NoJob
    /\ Claimable(i)
    /\ job' = [job EXCEPT ![f] = [phase |-> "claimed", slot |-> i,
                                  rule |-> dirty[i].rule, edit |-> dirty[i].edit]]
    /\ dirty' = [dirty EXCEPT ![i].flushing = TRUE, ![i].remarked = FALSE]

\* The NVS operation; a tombstone whose row is absent counts as done.
Write(f) ==
    /\ job[f].phase = "claimed"
    /\ \/ NvsWrites(job[f].rule, job[f].edit) /\ job' = [job EXCEPT ![f].phase = "ok"]
       \/ NvsFails(job[f].rule, job[f].edit) /\ job' = [job EXCEPT ![f].phase = "failed"]
    /\ UNCHANGED <<dirty, call, edits, deletes, restarts>>

\* The owner settles the slot: clean when its write landed and no newer edit did.
SettledLeavesFlushing(entry, phase) ==                        \* mutant
    IF phase = "ok" /\ ~entry.remarked THEN Clean ELSE [entry EXCEPT !.remarked = FALSE]
Settled(entry, phase) ==
    IF phase = "ok" /\ ~entry.remarked THEN Clean
    ELSE [entry EXCEPT !.flushing = FALSE, !.remarked = FALSE]

Settle(f) ==
    /\ job[f].phase \in {"ok", "failed"}
    /\ dirty' = [dirty EXCEPT ![job[f].slot] = Settled(@, job[f].phase)]
    /\ job' = [job EXCEPT ![f] = NoJob]
    /\ UNCHANGED <<nvs, call, edits, deletes, failed, restarts>>

\* flush_task: a slot of its due list is flushed.
TickClaim(i) == Claim(Tick, i) /\ UNCHANGED <<nvs, call, edits, deletes, failed, restarts>>

-----------------------------------------------------------------------------
\* rule_store_flush_now: two passes over the table, each followed by the wait
\* for writes in flight in other tasks and a look for pending slots.
\* bar and expired are history: what was pending at the call, a wait given up.

FlushNow(c) ==
    /\ call[c] = Idle
    /\ call' = [call EXCEPT ![c] =
          [op |-> "pass", pass |-> 1, at |-> 1, expired |-> FALSE,
           bar |-> [r \in Rule |-> IF SlotsOf(r) = {} THEN 0 ELSE Visible(r)]]]
    /\ UNCHANGED <<dirty, nvs, job, edits, deletes, failed, restarts>>

PassStep(c) ==
    /\ call[c].op = "pass" /\ call[c].at \in Slot /\ job[c] = NoJob
    /\ \/ Claim(c, call[c].at)
       \/ ~Claimable(call[c].at) /\ UNCHANGED <<dirty, job>>
    /\ call' = [call EXCEPT ![c].at = @ + 1]
    /\ UNCHANGED <<nvs, edits, deletes, failed, restarts>>

InFlight == \E i \in Slot : dirty[i].flushing

\* wait_no_flushing: nothing in flight, or the bound of the wait is reached.
WaitEnds(c) ==
    /\ call[c].op = "pass" /\ call[c].at = DirtyCap + 1 /\ job[c] = NoJob
    /\ call' = [call EXCEPT ![c].op = "check", ![c].expired = @ \/ InFlight]
    /\ UNCHANGED <<dirty, nvs, job, edits, deletes, failed, restarts>>

AnyPending == \E i \in Slot : ~IsFree(i)

CheckPending(c) ==
    /\ call[c].op = "check"
    /\ call' = [call EXCEPT ![c] =
          IF AnyPending /\ @.pass = 1
          THEN [@ EXCEPT !.op = "pass", !.pass = 2, !.at = 1]
          ELSE [@ EXCEPT !.op = "flushed"]]
    /\ UNCHANGED <<dirty, nvs, job, edits, deletes, failed, restarts>>

-----------------------------------------------------------------------------
\* rule_store_load: the table first, then NVS.  floor is history: what was
\* visible when the call began.

FoundWriteOnly(r) == \E i \in SlotsOf(r) : dirty[i].state = "write"      \* mutant
Found(r) == SlotsOf(r) # {}                    \* a save or a tombstone

LoadOverlay(c, r) ==
    /\ call[c] = Idle
    /\ call' = [call EXCEPT ![c] =
          [op |-> IF Found(r) THEN "loaded" ELSE "load",
           rule |-> r, got |-> Visible(r), floor |-> Visible(r)]]
    /\ UNCHANGED <<dirty, nvs, job, edits, deletes, failed, restarts>>

LoadNvs(c) ==
    /\ call[c].op = "load"
    /\ NvsFree
    /\ call' = [call EXCEPT ![c].op = "loaded", ![c].got = nvs[call[c].rule]]
    /\ UNCHANGED <<dirty, nvs, job, edits, deletes, failed, restarts>>

\* rule_store_load_all: as many rows as fit, in an order that is NVS's own...
ListRows(c) ==
    /\ call[c] = Idle
    /\ NvsFree
    /\ \E out \in kSubset(Min({MaxCount, Cardinality(Rows)}), Rows) :
          call' = [call EXCEPT ![c] =
             [op |-> "merge", out |-> [r \in out |-> nvs[r]],
              floor |-> [r \in Rule |-> Visible(r)]]]
    /\ UNCHANGED <<dirty, nvs, job, edits, deletes, failed, restarts>>

\* ... then the table over them, with s_mutex still held (merge_cb).
Merge(out, e) ==
    CASE e.state = "tombstone" -> Restrict(out, DOMAIN out \ {e.rule})
      [] e.state = "write" /\ (e.rule \in DOMAIN out \/ Cardinality(DOMAIN out) < MaxCount) ->
            [r \in DOMAIN out \cup {e.rule} |-> IF r = e.rule THEN e.edit ELSE out[r]]
      [] OTHER -> out

ListMerge(c) ==
    /\ call[c].op = "merge"
    /\ call' = [call EXCEPT ![c].op = "listed", ![c].out = FoldLeft(Merge, @, dirty)]
    /\ UNCHANGED <<dirty, nvs, job, edits, deletes, failed, restarts>>

\* rule_store_max_id: NVS under s_mutex, then the table without it.
MaxIdRows(c) ==
    /\ call[c] = Idle
    /\ NvsFree
    /\ call' = [call EXCEPT ![c] =
          [op |-> "max", got |-> Max(Rows \cup {0}), floor |-> [r \in Rule |-> Visible(r)]]]
    /\ UNCHANGED <<dirty, nvs, job, edits, deletes, failed, restarts>>

MaxIdTable(c) ==
    /\ call[c].op = "max"
    /\ call' = [call EXCEPT ![c].op = "maxed",
          ![c].got = Max({@} \cup {dirty[i].rule : i \in {j \in Slot : dirty[j].state = "write"}})]
    /\ UNCHANGED <<dirty, nvs, job, edits, deletes, failed, restarts>>

Return(c) ==
    /\ call[c].op \in {"flushed", "loaded", "listed", "maxed"}
    /\ call' = [call EXCEPT ![c] = Idle]
    /\ UNCHANGED <<dirty, nvs, job, edits, deletes, failed, restarts>>

-----------------------------------------------------------------------------
\* Power loss or restart: the table and every call are gone, NVS stays.
Restart ==
    /\ restarts < MaxRestarts
    /\ restarts' = restarts + 1
    /\ dirty' = [i \in Slot |-> Clean]
    /\ job' = [f \in Client \cup {Tick} |-> NoJob]
    /\ call' = [c \in Client |-> Idle]
    /\ UNCHANGED <<nvs, edits, deletes, failed>>

Edits(c) == \E r \in Rule, del \in BOOLEAN : Mark(c, r, del) \/ MarkDirect(c, r, del)
Flushing(f) == Write(f) \/ Settle(f)
Barrier(c) == PassStep(c) \/ WaitEnds(c) \/ CheckPending(c)
Reads(c) == LoadNvs(c) \/ ListMerge(c) \/ MaxIdTable(c) \/ Return(c)

Next ==
    \/ \E c \in Editor : Edits(c)
    \/ \E f \in Client \cup {Tick} : Flushing(f)
    \/ \E i \in Slot : TickClaim(i)
    \/ \E c \in Shutdown : FlushNow(c)
    \/ \E c \in Reader : ListRows(c) \/ MaxIdRows(c) \/ \E r \in Rule : LoadOverlay(c, r)
    \/ \E c \in Client : DirectWrite(c) \/ Barrier(c) \/ Reads(c)
    \/ Restart

Spec == Init /\ [][Next]_vars

\* The flush task looks every second and a pending slot only grows older, so a slot
\* that stays claimable is claimed; a task in the middle of a write or of a read
\* goes on, and one that waits for s_mutex gets it.  Writes fail finitely often.
FairSpec ==
    /\ Spec
    /\ \A i \in Slot : SF_vars(TickClaim(i))
    /\ \A f \in Client \cup {Tick} : SF_vars(Flushing(f))
    /\ \A c \in Client : WF_vars(Reads(c))

-----------------------------------------------------------------------------
RuleFn == [Rule -> Version]
CallTypeOK(k) ==
    \/ k = Idle
    \/ k \in [op : {"direct"}, rule : Rule, del : BOOLEAN]
    \/ k \in [op : {"load", "loaded"}, rule : Rule, got : Version, floor : Version]
    \/ k \in [op : {"max", "maxed"}, got : Rule \cup {0}, floor : RuleFn]
    \/ k \in [op : {"merge", "listed"}, out : UNION {[S -> Edit] : S \in SUBSET Rule}, floor : RuleFn]
    \/ k \in [op : {"pass", "check", "flushed"}, pass : 1..2, at : 1..(DirtyCap + 1),
              expired : BOOLEAN, bar : RuleFn]

StoreTypeOK ==
    /\ dirty \in [Slot -> Pending \cup {Clean}]
    /\ nvs \in RuleFn
    /\ job \in [Client \cup {Tick} -> Job \cup {NoJob}]
    /\ edits \in Version /\ deletes \subseteq Edit
    /\ failed \in [Rule -> 0..MaxFails] /\ restarts \in 0..MaxRestarts

TypeOK == StoreTypeOK /\ DOMAIN call = Client /\ \A c \in Client : CallTypeOK(call[c])

-----------------------------------------------------------------------------
\* The table holds at most one pending edit per rule, so a later edit always
\* replaces an earlier one and never races it from another slot.
OneSlotPerRule == \A r \in Rule : \A i, j \in SlotsOf(r) : i = j

\* A slot whose write is in flight belongs to one flusher, which alone settles it,
\* and still holds the rule being written.
OneFlusherPerSlot ==
    \A i \in Slot : dirty[i].flushing =>
       \E f \in DOMAIN job :
          /\ job[f] # NoJob /\ job[f].slot = i /\ job[f].rule = dirty[i].rule
          /\ \A g \in DOMAIN job : job[g] # NoJob /\ job[g].slot = i => g = f

\* Read-after-write of rule_store_load: never older than what was visible when the
\* call began, although table and NVS are read under different locks.
LoadFresh == \A c \in Client : call[c].op = "loaded" => call[c].got >= call[c].floor

\* rule_store_load_all lists every rule that was there all along, in its current
\* form, and none that was deleted before: the flusher cannot move an edit from
\* the table to NVS behind the walk.  (As long as the rules fit in the result.)
ListComplete ==
    \A c \in Client : call[c].op = "listed" =>
       \A r \in Rule : call[c].floor[r] = Visible(r) =>
          IF r \in DOMAIN call[c].out THEN call[c].out[r] = Visible(r)
          ELSE Live(Visible(r)) => Cardinality(Rule) > MaxCount

\* rule_store_flush_now is a barrier: what was pending at the call is on flash at
\* its return, or overtaken there by something newer, unless a write of the rule
\* failed or the wait for the others was given up.
FlushNowDurable ==
    \A c \in Client : call[c].op = "flushed" /\ ~call[c].expired =>
       \A r \in Rule : nvs[r] >= call[c].bar[r] \/ failed[r] > 0

\* What a call says at its return holds: a load gave the newest, a list left nothing out, a flush left nothing behind.
ReturnsHonest == LoadFresh /\ ListComplete /\ FlushNowDurable

\* Every edit reaches flash or is overtaken there by a newer one, unless a restart loses it.
EditsReachFlash == \A r \in Rule, e \in Edit : Visible(r) = e ~> nvs[r] >= e \/ restarts > 0

\* What the store promises: readers see the newest edit, flash follows and never
\* goes back, and no step but an edit or a restart changes what readers see.
RMap == INSTANCE RuleMap WITH latest <- [r \in Rule |-> Visible(r)], flash <- nvs, boots <- restarts
RuleMapSpec == RMap!Spec
=============================================================================
