----------------------------- MODULE RuleEngine -----------------------------
(***************************************************************************)
(* The rule engine (components/simple_rules): a cache of parsed rules over *)
(* the rule store, matched against events by the task that drains the bus  *)
(* and by the cron task, edited by client tasks.                           *)
(*                                                                         *)
(* A hold of s_mutex is one step, unless the store is read and written     *)
(* under it: then it is two, because a tombstone is marked outside it.     *)
(* The store is what readers of RuleMap see: the newest edit.              *)
(*                                                                         *)
(* One device, known to the rules by name, with one attribute that is 0 or *)
(* 1.  A rule's text is its trigger and its one action:                    *)
(*   "is"      the attribute = 1          "toggle"  the attribute          *)
(*   "change"  any value of it            "event"   publish the rule event *)
(*   "event"   the rule event             "log"     nothing                *)
(*   "cron"    a time                                                      *)
(***************************************************************************)
EXTENDS Naturals, Sequences, FiniteSets, FiniteSetsExt, SequencesExt

CONSTANTS
    Client,     \* tasks that edit rules
    Text,       \* texts of rules: [on |-> trigger, do |-> action]
    Saved,      \* texts of the rules in the store at boot, numbered from 1
    CacheN,     \* MAX_CACHED_RULES
    MatchMax,   \* MAX_MATCHED_PER_EVENT, MAX_CRON_FIRES
    HopMax,     \* MAX_EVENT_HOPS
    RunCap,     \* kRunsPerMinute
    QueueN      \* depth of the engine's queues on the event bus

CONSTANTS       \* bounds of the state space
    MaxId,      \* rule ids
    MaxEdits,   \* commands of clients, changes of the pool
    MaxReports, \* reports a device sends of itself
    MaxTicks    \* minutes that end, and seconds of the cron task

VARIABLES
    store,            \* the row of each rule id
    rules,            \* s_rules
    holder,           \* the client that holds s_mutex over two steps
    call,             \* what each client is in the middle of
    firing,           \* fire_rule in each task that runs rules
    attr_q, event_q,  \* the engine's queues of ZCL_ATTR and RULE_EVENT events
    news,             \* DEVICE_JOIN or DEVICE_LEAVE waits for the engine
    paired, shadow,   \* pool and device_shadow: the device is known, and its value
    device, owed,     \* the device: its value, and a report of it to come
    edits, reports, ticks,
    tail, reason      \* history: see "Reasons to fire"

commands == <<store, holder, call, edits>>
field    == <<paired, device, owed, reports>>
vars     == <<commands, field, rules, firing, attr_q, event_q, news, shadow, ticks, tail, reason>>

-----------------------------------------------------------------------------
Id      == 1..MaxId
Firer   == Client \cup {"pump", "cron"}
Edges   == {"is", "change"}
NoValue == 2
NoOne   == "nobody"
NoText  == [on |-> "none", do |-> "none"]
NoRow   == [text |-> NoText, enabled |-> FALSE]
NoRule  == [id |-> 0, text |-> NoText, enabled |-> FALSE, bound |-> FALSE,
            edge |-> NoValue, runs |-> 0]
NoCall  == [step |-> "idle", id |-> 0, row |-> NoRow]
AtRest  == [step |-> "idle", todo |-> <<>>, hop |-> 0, manual |-> FALSE, act |-> "none", val |-> NoValue]

Stored   == {i \in Id : store[i] # NoRow}
Cached   == {rules[k].id : k \in DOMAIN rules}
At(i)    == CHOOSE k \in DOMAIN rules : rules[k].id = i
Old(i)   == IF i \in Cached THEN rules[At(i)] ELSE NoRule
Unlocked == holder = NoOne

-----------------------------------------------------------------------------
\* Trigger memory.

HasEdge(r) == r.text.on \in Edges /\ r.bound
SameTrigger(a, b) == a.text.on = b.text.on /\ a.bound = b.bound

\* evaluate, for a rule with memory: unknown counts as not matched.
FiresOn(r, v) == IF r.text.on = "change" THEN v # r.edge ELSE v = 1 /\ r.edge # 1

Resolved(r) == [r EXCEPT !.bound = r.text.on \in Edges /\ paired]

SeededUnknown(r, prev) == [r EXCEPT !.edge = NoValue]                      \* mutant
Seeded(r, prev) ==
    [r EXCEPT !.edge = IF ~HasEdge(r) THEN NoValue
                       ELSE IF shadow # NoValue THEN shadow
                       ELSE IF SameTrigger(r, prev) THEN prev.edge ELSE NoValue]

Parsed(i, row, prev) ==
    Seeded(Resolved([NoRule EXCEPT !.id = i, !.text = row.text, !.enabled = row.enabled, !.runs = prev.runs]), prev)

\* Reasons to fire.  A comparison has a reason once the value did not hold, a bare attribute once
\* it differed from the one before.  They are collected in tail, travel with the next report, and
\* are a rule's own when that report is dispatched, until it fires or is seeded again.
ReasonsIn(old, new) == (IF new = 0 THEN {"is"} ELSE {}) \cup (IF new # old THEN {"change"} ELSE {})
SeededReason(r, prev) ==
    IF shadow # NoValue THEN ReasonsIn(shadow, shadow)
    ELSE IF SameTrigger(r, prev) THEN reason[r.id] ELSE Edges

\* reload_locked: the first rows the store lists, in its own order, are parsed and take over the
\* memory and the run counters of the rules they replace.
Fitting == UNION {SetToSeqs(ids) : ids \in kSubset(Min({CacheN, Cardinality(Stored)}), Stored)}
Loaded(order, prev) == [k \in DOMAIN order |-> Parsed(order[k], store[order[k]], prev[order[k]])]

Init ==
    /\ \E texts \in Saved : store = [i \in Id |-> IF i \in DOMAIN texts THEN [text |-> texts[i], enabled |-> TRUE] ELSE NoRow]
    /\ holder = NoOne /\ call = [c \in Client |-> NoCall]
    /\ firing = [f \in Firer |-> AtRest]
    /\ attr_q = <<>> /\ event_q = <<>> /\ news = FALSE
    /\ paired = TRUE /\ device \in {0, 1} /\ shadow \in {device, NoValue} /\ owed = FALSE
    /\ edits = 0 /\ reports = 0 /\ ticks = 0
    /\ tail = {} /\ reason = [i \in Id |-> IF shadow = NoValue THEN Edges ELSE ReasonsIn(shadow, shadow)]
    /\ \E order \in Fitting : rules = Loaded(order, [i \in Id |-> NoRule])

-----------------------------------------------------------------------------
\* The bus: a full queue loses its oldest event; its reasons pass to the next one.

Pushed(q, e) == IF Len(q) < QueueN THEN Append(q, e) ELSE Append(Tail(q), e)

PushedReport(v) ==
    LET e == [val |-> v, why |-> tail \cup ReasonsIn(shadow, v)]
        q == Pushed(attr_q, e)
    IN IF Len(attr_q) < QueueN THEN q ELSE [q EXCEPT ![1].why = @ \cup Head(attr_q).why]

\* A confirmed report: the shadow first, then a ZCL_ATTR event.
Report(v) ==
    /\ paired
    /\ device' = v /\ shadow' = v /\ owed' = FALSE
    /\ attr_q' = PushedReport(v) /\ tail' = {}
    /\ UNCHANGED <<commands, paired, rules, firing, event_q, news, ticks, reason>>

Answers == owed /\ Report(device) /\ UNCHANGED reports
Reports == reports < MaxReports /\ reports' = reports + 1 /\ \E v \in {0, 1} : Report(v)

\* The device is paired or removed; the engine hears of it later.
Join ==
    /\ ~paired /\ edits < MaxEdits /\ edits' = edits + 1
    /\ paired' = TRUE /\ news' = TRUE
    /\ UNCHANGED <<store, holder, call, device, owed, reports, rules, firing, attr_q, event_q, shadow, ticks, tail, reason>>

Leave ==
    /\ paired /\ edits < MaxEdits /\ edits' = edits + 1
    /\ paired' = FALSE /\ owed' = FALSE /\ shadow' = NoValue /\ news' = TRUE /\ tail' = Edges
    /\ UNCHANGED <<store, holder, call, device, reports, rules, firing, attr_q, event_q, ticks, reason>>

\* on_pool_change: a rule that is bound or unbound by it starts from the shadow.
PoolChange ==
    /\ news /\ Unlocked /\ firing["pump"].step = "idle"
    /\ news' = FALSE
    /\ LET moved == {k \in DOMAIN rules : Resolved(rules[k]).bound # rules[k].bound}
       IN /\ rules' = [k \in DOMAIN rules |-> IF k \in moved THEN Seeded(Resolved(rules[k]), NoRule) ELSE rules[k]]
          /\ reason' = [i \in Id |-> IF \E k \in moved : rules[k].id = i THEN SeededReason(Resolved(Old(i)), NoRule)
                                     ELSE reason[i]]
    /\ UNCHANGED <<commands, field, firing, attr_q, event_q, shadow, ticks, tail>>

-----------------------------------------------------------------------------
\* Matching: under the lock, in order, until enough rules have matched.

Firing(f, todo, hop) == firing' = [firing EXCEPT ![f] = [AtRest EXCEPT !.step = IF todo = <<>> THEN "idle" ELSE "check",
                                                                      !.todo = todo, !.hop = hop]]
Within(hits) == {k \in DOMAIN rules : Cardinality({j \in hits : j < k}) < MatchMax}
Picked(hits, founded) ==
    LET order == SetToSortSeq(hits \cap Within(hits), LAMBDA a, b : a < b)
    IN [n \in DOMAIN order |-> [idx |-> order[n], id |-> rules[order[n]].id, founded |-> order[n] \in founded]]

\* dispatch_event for a report.  What a rule remembers, and whether it fires, is settled here.
DispatchReport ==
    LET e     == Head(attr_q)
        about == {k \in DOMAIN rules : rules[k].enabled /\ HasEdge(rules[k])}
        hits  == {k \in about : FiresOn(rules[k], e.val)}
        later == tail \cup UNION {attr_q[n].why : n \in DOMAIN attr_q}
        Fired(i) == \E k \in hits \cap Within(hits) : rules[k].id = i
    IN /\ attr_q # <<>> /\ Unlocked /\ firing["pump"].step = "idle"
       /\ attr_q' = Tail(attr_q)
       /\ Firing("pump", Picked(hits, {k \in hits : rules[k].text.on \in reason[rules[k].id] \cup later}), 0)
       /\ rules' = [k \in DOMAIN rules |-> IF k \in about \cap Within(hits) THEN [rules[k] EXCEPT !.edge = e.val] ELSE rules[k]]
       /\ reason' = [i \in Id |-> IF Fired(i) THEN {} ELSE reason[i] \cup e.why]
       /\ UNCHANGED <<commands, field, event_q, news, shadow, ticks, tail>>

Enabled(on) == {k \in DOMAIN rules : rules[k].enabled /\ rules[k].text.on = on}

\* dispatch_event for a rule event
DispatchEvent ==
    /\ event_q # <<>> /\ Unlocked /\ firing["pump"].step = "idle"
    /\ event_q' = Tail(event_q)
    /\ Firing("pump", Picked(Enabled("event"), Enabled("event")), Head(event_q))
    /\ UNCHANGED <<commands, field, rules, attr_q, news, shadow, ticks, tail, reason>>

\* task_cron in a second its rules name
CronFires ==
    /\ Enabled("cron") # {} /\ ticks < MaxTicks /\ Unlocked /\ firing["cron"].step = "idle"
    /\ ticks' = ticks + 1
    /\ Firing("cron", Picked(Enabled("cron"), Enabled("cron")), 0)
    /\ UNCHANGED <<commands, field, rules, attr_q, event_q, news, shadow, tail, reason>>

-----------------------------------------------------------------------------
\* fire_rule, in the task f: check under the lock, run the copy, next.

Next1(f) == IF Len(firing[f].todo) = 1 THEN AtRest
            ELSE [firing[f] EXCEPT !.step = "check", !.todo = Tail(@)]

CanFeedBack(r) == HasEdge(r) /\ r.text.do = "toggle"
MayRun(r) == CanFeedBack(r) => r.runs < RunCap
Counted(r) == IF CanFeedBack(r) /\ r.runs < RunCap THEN [r EXCEPT !.runs = @ + 1] ELSE r

Check(f) ==
    LET m    == Head(firing[f].todo)
        live == /\ m.idx \in DOMAIN rules /\ rules[m.idx].id = m.id
                /\ firing[f].manual \/ rules[m.idx].enabled
        run  == live /\ (firing[f].manual \/ MayRun(rules[m.idx]))
    IN /\ firing[f].step = "check" /\ Unlocked
       /\ rules' = IF live /\ ~firing[f].manual THEN [rules EXCEPT ![m.idx] = Counted(@)] ELSE rules
       /\ firing' = [firing EXCEPT ![f] = IF run THEN [@ EXCEPT !.step = "act", !.act = rules[m.idx].text.do] ELSE Next1(f)]
       /\ UNCHANGED <<commands, field, attr_q, event_q, news, shadow, ticks, tail, reason>>

Acts(f, a) == firing[f].step = "act" /\ firing[f].act = a

ActLog(f) ==
    /\ Acts(f, "log")
    /\ firing' = [firing EXCEPT ![f] = Next1(f)]
    /\ UNCHANGED <<commands, field, rules, attr_q, event_q, news, shadow, ticks, tail, reason>>

ActEvent(f) ==
    /\ Acts(f, "event")
    /\ event_q' = IF firing[f].hop < HopMax THEN Pushed(event_q, firing[f].hop + 1) ELSE event_q
    /\ firing' = [firing EXCEPT ![f] = Next1(f)]
    /\ UNCHANGED <<commands, field, rules, attr_q, news, shadow, ticks, tail, reason>>

\* zigbee.toggle: the inverse of the shadow's value is sent; the device obeys and will report.
ActToggle(f) ==
    /\ Acts(f, "toggle")
    /\ IF paired /\ shadow # NoValue
       THEN /\ device' = 1 - shadow /\ owed' = TRUE
            /\ firing' = [firing EXCEPT ![f].step = "mirror", ![f].val = 1 - shadow]
       ELSE firing' = [firing EXCEPT ![f] = Next1(f)] /\ UNCHANGED <<device, owed>>
    /\ UNCHANGED <<commands, paired, reports, rules, attr_q, event_q, news, shadow, ticks, tail, reason>>

\* The optimistic value: the rules are not told, but a reload would see it.
Mirror(f) ==
    /\ firing[f].step = "mirror"
    /\ shadow' = IF paired THEN firing[f].val ELSE shadow
    /\ tail' = IF paired THEN tail \cup ReasonsIn(shadow, firing[f].val) ELSE tail
    /\ firing' = [firing EXCEPT ![f] = [Next1(f) EXCEPT !.val = NoValue]]
    /\ UNCHANGED <<commands, field, rules, attr_q, event_q, news, ticks, reason>>

Running(f) == Check(f) \/ ActLog(f) \/ ActEvent(f) \/ ActToggle(f) \/ Mirror(f)

\* The minute of a rule's run cap is up.
MinuteEnds ==
    /\ ticks < MaxTicks /\ ticks' = ticks + 1
    /\ \E k \in DOMAIN rules : rules[k].runs > 0 /\ rules' = [rules EXCEPT ![k].runs = 0]
    /\ UNCHANGED <<commands, field, firing, attr_q, event_q, news, shadow, tail, reason>>

-----------------------------------------------------------------------------
\* Commands of the clients.

MayCommand(c) == /\ call[c].step = "idle" /\ firing[c].step = "idle" /\ Unlocked
                 /\ edits < MaxEdits /\ edits' = edits + 1

Reseeded(r, prev) == reason' = [reason EXCEPT ![r.id] = SeededReason(r, prev)]

\* simple_rules_add, next_rule_id
Add(c, t, on) ==
    LET id  == Max({0} \cup Stored \cup Cached) + 1
        row == [text |-> t, enabled |-> on]
        new == Parsed(id, row, NoRule)
    IN /\ MayCommand(c)
       /\ Len(rules) < CacheN /\ id \in Id
       /\ store' = [store EXCEPT ![id] = row]
       /\ rules' = Append(rules, new) /\ Reseeded(new, NoRule)
       /\ UNCHANGED <<holder, call, field, firing, attr_q, event_q, news, shadow, ticks, tail>>

\* simple_rules_update of a cached rule: an edit does not switch it on.
Edited(i, t)   == [text |-> t, enabled |-> Old(i).enabled]
Update(c, i, t) ==
    LET new == [Parsed(i, Edited(i, t), Old(i)) EXCEPT !.enabled = Old(i).enabled]
    IN /\ MayCommand(c) /\ i \in Cached
       /\ store' = [store EXCEPT ![i] = Edited(i, t)]
       /\ rules' = [rules EXCEPT ![At(i)] = new] /\ Reseeded(new, Old(i))
       /\ UNCHANGED <<holder, call, field, firing, attr_q, event_q, news, shadow, ticks, tail>>

\* A row is read under the lock, and written back before it is released.
KeepsNoLock(c) == UNCHANGED holder                                        \* mutant
KeepsLock(c)   == holder' = c
Read(c, i, row) ==
    /\ MayCommand(c) /\ i \in Stored
    /\ KeepsLock(c) /\ call' = [call EXCEPT ![c] = [step |-> "write", id |-> i, row |-> row]]
    /\ UNCHANGED <<store, field, rules, firing, attr_q, event_q, news, shadow, ticks, tail, reason>>

UpdateStored(c, i, t) == i \notin Cached /\ Read(c, i, [store[i] EXCEPT !.text = t])

Enable(c, i, on) == Read(c, i, [store[i] EXCEPT !.enabled = on])

EnabledAs(i, on) == LET r == [Old(i) EXCEPT !.enabled = on]
                    IN IF on THEN Seeded(Resolved(r), Resolved(r)) ELSE r
WriteBack(c) ==
    LET i   == call[c].id
        new == EnabledAs(i, call[c].row.enabled)
    IN /\ call[c].step = "write"
       /\ store' = [store EXCEPT ![i] = call[c].row]
       /\ IF i \in Cached
          THEN /\ rules' = [rules EXCEPT ![At(i)] = new]
               /\ IF new.enabled THEN Reseeded(new, new) ELSE UNCHANGED reason
          ELSE UNCHANGED <<rules, reason>>
       /\ holder' = NoOne /\ call' = [call EXCEPT ![c] = NoCall]
       /\ UNCHANGED <<edits, field, firing, attr_q, event_q, news, shadow, ticks, tail>>

\* simple_rules_delete: out of the cache under the lock; out of the store, if it is there, without.
WithLastAt(k) == Front([rules EXCEPT ![k] = Last(rules)])
Delete(c, i) ==
    /\ MayCommand(c)
    /\ rules' = IF i \in Cached THEN WithLastAt(At(i)) ELSE rules
    /\ call' = [call EXCEPT ![c] = [NoCall EXCEPT !.step = IF i \in Cached THEN "bury" ELSE "probe", !.id = i]]
    /\ UNCHANGED <<store, holder, field, firing, attr_q, event_q, news, shadow, ticks, tail, reason>>

Probe(c) ==
    /\ call[c].step = "probe"
    /\ call' = [call EXCEPT ![c] = IF call[c].id \in Stored THEN [@ EXCEPT !.step = "bury"] ELSE NoCall]
    /\ UNCHANGED <<store, holder, edits, field, rules, firing, attr_q, event_q, news, shadow, ticks, tail, reason>>

Bury(c) ==
    /\ call[c].step = "bury"
    /\ store' = [store EXCEPT ![call[c].id] = NoRow]
    /\ call' = [call EXCEPT ![c] = NoCall]
    /\ UNCHANGED <<holder, edits, field, rules, firing, attr_q, event_q, news, shadow, ticks, tail, reason>>

\* simple_rules_reload: every rename of a device asks for it.
Reload(c) ==
    /\ MayCommand(c)
    /\ \E order \in Fitting :
          /\ rules' = Loaded(order, [i \in Id |-> Old(i)])
          /\ reason' = [i \in Id |-> IF \E k \in DOMAIN order : order[k] = i
                                     THEN SeededReason(Parsed(i, store[i], Old(i)), Old(i)) ELSE reason[i]]
    /\ UNCHANGED <<store, holder, call, field, firing, attr_q, event_q, news, shadow, ticks, tail>>

\* simple_rules_run_now
RunNow(c, i) ==
    /\ MayCommand(c) /\ i \in Cached
    /\ firing' = [firing EXCEPT ![c] = [AtRest EXCEPT !.step = "check", !.manual = TRUE,
                                                     !.todo = <<[idx |-> At(i), id |-> i, founded |-> TRUE]>>]]
    /\ UNCHANGED <<store, holder, call, field, rules, attr_q, event_q, news, shadow, ticks, tail, reason>>

Commands(c) ==
    \/ \E t \in Text, on \in BOOLEAN : Add(c, t, on)
    \/ \E i \in Id, t \in Text : Update(c, i, t) \/ UpdateStored(c, i, t)
    \/ \E i \in Id, on \in BOOLEAN : Enable(c, i, on)
    \/ \E i \in Id : Delete(c, i) \/ RunNow(c, i)
    \/ Reload(c)

Finishes(c) == WriteBack(c) \/ Probe(c) \/ Bury(c)
Pump == DispatchReport \/ DispatchEvent \/ PoolChange

Next ==
    \/ \E c \in Client : Commands(c) \/ Finishes(c)
    \/ \E f \in Firer : Running(f)
    \/ Pump \/ CronFires \/ MinuteEnds
    \/ Reports \/ Answers \/ Join \/ Leave

Spec == Init /\ [][Next]_vars

-----------------------------------------------------------------------------
\* Types: the cache and the queues keep to their limits, a run is of a known kind, and the lock is
\* held exactly by the client that is between reading a row and writing it.
TypeOK ==
    /\ store \in [Id -> [text : Text, enabled : BOOLEAN] \cup {NoRow}]
    /\ Len(rules) <= CacheN
    /\ \A k \in DOMAIN rules : /\ rules[k].id \in Id /\ rules[k].text \in Text
                               /\ rules[k].edge \in 0..NoValue /\ rules[k].runs \in 0..RunCap
                               /\ rules[k].bound => rules[k].text.on \in Edges
                               /\ rules[k].edge # NoValue => rules[k].bound
    /\ \A c \in Client : holder = c <=> call[c].step = "write"
    /\ \A f \in Firer : /\ firing[f].step \in {"idle", "check", "act", "mirror"}
                        /\ Len(firing[f].todo) <= MatchMax /\ firing[f].hop \in 0..HopMax
                        /\ firing[f].step = "idle" <=> firing[f].todo = <<>>
    /\ Len(attr_q) <= QueueN /\ Len(event_q) <= QueueN
    /\ shadow \in 0..NoValue /\ device \in {0, 1}

\* A heartbeat fires nothing ("a reboot, an edit or a rename never fires a rule either"): whatever
\* is edited, reloaded or paired meanwhile, and however full the queue and the list of matches get,
\* a rule that a report fires has a reason for it since it last fired or was seeded: the value did
\* not hold, or differed from the one before, in a report or in the shadow.
HeartbeatsDoNotFire == \A f \in Firer : \A n \in DOMAIN firing[f].todo : firing[f].todo[n].founded

\* The cache is what the store says, whichever commands overlap: when nobody is between reading and
\* writing a row, ids are distinct and a cached rule that has a row has its text and its switch.
CacheAgrees ==
    Unlocked => \A k \in DOMAIN rules : /\ \A j \in DOMAIN rules : rules[j].id = rules[k].id => j = k
                                        /\ rules[k].id \in Stored => /\ store[rules[k].id].text = rules[k].text
                                                                     /\ store[rules[k].id].enabled = rules[k].enabled

\* LU-06: switching a rule on or off never puts an older text back over an edit.
EnablingKeepsEdits ==
    [][\A c \in Client : WriteBack(c) /\ call[c].id \in Stored /\ call[c].id \in Cached
          => store'[call[c].id].text = store[call[c].id].text]_vars
=============================================================================
