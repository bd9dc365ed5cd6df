------------------------------- MODULE Metrics -------------------------------
(***************************************************************************)
(* Counters and samples kept without a lock (components/metrics): every    *)
(* metric has a shard per core, writers add to the shard of the core they  *)
(* run on, a reader walks the shards and merges them.  Each atomic         *)
(* operation is a step; a task may be moved to another core, or another    *)
(* task run on its core, between any two.  One metric, of one kind; a timer   *)
(* is kept like a value.  Widths are left out.                             *)
(***************************************************************************)
EXTENDS Integers, FiniteSets, FiniteSetsExt

CONSTANTS
    Task,            \* tasks that record
    Shards,          \* CONFIG_METRICS_NUM_SHARDS
    Sample,          \* values recorded
    Least, Most      \* the type's bounds

CONSTANTS            \* bounds
    MaxSamples, MaxIncs, MaxSets, MaxReads

VARIABLES
    kind,            \* of the metric: a value, a counter, or a counter that one task sets like a gauge
    value, counter,  \* g_values, g_counters: its shards
    op, setting,     \* value_record of each task, counter_set of the setter, in progress
    reader,          \* read_value or read_counter in progress, or its result
    begun, ended,    \* history: samples by value, of calls begun and ended
    incs, set, reads

vars == <<kind, value, counter, op, setting, reader, begun, ended, incs, set, reads>>

Shard == 1..Shards
Empty == [count |-> 0, sum |-> 0, min |-> Most, max |-> Least, last |-> 0]
Idle  == [step |-> "idle", s |-> 0, v |-> 0, cur |-> 0]
Unset == [step |-> "idle", s |-> 0, home |-> 0, v |-> 0]
NoRead == [s |-> 0, step |-> "none", out |-> Empty, ended |-> [v \in Sample |-> 0], incs |-> 0]

Init ==
    /\ value = [s \in Shard |-> Empty]
    /\ counter = [s \in Shard |-> 0] /\ kind \in {"value", "counter", "gauge"}
    /\ op = [t \in Task |-> Idle] /\ setting = Unset /\ reader = NoRead
    /\ begun = [v \in Sample |-> 0] /\ ended = [v \in Sample |-> 0]
    /\ incs = 0 /\ set = 0 /\ reads = 0

Number(samples) == MapThenSumSet(LAMBDA v : samples[v], Sample)
Total(samples)  == MapThenSumSet(LAMBDA v : v * samples[v], Sample)
Aggregate(c)    == MapThenSumSet(LAMBDA s : c[s], Shard)

-----------------------------------------------------------------------------
\* value_record: the shard is that of the core at the start.

Record(t) ==
    /\ kind = "value" /\ op[t].step = "idle" /\ Number(begun) < MaxSamples
    /\ \E v \in Sample, s \in Shard :
          /\ op' = [op EXCEPT ![t] = [step |-> "count", s |-> s, v |-> v, cur |-> 0]]
          /\ begun' = [begun EXCEPT ![v] = @ + 1]
    /\ UNCHANGED <<kind, value, counter, setting, reader, ended, incs, set, reads>>

After == [count |-> "sum", sum |-> "last", last |-> "min", min |-> "max", max |-> "idle"]

Goes(t, step) ==
    /\ op' = [op EXCEPT ![t] = IF step = "idle" THEN Idle ELSE [@ EXCEPT !.step = step, !.cur = 0]]
    /\ ended' = IF step = "idle" THEN [ended EXCEPT ![op[t].v] = @ + 1] ELSE ended

Add(t) ==
    LET o == op[t] IN
    /\ o.step \in {"count", "sum", "last"}
    /\ value' = [value EXCEPT ![o.s][o.step] = CASE o.step = "count" -> @ + 1 [] o.step = "sum" -> @ + o.v [] OTHER -> o.v]
    /\ Goes(t, After[o.step])
    /\ UNCHANGED <<kind, counter, setting, reader, begun, incs, set, reads>>

Better(f, a, b) == IF f = "min" THEN a < b ELSE a > b
Cas == [min |-> "min cas", max |-> "max cas"]

\* atomic_min and atomic_max: a load, and compare_exchange_weak until it wins or the sample is no better.
Seen(t, f) ==
    LET cur == value[op[t].s][f] IN
    IF Better(f, op[t].v, cur) THEN op' = [op EXCEPT ![t].step = Cas[f], ![t].cur = cur] /\ UNCHANGED ended
    ELSE Goes(t, After[f])

Load(t, f) ==
    /\ op[t].step = f
    /\ Seen(t, f)
    /\ UNCHANGED <<kind, value, counter, setting, reader, begun, incs, set, reads>>

WinsAlways(t, f) == TRUE                                                   \* mutant
Wins(t, f) == value[op[t].s][f] = op[t].cur

Exchange(t, f) ==
    /\ op[t].step = Cas[f] /\ Wins(t, f)
    /\ value' = [value EXCEPT ![op[t].s][f] = op[t].v]
    /\ Goes(t, After[f])
    /\ UNCHANGED <<kind, counter, setting, reader, begun, incs, set, reads>>

ExchangeFails(t, f) ==     \* it may for no reason
    /\ op[t].step = Cas[f]
    /\ Seen(t, f)
    /\ UNCHANGED <<kind, value, counter, setting, reader, begun, incs, set, reads>>

-----------------------------------------------------------------------------

counter_inc(s) ==
    /\ kind = "counter" /\ incs < MaxIncs
    /\ incs' = incs + 1 /\ counter' = [counter EXCEPT ![s] = @ + 1]
    /\ UNCHANGED <<kind, value, op, setting, reader, begun, ended, set, reads>>

\* counter_set: one store for each shard.
SetBegins(home, v) ==
    /\ kind = "gauge" /\ setting.step = "idle" /\ set < MaxSets
    /\ setting' = [step |-> "store", s |-> 1, home |-> home, v |-> v] /\ set' = set + 1
    /\ UNCHANGED <<kind, value, counter, op, reader, begun, ended, incs, reads>>

Store ==
    /\ setting.step = "store"
    /\ counter' = [counter EXCEPT ![setting.s] = IF setting.s = setting.home THEN setting.v ELSE 0]
    /\ setting' = IF setting.s = Shards THEN [setting EXCEPT !.step = "idle"] ELSE [setting EXCEPT !.s = @ + 1]
    /\ UNCHANGED <<kind, value, op, reader, begun, ended, incs, set, reads>>

-----------------------------------------------------------------------------
\* read_value and read_counter.

ReadBegins ==
    /\ reader.step \in {"none", "done"} /\ reads < MaxReads
    /\ reads' = reads + 1
    /\ reader' = [s |-> 1, step |-> "count", out |-> Empty, ended |-> ended, incs |-> incs]
    /\ UNCHANGED <<kind, value, counter, op, setting, begun, ended, incs, set>>

NextShard == IF reader.s = Shards THEN [reader EXCEPT !.step = "done"] ELSE [reader EXCEPT !.s = @ + 1, !.step = "count"]

Merged(f, a, b) == CASE f \in {"count", "sum"} -> a + b [] f = "last" -> b [] OTHER -> IF Better(f, b, a) THEN b ELSE a
Follows == [count |-> "sum", sum |-> "min", min |-> "max", max |-> "last"]

ReadField ==
    LET f == reader.step  got == value[reader.s][f]
        out == [reader.out EXCEPT ![f] = Merged(f, @, got)]
    IN  /\ kind = "value" /\ f \in DOMAIN Empty
        /\ reader' = IF f = "last" \/ (f = "count" /\ got = 0) THEN [NextShard EXCEPT !.out = out]
                     ELSE [reader EXCEPT !.out = out, !.step = Follows[f]]
        /\ UNCHANGED <<kind, value, counter, op, setting, begun, ended, incs, set, reads>>

ReadCounter ==
    /\ kind # "value" /\ reader.step = "count"
    /\ reader' = [NextShard EXCEPT !.out.count = @ + counter[reader.s]]
    /\ UNCHANGED <<kind, value, counter, op, setting, begun, ended, incs, set, reads>>

Next ==
    \/ \E t \in Task : Record(t) \/ Add(t) \/ \E f \in {"min", "max"} : Load(t, f) \/ Exchange(t, f) \/ ExchangeFails(t, f)
    \/ \E s \in Shard : counter_inc(s) \/ \E v \in Sample : SetBegins(s, v)
    \/ Store
    \/ ReadBegins \/ ReadField \/ ReadCounter

-----------------------------------------------------------------------------
Known(samples) == {v \in Sample : samples[v] > 0}

\* Whatever interleaved, nothing recorded is lost: with no call in progress the shards hold every sample,
\* and a counter that one task sets holds what it was set to.
NothingLost ==
    /\ (\A t \in Task : op[t] = Idle) =>
          LET kept == {s \in Shard : value[s].count > 0} IN
          /\ MapThenSumSet(LAMBDA s : value[s].count, Shard) = Number(begun)
          /\ MapThenSumSet(LAMBDA s : value[s].sum, Shard) = Total(begun)
          /\ kept # {} => /\ Min({value[s].min : s \in kept}) = Min(Known(begun))
                          /\ Max({value[s].max : s \in kept}) = Max(Known(begun))
    /\ kind = "counter" => Aggregate(counter) = incs
    /\ setting.step = "idle" /\ set > 0 => Aggregate(counter) = setting.v

\* A reading taken among the writers has every sample whose call was over when it began, and none that was
\* not begun when it ended.
ReadingsCover ==
    LET out == reader.out IN
    /\ reader.step = "done" /\ kind = "value" =>
          /\ out.count \in Number(reader.ended) .. Number(begun)
          /\ out.sum \in Total(reader.ended) .. Total(begun)
          /\ \A v \in Known(reader.ended) : out.min <= v /\ v <= out.max
          /\ out.min \in Known(begun) \cup {Most} /\ out.max \in Known(begun) \cup {Least}
    /\ reader.step = "done" /\ kind = "counter" => out.count \in reader.incs .. incs
=============================================================================
