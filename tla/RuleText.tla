------------------------------ MODULE RuleText -------------------------------
(***************************************************************************)
(* The rule language (components/simple_rules/dsl_parser.cpp) and what a   *)
(* parsed rule does with an event: the matcher, and the argument of an     *)
(* action that uses the trigger's value.                                   *)
(*                                                                         *)
(* A text is what its author wrote: the parts it has, a trigger and        *)
(* actions; a word is a name and a length, a literal a number.  Real       *)
(* numbers are in thousandths; a reading of type float arrives in          *)
(* hundredths.  RuleExpr is about what an expression computes: here it is  *)
(* well formed or not.  Left out: words that hold a keyword or a           *)
(* semicolon, text after an argument, and the caps on a whole trigger and  *)
(* on all actions, next to those on each of their words.                   *)
(***************************************************************************)
EXTENDS Integers, Sequences, SequencesExt, FiniteSetsExt

CONSTANTS
    Triggers, Actions,  \* triggers and actions to write
    Readings,           \* events to hear
    IntMax              \* INT32_MAX

VARIABLES
    text,       \* what the author wrote
    rule,       \* ParsedRule; Refused; or Unread
    heard,      \* the last event, or Unread
    fired,      \* whether it matched
    sent        \* what the actions that take a value make of it

vars == <<text, rule, heard, fired, sent>>

Unread  == [is |-> "unread"]
Refused == [is |-> "refused"]
Word(of, len) == [of |-> of, len |-> len]
NoWord  == Word("", 0)
Least(a, b) == IF a < b THEN a ELSE b
Cut(w, size) == [w EXCEPT !.len = Least(@, size - 1)]

-----------------------------------------------------------------------------
\* parse_trigger.

KEY_MAX == 64  REF_MAX == 30  ATTR_KEY_MAX == 28  ATTR_STR_MAX == 48
Ops == {"=", "!=", "<", ">", "<=", ">="}

\* Half away from zero, as a positive or a negative number; n thousandths to hundredths.
Rounded(n) == IF n < 0 THEN -((5 - n) \div 10) ELSE (n + 5) \div 10
InRange(n) == -IntMax - 1 <= n /\ n <= IntMax

parse_literal(l) ==
    CASE l.is = "text" -> IF l.word.len < ATTR_STR_MAX THEN [is |-> "text", word |-> l.word] ELSE Refused
      [] l.is = "int"  -> IF InRange(l.n) THEN [is |-> "int", n |-> l.n, x100 |-> FALSE] ELSE Refused
      [] l.is = "dec"  -> IF InRange(Rounded(l.n)) THEN [is |-> "int", n |-> Rounded(l.n), x100 |-> TRUE] ELSE Refused
      [] OTHER         -> Refused     \* an open quote, or no number

parse_trigger(t) ==
    CASE t.is = "boot" -> t
      [] t.is \in {"cron", "event", "timer", "mqtt"} -> IF t.key.len < KEY_MAX THEN t ELSE Refused
      [] t.is = "device" ->
            IF \/ t.ref.of # "ieee" /\ t.ref.len \notin 1 .. REF_MAX - 1
               \/ t.ref.of = "bad ieee"
               \/ t.attr # NoWord /\ t.attr.len >= ATTR_KEY_MAX
               \/ t.op \in Ops /\ parse_literal(t.lit) = Refused
            THEN Refused
            ELSE [t EXCEPT !.lit = IF t.op \in Ops THEN parse_literal(t.lit) ELSE @]

-----------------------------------------------------------------------------
\* parse_action: sizes of the arrays its words go into.

Sizes == [set |-> <<32, 32, 20>>, toggle |-> <<32, 32>>, publish |-> <<32, 32>>, event |-> <<32>>, timer |-> <<32, 32>>,
          log |-> <<32>>, run |-> <<32>>]
Needed == [set |-> {}, toggle |-> {1, 2}, publish |-> {}, event |-> {}, timer |-> {}, log |-> {}, run |-> {1}]
ValueArg == [set |-> 3, publish |-> 2]
EXPR_TEXT_MAX == 48

IsExpr(a, i) == a.do \in DOMAIN ValueArg /\ ValueArg[a.do] = i /\ a.args[i].of \in {"expr", "bad expr"}
parse_value_arg(w) == IF w.of = "bad expr" \/ w.len > EXPR_TEXT_MAX THEN Refused ELSE w

\* One word: uncut or refused, but for a log text, and for a quoted script name with a blank where it is cut.
copy_token(a, i) ==
    LET w == a.args[i]  size == Sizes[a.do][i]
    IN  CASE IsExpr(a, i) -> parse_value_arg(w)
          [] ~IsExpr(a, i) /\ (w.len < size \/ a.do = "log" \/ w.of = "blank at the cut") -> Cut(w, size)
          [] OTHER -> Refused

parse_action(a) ==
    IF \/ a.do \notin DOMAIN Sizes
       \/ \E i \in DOMAIN a.args : copy_token(a, i) = Refused
       \/ \E i \in Needed[a.do] : a.args[i].len = 0
    THEN Refused
    ELSE [a EXCEPT !.args = [i \in DOMAIN a.args |-> copy_token(a, i)]]

\* The first four actions are read, and no more may follow; none at all is no action.
dsl_parse(t) ==
    LET acts == [i \in 1 .. Least(4, Len(t.acts)) |-> parse_action(t.acts[i])]
    IN  IF \/ ~({"ON", "DO", "ENDON"} \subseteq t.has)
           \/ parse_trigger(t.trig) = Refused
           \/ acts = <<>> \/ Refused \in ToSet(acts)
           \/ Len(t.acts) > 4
        THEN Refused
        ELSE [is |-> "rule", trig |-> parse_trigger(t.trig), acts |-> acts]

\* simple_rules_check, and the first half of adding a rule.
Parse ==
    /\ rule = Unread
    /\ rule' = dsl_parse(text)
    /\ UNCHANGED <<text, heard, fired, sent>>

-----------------------------------------------------------------------------
\* simple_rules_match.

compare_int(op, a, b) ==
    CASE op = "=" -> a = b [] op = "!=" -> a # b [] op = ">" -> a > b
      [] op = "<" -> a < b [] op = ">=" -> a >= b [] op = "<=" -> a <= b

\* A device's address, or its name, which the pool resolves to one.
Named(ref) == IF ref.of = "ieee" THEN "d" ELSE ref.of

MatchDevice(t, ev) ==
    /\ Named(t.ref) = ev.ref
    /\ t.attr # NoWord => t.attr = ev.attr
    /\ \/ t.attr = NoWord \/ t.op = "any"
       \/ /\ t.lit.is = "text" /\ ev.type = "str"
          /\ (t.op = "=" /\ ev.word = t.lit.word) \/ (t.op = "!=" /\ ev.word # t.lit.word)
       \/ /\ t.lit.is = "int" /\ ev.type # "str"
          /\ compare_int(t.op, IF t.lit.x100 /\ ev.type # "float" THEN 100 * ev.n ELSE ev.n, t.lit.n)

simple_rules_match(t, ev) ==
    /\ t.is = ev.is
    /\ CASE t.is = "device" -> MatchDevice(t, ev)
         [] t.is \in {"event", "timer", "mqtt"} -> t.key = ev.key
         [] OTHER -> t.is = "boot"

\* event_val, the trigger's value as the actions get it, has room for 31 characters.
EventVal(ev) ==
    CASE ev.is = "device" -> IF ev.type = "str" THEN Cut(ev.word, 32) ELSE Word("number", 4)
      [] ev.is = "mqtt"   -> Cut(ev.payload, 32)
      [] OTHER            -> NoWord

\* expand_value, and an expression, which needs a number.
resolve_action_value(w, value) ==
    CASE w.of = "expr"    -> IF value.of = "number" THEN Word("result", 4) ELSE Refused
      [] w.of = "%value%" -> value
      [] OTHER            -> w

Hear(ev) ==
    /\ rule \notin {Unread, Refused} /\ heard = Unread
    /\ heard' = ev /\ fired' = simple_rules_match(rule.trig, ev)
    /\ sent' = [i \in {i \in DOMAIN rule.acts : fired' /\ rule.acts[i].do \in DOMAIN ValueArg} |->
                    resolve_action_value(rule.acts[i].args[ValueArg[rule.acts[i].do]], EventVal(ev))]
    /\ UNCHANGED <<text, rule>>

Texts ==
    {[has |-> {"ON", "DO", "ENDON"}, trig |-> t, acts |-> <<a>>] : t \in Triggers, a \in Actions}
    \cup {[has |-> {"ON", "DO", "ENDON"} \ {k}, trig |-> t, acts |-> acts] : k \in {"ON", "DO", "ENDON", "none"},
          t \in {[is |-> "boot"]}, acts \in UNION {[1..n -> Actions] : n \in 0..2} \cup {[i \in 1..n |-> a] : n \in 3..5, a \in Actions}}

Init == text \in Texts /\ rule = Unread /\ heard = Unread /\ fired = FALSE /\ sent = <<>>
Next == Parse \/ \E ev \in Readings : Hear(ev)

-----------------------------------------------------------------------------
\* What the text says.

\* A decimal literal is in real units; a whole one is compared with the reading's raw number.
Holds(t, ev) ==
    CASE t.lit.is = "text" -> /\ ev.type = "str"
                              /\ (t.op = "=" /\ ev.word = t.lit.word) \/ (t.op = "!=" /\ ev.word # t.lit.word)
      [] t.lit.is = "int"  -> ev.type # "str" /\ compare_int(t.op, ev.n, t.lit.n)
      [] t.lit.is = "dec"  -> /\ ev.type # "str"
                              /\ compare_int(t.op, IF ev.type = "float" THEN ev.n ELSE 100 * ev.n, Rounded(t.lit.n))
Says(t, ev) ==
    /\ t.is = ev.is
    /\ t.is = "device" => /\ Named(t.ref) = ev.ref
                          /\ t.attr # NoWord => t.attr = ev.attr /\ (t.op \in Ops => Holds(t, ev))
    /\ t.is \in {"event", "timer", "mqtt"} => t.key = ev.key
    /\ t.is # "cron"

Excused(a) == a.do = "log" \/ a.args[1].of = "blank at the cut"
Whole(ev)  == IF ev.is = "mqtt" THEN ev.payload ELSE IF ev.is = "device" /\ ev.type = "str" THEN ev.word ELSE EventVal(ev)

\* A rule that is accepted is the rule that was written: its trigger fires on exactly the events the text
\* names, no argument of an action was cut, but a text for the log (and a quoted script name with a blank at
\* the cut), and a value passed on is the trigger's own, up to 31 characters of it.
RuleMeansText ==
    rule \notin {Unread, Refused} =>
        /\ Len(rule.acts) = Len(text.acts)
        /\ \A i \in DOMAIN rule.acts : rule.acts[i] = text.acts[i] \/ Excused(text.acts[i])
        /\ heard # Unread => (fired <=> Says(text.trig, heard))
        /\ \A i \in DOMAIN sent : LET w == text.acts[i].args[ValueArg[text.acts[i].do]] IN
                w.of = "%value%" /\ Whole(heard).len < 32 => sent[i] = Whole(heard)
=============================================================================
