------------------------------ MODULE RuleExpr -------------------------------
(***************************************************************************)
(* Value expressions of rule actions (components/simple_rules/expr_eval):  *)
(* compiled once, without recursion, by a shunting yard into a program for *)
(* a stack, and run at every fire.  Below them is the grammar of           *)
(* expr_eval.h, read off the text directly.                                *)
(*                                                                         *)
(* A text is a sequence of tokens; a literal is its number.  Blanks,       *)
(* unknown characters and the cap on the length of the text are left out.  *)
(* int32 is IntMin .. IntMax; a 64-bit intermediate never overflows.       *)
(***************************************************************************)
EXTENDS Integers, Sequences, SequencesExt, FiniteSetsExt

CONSTANTS
    Literal,            \* literals
    IntMax,             \* INT32_MAX
    EXPR_OPS_MAX, EXPR_STACK_MAX, EXPR_PAREN_MAX,
    Value,              \* values the trigger may have
    MaxTokens,          \* bound: tokens of a text
    MaxJunk             \* bound: tokens of a text already refused

VARIABLES text, st      \* the tokens read, and the compiler after them

vars == <<text, st>>

Num(n)  == [is |-> "num", v |-> n]
Tok(c)  == [is |-> c, v |-> 0]
Tokens  == {Num(n) : n \in Literal} \cup {Tok(c) : c \in {"value", "+", "-", "*", "/", "%", "!", "(", ")"}}
Operand == {"num", "value"}

IntMin     == -IntMax - 1
clamp64(v) == Max({IntMin, Min({IntMax, v})})

prec(op) == CASE op \in {"N", "!"} -> 3 [] op \in {"*", "/", "%"} -> 2 [] op \in {"+", "-"} -> 1 [] op = "(" -> 0

\* out: the program; opstk: operators waiting; depth: of the stack the program will need; fail: refused.
Start == [out |-> <<>>, opstk |-> <<>>, depth |-> 0, paren |-> 0, expect |-> TRUE, unary |-> FALSE, fail |-> FALSE]
Failed(s) == [s EXCEPT !.fail = TRUE]

-----------------------------------------------------------------------------
\* expr_compile.

emit(s, op) ==
    LET takes == CASE op.is \in Operand -> 0 [] op.is \in {"N", "!"} -> 1 [] OTHER -> 2
    IN  IF \/ s.fail
           \/ Len(s.out) >= EXPR_OPS_MAX
           \/ s.depth < takes
           \/ takes = 0 /\ s.depth >= EXPR_STACK_MAX
        THEN Failed(s)
        ELSE [s EXCEPT !.out = Append(@, op), !.depth = @ - takes + 1]

\* A literal zero just emitted is this operator's divisor.
pop_emit(s, op) ==
    IF op \in {"/", "%"} /\ s.out # <<>> /\ Last(s.out) = Num(0) THEN Failed(s) ELSE emit(s, Tok(op))

\* Mutant: operators of one precedence from the right.
PoppedTighter(s, p) ==
    LET keep == Max({0} \cup {i \in DOMAIN s.opstk : prec(s.opstk[i]) <= p})
        pops == Reverse(SubSeq(s.opstk, keep + 1, Len(s.opstk)))
    IN  [FoldLeft(pop_emit, s, pops) EXCEPT !.opstk = SubSeq(s.opstk, 1, keep)]

\* The operators on top of the stack that bind at least as tight as p move into the program.
Popped(s, p) ==
    LET keep == Max({0} \cup {i \in DOMAIN s.opstk : prec(s.opstk[i]) < p})
        pops == Reverse(SubSeq(s.opstk, keep + 1, Len(s.opstk)))
    IN  [FoldLeft(pop_emit, s, pops) EXCEPT !.opstk = SubSeq(s.opstk, 1, keep)]

WantOperand(s, c) ==
    CASE c.is \in Operand -> IF c.v > IntMax THEN Failed(s) ELSE [emit(s, c) EXCEPT !.expect = FALSE, !.unary = FALSE]
      [] c.is \in {"-", "!"} -> IF s.unary THEN Failed(s)
                                ELSE [s EXCEPT !.opstk = Append(@, IF c.is = "-" THEN "N" ELSE "!"), !.unary = TRUE]
      [] c.is = "(" -> IF s.paren >= EXPR_PAREN_MAX THEN Failed(s)
                       ELSE [s EXCEPT !.paren = @ + 1, !.opstk = Append(@, "("), !.unary = FALSE]
      [] OTHER -> Failed(s)

WantOperator(s, c) ==
    CASE c.is \in {"+", "-", "*", "/", "%"} ->
            [Popped(s, prec(c.is)) EXCEPT !.opstk = Append(@, c.is), !.expect = TRUE, !.unary = FALSE]
      [] c.is = ")" /\ s.paren > 0 -> [Popped(s, 1) EXCEPT !.opstk = Front(@), !.paren = @ - 1]
      [] OTHER -> Failed(s)

Step(s, c) == IF s.fail THEN s ELSE IF s.expect THEN WantOperand(s, c) ELSE WantOperator(s, c)

\* At the end of the text.
expr_compile(s) ==
    IF s.fail \/ s.expect \/ "(" \in ToSet(s.opstk) THEN Failed(s)
    ELSE LET e == Popped(s, 1) IN IF e.depth # 1 THEN Failed(e) ELSE e

Init == text = <<>> /\ st = Start
Next ==
    /\ Len(text) < (IF st.fail THEN MaxJunk ELSE MaxTokens)
    /\ \E c \in Tokens : text' = Append(text, c) /\ st' = Step(st, c)

-----------------------------------------------------------------------------
\* expr_eval.  Nothing: it failed, and the action is skipped.

Nothing  == <<>>
Size(a)  == Max({a, -a})
Quot(a, b) == (IF a * b < 0 THEN -1 ELSE 1) * (Size(a) \div Size(b))

Binary(op, a, b) ==
    CASE op = "+" -> <<clamp64(a + b)>> [] op = "-" -> <<clamp64(a - b)>> [] op = "*" -> <<clamp64(a * b)>>
      [] op = "/" -> IF b = 0 THEN Nothing ELSE <<clamp64(Quot(a, b))>>
      [] op = "%" -> IF b = 0 THEN Nothing ELSE <<clamp64(a - b * Quot(a, b))>>

Run(stack, op, value) ==
    LET n == Len(stack)
        takes == CASE op.is \in Operand -> 0 [] op.is \in {"N", "!"} -> 1 [] OTHER -> 2
        under == SubSeq(stack, 1, n - takes)
    IN  IF n < takes \/ (takes = 0 /\ n >= EXPR_STACK_MAX) THEN Nothing
        ELSE CASE op.is = "num"   -> Append(stack, op.v)
               [] op.is = "value" -> Append(stack, value)
               [] op.is = "N"     -> Append(under, clamp64(-Last(stack)))
               [] op.is = "!"     -> Append(under, IF Last(stack) = 0 THEN 1 ELSE 0)
               [] OTHER -> LET r == Binary(op.is, stack[n - 1], stack[n]) IN IF r = Nothing THEN r ELSE under \o r

\* A step that fails ends the run.
expr_eval(prog, value) ==
    LET f[i \in 0..Len(prog)] ==
            IF i = 0 THEN Nothing
            ELSE IF i > 1 /\ f[i - 1] = Nothing THEN Nothing ELSE Run(f[i - 1], prog[i], value)
        r == f[Len(prog)]
    IN  IF Len(r) = 1 THEN r ELSE Nothing

-----------------------------------------------------------------------------
\* The grammar, by splitting a text at its last operator outside parentheses.
\* ok: well formed; val: for each trigger value; deep: values waiting at once; zero: it is a literal 0.

Level(s, i) == Cardinality({j \in 1..i : s[j].is = "("}) - Cardinality({j \in 1..i : s[j].is = ")"})
Splits(s, ops) == {i \in 2 .. Len(s) - 1 : s[i].is \in ops /\ s[i - 1].is \in Operand \cup {")"} /\ Level(s, i) = 0}

Malformed == [ok |-> FALSE, val |-> [v \in Value |-> Nothing], deep |-> 0, zero |-> FALSE]
Both(op, a, b) ==
    IF ~a.ok \/ ~b.ok \/ (op \in {"/", "%"} /\ b.zero) THEN Malformed
    ELSE [ok |-> TRUE, deep |-> Max({a.deep, b.deep + 1}), zero |-> FALSE,
          val |-> [v \in Value |-> IF Nothing \in {a.val[v], b.val[v]} THEN Nothing ELSE Binary(op, a.val[v][1], b.val[v][1])]]
One(op, a) ==
    IF ~a.ok THEN Malformed
    ELSE [ok |-> TRUE, deep |-> a.deep, zero |-> FALSE,
          val |-> [v \in Value |-> IF a.val[v] = Nothing THEN Nothing
                                   ELSE IF op = "-" THEN <<clamp64(-a.val[v][1])>>
                                   ELSE <<IF a.val[v][1] = 0 THEN 1 ELSE 0>>]]

RECURSIVE Meaning(_)
Meaning(s) ==
    LET n == Len(s)
        At(i) == Both(s[i].is, Meaning(SubSeq(s, 1, i - 1)), Meaning(SubSeq(s, i + 1, n)))
    IN  CASE n = 0 -> Malformed
          [] n > 0 /\ Splits(s, {"+", "-"}) # {} -> At(Max(Splits(s, {"+", "-"})))
          [] n > 0 /\ Splits(s, {"+", "-"}) = {} /\ Splits(s, {"*", "/", "%"}) # {} -> At(Max(Splits(s, {"*", "/", "%"})))
          [] OTHER ->
                CASE n = 1 /\ s[1].is \in Operand /\ s[1].v <= IntMax ->
                        [ok |-> TRUE, deep |-> 1, zero |-> s[1] = Num(0),
                         val |-> [v \in Value |-> <<IF s[1].is = "num" THEN s[1].v ELSE v>>]]
                  [] n > 1 /\ s[1].is \in {"-", "!"} /\ s[2].is \notin {"-", "!"} -> One(s[1].is, Meaning(Tail(s)))
                  [] n > 1 /\ s[1].is = "(" /\ s[n].is = ")" /\ (\A i \in 1 .. n - 1 : Level(s, i) > 0) ->
                        Meaning(SubSeq(s, 2, n - 1))
                  [] OTHER -> Malformed

\* Within the caps: operations, values on the stack, parentheses in one another.
Fits(s, m) ==
    /\ Cardinality({i \in DOMAIN s : s[i].is \notin {"(", ")"}}) <= EXPR_OPS_MAX
    /\ m.deep <= EXPR_STACK_MAX
    /\ \A i \in DOMAIN s : Level(s, i) <= EXPR_PAREN_MAX

\* A text is accepted if and only if it is well formed, divides by no literal zero and keeps to the caps;
\* the program then computes what the text says, for every trigger value, clamped at every operation, or
\* nothing exactly where the text divides by zero.
ExprMeansText ==
    LET m == Meaning(text)
        c == expr_compile(st)
    IN  /\ c.fail <=> ~(m.ok /\ Fits(text, m))
        /\ ~c.fail => \A v \in Value : expr_eval(c.out, v) = m.val[v]
=============================================================================
