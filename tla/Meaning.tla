------------------------------- MODULE Meaning -------------------------------
(***************************************************************************)
(* What the trees of Lift mean: a reference interpreter that Lift is       *)
(* checked against.  It reads source nodes as JavaScript does and model    *)
(* nodes as their discriminators say; for both, a run of a body yields how *)
(* it ended, with which value, the variables and array cells it left and   *)
(* the calls it made, in order.                                            *)
(*                                                                         *)
(* Values are small integers, 0 is false; shifts are of Width bits; a loop *)
(* runs at most Fuel times.  A call returns how many calls came before it, *)
(* so that calling twice differs from calling once.                        *)
(***************************************************************************)
EXTENDS Integers, Sequences, SequencesExt

CONSTANTS Width, Fuel

ASSUME MeaningAssumption == Width \in Nat \ {0} /\ Fuel \in Nat \ {0}

Truth(b) == IF b THEN 1 ELSE 0

(* The operators of JavaScript the reference knows.                        *)
JsOp ==
    "+" :> "add" @@ "-" :> "sub" @@ "*" :> "mul" @@ "<" :> "less" @@
    "===" :> "eq" @@ "&&" :> "and" @@ "||" :> "or" @@ ">>" :> "shr" @@
    ">>>" :> "ushr" @@ "+=" :> "add" @@ "-=" :> "sub" @@ ">>=" :> "shr"

Apply(op, a, b) ==
    CASE op = "add" -> a + b
      [] op = "sub" -> a - b
      [] op = "mul" -> a * b
      [] op = "less" -> Truth(a < b)
      [] op = "eq" -> Truth(a = b)
      [] op = "shr" -> a \div (2 ^ (b % Width))
      [] op = "ushr" -> (a % (2 ^ Width)) \div (2 ^ (b % Width))

(* Text of a literal to its value, as the reader of its litKind takes it.  *)
NumberOf(text) ==
    CASE text = "1" -> 1 [] text = "2" -> 2 [] text = "0x1E" -> 30
      [] OTHER -> 0

(* A state: cells, and the calls made so far.  A place is a variable (at   *)
(* -1), a member (-2) or an array cell.                                    *)
At(name, at) == [name |-> name, at |-> at]
Load(st, p) == IF p \in DOMAIN st.cells THEN st.cells[p] ELSE 0
Store(st, p, v) == [st EXCEPT !.cells = (p :> v) @@ @]
Val(v, st) == [v |-> v, st |-> st]

RECURSIVE Eval(_, _), EvalArgs(_, _), Place(_, _),
          Update(_, _, _, _, _), EvalBinary(_, _, _, _)

Place(n, st) ==
    CASE n.kind \in {"Identifier", "varref"} ->
           [at |-> At(n.text, -1), st |-> st]
      [] n.kind \in {"Property", "memberaccess"} ->
           LET o == Eval(n.kids[1], st)
           IN  [at |-> At(n.kids[1].text, -2), st |-> o.st]
      [] n.kind \in {"Element", "index"} ->
           LET i == Eval(n.kids[2], st)
           IN  [at |-> At(n.kids[1].text, i.v), st |-> i.st]

(* Read a place, apply, write it back: value before or after.              *)
Update(n, st, op, rhs, after) ==
    LET p == Place(n, st)
        old == Load(p.st, p.at)
        r == Eval(rhs, p.st)
        new == Apply(op, old, r.v)
    IN  Val(IF after THEN new ELSE old, Store(r.st, p.at, new))

EvalArgs(args, st) ==
    IF args = <<>> THEN [vs |-> <<>>, st |-> st]
    ELSE LET a == Eval(args[1], st)
             rest == EvalArgs(Tail(args), a.st)
         IN  [vs |-> << a.v >> \o rest.vs, st |-> rest.st]

EvalBinary(op, l, r, st) ==
    LET a == Eval(l, st)
        b == Eval(r, a.st)
    IN  CASE op = "and" -> IF a.v = 0 THEN a ELSE b
          [] op = "or" -> IF a.v = 0 THEN b ELSE a
          [] OTHER -> Val(Apply(op, a.v, b.v), b.st)

One == [kind |-> "integer", text |-> "1", kids |-> <<>>]
Zero == [kind |-> "integer", text |-> "0", kids |-> <<>>]

Eval(n, st) ==
    CASE n.kind \in {"Numeric", "integer", "float"} -> Val(NumberOf(n.text), st)
      [] n.kind \in {"Identifier", "varref", "Property", "memberaccess",
                     "Element", "index"} ->
           LET p == Place(n, st) IN Val(Load(p.st, p.at), p.st)
      [] n.kind = "OptionalProperty" ->      \* o?.p: nothing of nothing
           LET o == Eval(n.kids[1], st)
           IN  IF o.v = 0 THEN o
               ELSE Val(Load(o.st, At(n.kids[1].text, -2)), o.st)
      [] n.kind \in {"Paren", "TypeOnly"} -> Eval(n.kids[1], st)
      [] n.kind \in {"Prefix", "unaryop"} /\ n.text \in {"-", "negate"} ->
           EvalBinary("sub", Zero, n.kids[1], st)
      [] n.kind \in {"Prefix", "unaryop"} /\ n.text \in {"!", "not"} ->
           EvalBinary("eq", n.kids[1], Zero, st)
      [] n.kind = "Prefix" \/ n.text \in {"preincrement", "predecrement"} ->
           Update(n.kids[1], st,
                  IF n.text \in {"++", "preincrement"} THEN "add" ELSE "sub", One, TRUE)
      [] n.kind \in {"Postfix", "unaryop"} ->
           Update(n.kids[1], st,
                  IF n.text \in {"++", "postincrement"} THEN "add" ELSE "sub", One, FALSE)
      [] n.kind = "Binary" /\ n.text = "=" ->
           LET p == Place(n.kids[1], st)
               r == Eval(n.kids[2], p.st)
           IN  Val(r.v, Store(r.st, p.at, r.v))
      [] n.kind = "Binary" /\ n.text \in {"+=", "-=", ">>="} ->
           Update(n.kids[1], st, JsOp[n.text], n.kids[2], TRUE)
      [] n.kind = "compoundassign" ->
           Update(n.kids[1], st, n.text, n.kids[2], TRUE)
      [] n.kind = "Binary" -> EvalBinary(JsOp[n.text], n.kids[1], n.kids[2], st)
      [] n.kind = "binaryop" -> EvalBinary(n.text, n.kids[1], n.kids[2], st)
      [] n.kind \in {"Conditional", "ternary"} ->
           LET c == Eval(n.kids[1], st)
           IN  Eval(IF c.v # 0 THEN n.kids[2] ELSE n.kids[3], c.st)
      [] n.kind \in {"Call", "call"} ->
           LET r == EvalArgs(n.kids, st)
           IN  Val(Len(r.st.calls), [r.st EXCEPT !.calls = Append(@, r.vs)])
      [] OTHER -> LET r == EvalArgs(n.kids, st) IN Val(0, r.st)

-----------------------------------------------------------------------------
(* Statements end in "next", "break", "continue" or "return".              *)

Ended(how, v, st) == [how |-> how, v |-> v, st |-> st]

RECURSIVE Exec(_, _), Maybe(_, _), ExecList(_, _), Loop(_, _, _, _, _)

ExecList(stmts, st) ==
    IF stmts = <<>> THEN Ended("next", 0, st)
    ELSE LET r == Exec(stmts[1], st)
         IN  IF r.how = "next" THEN ExecList(Tail(stmts), r.st) ELSE r

Nothing(n) == n.kind = "Absent"
Maybe(n, st) == IF Nothing(n) THEN Val(1, st) ELSE Eval(n, st)

Loop(cond, inc, body, st, fuel) ==
    LET c == Maybe(cond, st)
        r == Exec(body, c.st)
    IN  IF fuel = 0 \/ c.v = 0 THEN Ended("next", 0, c.st)
        ELSE CASE r.how = "break" -> Ended("next", 0, r.st)
               [] r.how = "return" -> r
               [] OTHER -> Loop(cond, inc, body, Maybe(inc, r.st).st, fuel - 1)

Exec(n, st) ==
    CASE n.kind \in {"Block", "list"} -> ExecList(n.kids, st)
      [] n.kind = "Variable" -> ExecList(n.kids, st)
      [] n.kind \in {"Declaration", "vardecl"} ->
           LET r == Maybe(n.kids[2], st)
           IN  Ended("next", 0, Store(r.st, At(n.text, -1),
                                      IF Nothing(n.kids[2]) THEN 0 ELSE r.v))
      [] n.kind \in {"Expression", "exprstmt"} ->
           Ended("next", 0, Eval(n.kids[1], st).st)
      [] n.kind = "assign" ->
           LET p == Place(n.kids[1], st)
               r == Eval(n.kids[2], p.st)
           IN  Ended("next", 0, Store(r.st, p.at, r.v))
      [] n.kind \in {"Return", "return"} ->
           LET r == Maybe(n.kids[1], st) IN Ended("return", r.v, r.st)
      [] n.kind \in {"If", "if"} ->
           LET c == Eval(n.kids[1], st)
           IN  IF c.v # 0 THEN Exec(n.kids[2], c.st)
               ELSE IF Nothing(n.kids[3]) THEN Ended("next", 0, c.st)
               ELSE Exec(n.kids[3], c.st)
      [] n.kind \in {"While", "while"} ->
           Loop(n.kids[1], [n EXCEPT !.kind = "Absent"], n.kids[2], st, Fuel)
      [] n.kind \in {"For", "for"} ->
           LET i == IF n.kids[1].kind \in {"Variable", "vardecl", "exprstmt"}
                    THEN Exec(n.kids[1], st).st ELSE Maybe(n.kids[1], st).st
           IN  Loop(n.kids[2], n.kids[3], n.kids[4], i, Fuel)
      [] n.kind \in {"Break", "break"} -> Ended("break", 0, st)
      [] n.kind \in {"Continue", "continue"} -> Ended("continue", 0, st)
      [] OTHER -> Ended("next", 0, st)

(* A call of a function: a parameter that is not among the cells was not   *)
(* passed, and takes its default where it has one.                         *)
Enter(params, st) ==
    FoldLeft(LAMBDA s, p :
        IF Len(p.kids) < 2 \/ At(p.text, -1) \in DOMAIN s.cells \/ Nothing(p.kids[2])
        THEN s
        ELSE LET d == Eval(p.kids[2], s) IN Store(d.st, At(p.text, -1), d.v),
        st, params)

Run(params, stmts, cells) ==
    ExecList(stmts, Enter(params, [cells |-> cells, calls |-> <<>>]))

=============================================================================
