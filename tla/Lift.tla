--------------------------------- MODULE Lift ---------------------------------
(***************************************************************************)
(* The pure part of topo-extract-typescript (src/topo-check/extractor/     *)
(* index.mjs) in transpile mode: a TypeScript function in, a node tree of  *)
(* the transpile model and the list of what could not be expressed out.    *)
(*                                                                         *)
(* Kinds of the source are capitalised, kinds of the model are the         *)
(* discriminators of the wire format; the kind of a literal is its         *)
(* litKind, and "list" holds the statements of a body.                     *)
(***************************************************************************)
EXTENDS Syntax, SequencesExt

(* What a lift returns: the model and the notes FnLift collects.           *)
Result(model, notes) == [model |-> model, notes |-> notes]

(* The note is forgotten.                                                  *)
RefusedQuietly(why) == Result(Leaf("unsupported", why), <<>>)

(* lift.note(why) and an unsupported expression in the node's place.       *)
Refused(why) == Result(Leaf("unsupported", why), << why >>)

(* Results of the parts of a node, put together.                           *)
Models(results) == [i \in DOMAIN results |-> results[i].model]
AllNotes(results) == FlattenSeq([i \in DOMAIN results |-> results[i].notes])
Built(kind, text, results) ==
    Result(Node(kind, text, Models(results)), AllNotes(results))

-----------------------------------------------------------------------------
(* Types.                                                                  *)

TypeNames ==
    [Number |-> "f64", Boolean |-> "bool", String |-> "string", Void |-> "void",
     Undefined |-> "void", BigInt |-> "i64", Absent |-> "void"]

(* One level of a lift, by what it makes of the nodes below.               *)
TypeBy(lift, t) ==
    CASE t.kind \in DOMAIN TypeNames ->
           Result(Leaf("type", TypeNames[t.kind]), <<>>)
      [] t.kind = "Array" -> Built("type", "slice", << lift[t.kids[1]] >>)
      [] t.kind = "Reference" -> Result(Leaf("type", t.text), <<>>)
      [] OTHER -> Result(Leaf("type", t.kind), << "type annotation" >>)

TypeFromNode[t \in Nodes] == TypeBy(TypeFromNode, t)

(* A type parameter has a bound (several, of an intersection) and a        *)
(* default, each of them optional.                                         *)
LiftTypeParam(tp) ==
    LET bounds == CASE tp.kids[1] = Absent -> <<>>
                    [] tp.kids[1].kind = "Intersection" -> tp.kids[1].kids
                    [] OTHER -> << tp.kids[1] >>
        types == IF tp.kids[2] = Absent THEN bounds ELSE Append(bounds, tp.kids[2])
    IN  Built("templateparam", tp.text,
              [i \in DOMAIN types |-> TypeFromNode[types[i]]])

-----------------------------------------------------------------------------
(* Expressions.                                                            *)

BINOP ==
    [op \in {"+", "-", "*", "/", "%", "==", "===", "!=", "!==", "<", ">", "<=", ">=",
             "&&", "||", "&", "|", "^", "<<", ">>", ">>>"} |->
       CASE op = "+" -> "add"      [] op = "-" -> "sub"     [] op = "*" -> "mul"
         [] op = "/" -> "div"      [] op = "%" -> "mod"
         [] op \in {"==", "==="} -> "eq"    [] op \in {"!=", "!=="} -> "noteq"
         [] op = "<" -> "less"     [] op = ">" -> "greater"
         [] op = "<=" -> "lesseq"  [] op = ">=" -> "greatereq"
         [] op = "&&" -> "and"     [] op = "||" -> "or"
         [] op = "&" -> "bitand"   [] op = "|" -> "bitor"   [] op = "^" -> "bitxor"
         [] op = "<<" -> "shl"     [] op \in {">>", ">>>"} -> "shr"]

COMPOUND ==
    [op \in {"+=", "-=", "*=", "/=", "%=", "&=", "|=", "^=", "<<=", ">>="} |->
       CASE op = "+=" -> "add"     [] op = "-=" -> "sub"    [] op = "*=" -> "mul"
         [] op = "/=" -> "div"     [] op = "%=" -> "mod"
         [] op = "&=" -> "bitand"  [] op = "|=" -> "bitor"  [] op = "^=" -> "bitxor"
         [] op = "<<=" -> "shl"    [] op = ">>=" -> "shr"]

COMPOUND_BASE_OPS == Range(COMPOUND)

PREFIX ==
    [op \in {"-", "!", "~", "++", "--"} |->
       CASE op = "-" -> "negate" [] op = "!" -> "not" [] op = "~" -> "bitnot"
         [] op = "++" -> "preincrement" [] op = "--" -> "predecrement"]

POSTFIX ==
    [op \in {"++", "--"} |-> IF op = "++" THEN "postincrement" ELSE "postdecrement"]

(* Numbers with a radix are integers whatever letters their digits hold.   *)
RadixTexts == {"0x1E", "0b10", "0o17"}
PointTexts == {"1.5", "1e3", "0x1E"}     \* texts with one of . e E

LitKind(text) ==
    IF text \notin RadixTexts /\ text \in PointTexts THEN "float" ELSE "integer"

(* The left operand need not be the target.                                *)
IsUpdateByAny(n) ==
    n.kids[2].kind = "Binary" /\ n.kids[2].text \in DOMAIN BINOP
      /\ BINOP[n.kids[2].text] \in COMPOUND_BASE_OPS

(* `x = x <op> rhs` in expression position, the target compared by text.   *)
IsSelfUpdate(n) ==
    LET target == n.kids[1]
        rhs == n.kids[2]
    IN  /\ rhs.kind = "Binary"
        /\ rhs.text \in DOMAIN BINOP
        /\ BINOP[rhs.text] \in COMPOUND_BASE_OPS
        /\ rhs.kids[1] = target

ExprBy(lift, n) ==
    LET kept(kind, text) ==
            Built(kind, text, [i \in DOMAIN n.kids |-> lift[n.kids[i]]])
        literal(kind) == Result(Leaf(kind, n.text), <<>>)
    IN  CASE n.kind = "Numeric" -> literal(LitKind(n.text))
          [] n.kind = "BigIntLiteral" -> literal("integer")
          [] n.kind = "StringLiteral" -> literal("string")
          [] n.kind = "BooleanLiteral" -> literal("boolean")
          [] n.kind = "Identifier" -> literal("varref")
          [] n.kind \in {"Paren", "TypeOnly"} -> lift[n.kids[1]]
          [] n.kind = "Prefix" /\ n.text \in DOMAIN PREFIX ->
               kept("unaryop", PREFIX[n.text])
          [] n.kind = "Postfix" -> kept("unaryop", POSTFIX[n.text])
          [] n.kind = "Binary" /\ n.text = "=" ->
               IF IsSelfUpdate(n)
               THEN Built("compoundassign", BINOP[n.kids[2].text],
                          << lift[n.kids[1]], lift[n.kids[2].kids[2]] >>)
               ELSE Refused("assignment used as expression")
          [] n.kind = "Binary" /\ n.text \in DOMAIN COMPOUND ->
               kept("compoundassign", COMPOUND[n.text])
          [] n.kind = "Binary" /\ n.text \in DOMAIN BINOP ->
               kept("binaryop", BINOP[n.text])
          [] n.kind = "Conditional" -> kept("ternary", "")
          [] n.kind = "Call" ->        \* the callee is kept as source text
               LET args == [i \in 1 .. Len(n.kids) - 1 |-> lift[n.kids[i + 1]]]
               IN  Built("call", "", << Result(n.kids[1], <<>>) >> \o args)
          [] n.kind \in {"Property", "OptionalProperty"} ->
               kept("memberaccess", n.text)
          [] n.kind = "Element" -> kept("index", "")
          [] OTHER -> Refused(n.kind)

LiftExpr[n \in Nodes] == ExprBy(LiftExpr, n)

LiftOptional(n) == IF n = Absent THEN Result(Absent, <<>>) ELSE LiftExpr[n]

-----------------------------------------------------------------------------
(* Statements.                                                             *)

RefusedStmt(why) ==
    Result(Node("exprstmt", "", << Leaf("unsupported", why) >>), << why >>)

LiftVar(decls) ==
    IF Len(decls) # 1 THEN RefusedStmt("multi-binding variable declaration")
    ELSE IF decls[1].kind = "Pattern" THEN RefusedStmt("destructuring declaration")
    ELSE Built("vardecl", decls[1].text,
               << TypeFromNode[decls[1].kids[1]], LiftOptional(decls[1].kids[2]) >>)

ListBy(lift, stmts) ==
    Built("list", "", [i \in DOMAIN stmts |-> lift[stmts[i]]])
BranchBy(lift, n) == ListBy(lift, IF n.kind = "Block" THEN n.kids ELSE << n >>)

(* A bare block is refused as well.                                        *)
StmtBy(lift, n) ==
    CASE n.kind = "Variable" -> LiftVar(n.kids)
      [] n.kind = "Expression" ->
           LET e == n.kids[1]
           IN  IF e.kind = "Binary" /\ e.text = "="
               THEN Built("assign", "", << LiftExpr[e.kids[1]], LiftExpr[e.kids[2]] >>)
               ELSE Built("exprstmt", "", << LiftExpr[e] >>)
      [] n.kind = "Return" -> Built("return", "", << LiftOptional(n.kids[1]) >>)
      [] n.kind = "If" ->
           Built("if", "", << LiftExpr[n.kids[1]], BranchBy(lift, n.kids[2]),
             IF n.kids[3] = Absent THEN Result(Absent, <<>>)
                                   ELSE BranchBy(lift, n.kids[3]) >>)
      [] n.kind = "For" ->
           LET init == n.kids[1]
           IN  Built("for", "",
                 << CASE init = Absent -> Result(Absent, <<>>)
                      [] init.kind = "Variable" -> LiftVar(init.kids)
                      [] OTHER -> Built("exprstmt", "", << LiftExpr[init] >>),
                    LiftOptional(n.kids[2]), LiftOptional(n.kids[3]),
                    BranchBy(lift, n.kids[4]) >>)
      [] n.kind = "While" ->
           Built("while", "", << LiftExpr[n.kids[1]], BranchBy(lift, n.kids[2]) >>)
      [] n.kind = "Break" -> Result(Leaf("break", ""), <<>>)
      [] n.kind = "Continue" -> Result(Leaf("continue", ""), <<>>)
      [] OTHER -> RefusedStmt(n.kind)

LiftStmt[n \in Nodes] == StmtBy(LiftStmt, n)

-----------------------------------------------------------------------------
(* Functions.  A declaration has parameters (Leaf "Pattern" for one that   *)
(* is destructured; the others have a type and, optionally, a default), a  *)
(* return type, type parameters, flags and a body.                         *)

LiftParam(p) ==
    IF p.kind = "Pattern"
    THEN Result(Node("param", "_arg", << Leaf("type", "auto") >>),
                << "destructured parameter" >>)
    ELSE Built("param", p.text, << TypeFromNode[p.kids[1]] >>)

Fidelity(notes) == IF notes = <<>> THEN "source" ELSE "inferred"

LiftFunction(qname, decl) ==
    LET ret == TypeFromNode[decl.ret]
        params == [i \in DOMAIN decl.params |-> LiftParam(decl.params[i])]
        tps == [i \in DOMAIN decl.typeParams |-> LiftTypeParam(decl.typeParams[i])]
        body == ListBy(LiftStmt, decl.body)
        notes == ret.notes \o AllNotes(params)
                 \o (IF "async" \in decl.flags THEN << "async function" >> ELSE <<>>)
                 \o AllNotes(tps) \o body.notes
    IN  [qualifiedName |-> qname, returnType |-> ret.model,
         params |-> Models(params), templateParams |-> Models(tps),
         body |-> body.model, unsupported |-> notes, fidelity |-> Fidelity(notes)]

=============================================================================
