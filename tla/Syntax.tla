-------------------------------- MODULE Syntax --------------------------------
(***************************************************************************)
(* The syntax trees of TypeScript as topo-extract-typescript gets them     *)
(* from the compiler (ts.createSourceFile), as far as it looks at them.    *)
(*                                                                         *)
(* A node has a kind, a text (a name, an operator, a literal) and          *)
(* children, in source order; a child that may be missing is Absent.       *)
(* Kinds of the source are capitalised.  The nodes of the transpile model  *)
(* the tool builds have the same form, so that both can be compared; their *)
(* kinds are the discriminators of the wire format.                        *)
(*                                                                         *)
(* A declaration has a kind, a name, flags, the declarations inside it (of *)
(* a namespace, a class, an export list, a variable statement) and the     *)
(* syntax below it.  A name that is computed, private or missing is "".  A *)
(* namespace A.B { } is A, flagged "dotted", holding just B; a function or *)
(* method with a body is flagged "body".                                   *)
(***************************************************************************)
EXTENDS Naturals, Sequences

CONSTANT MaxHeight      \* how high trees and declarations may grow

ASSUME SyntaxAssumption == MaxHeight \in Nat

Node(kind, text, kids) == [kind |-> kind, text |-> text, kids |-> kids]
Leaf(kind, text) == Node(kind, text, <<>>)
Absent == Leaf("Absent", "")

-----------------------------------------------------------------------------
(* Grammar.  Kinds that are not named here may stand anywhere and hold     *)
(* anything: the tool refuses them wherever it meets them.                 *)

SimpleTypes == {"Number", "Boolean", "String", "Void", "Undefined", "BigInt", "Reference"}
Atoms == {"Numeric", "BigIntLiteral", "StringLiteral", "BooleanLiteral", "Identifier"}

TypeKinds == SimpleTypes \cup {"Array", "Intersection"}
ExprKinds ==
    Atoms \cup {"Paren", "TypeOnly", "Prefix", "Postfix", "Binary", "Conditional",
                "Call", "Property", "OptionalProperty", "Element"}
StmtKinds ==
    {"Variable", "Expression", "Return", "If", "For", "While", "Break", "Continue", "Block"}
PartKinds == {"Declaration", "Parameter", "Pattern", "TypeParameter", "Absent"}

IsType(n) == n.kind \notin ExprKinds \cup StmtKinds \cup PartKinds
IsExpr(n) == n.kind \notin TypeKinds \cup StmtKinds \cup PartKinds
IsStmt(n) == n.kind \notin TypeKinds \cup ExprKinds \cup PartKinds
Missing(n) == n.kind = "Absent"

BinaryOperators ==
    {"+", "-", "*", "/", "%", "**", "==", "===", "!=", "!==", "<", ">", "<=", ">=",
     "&&", "||", "??", "&", "|", "^", "<<", ">>", ">>>", "in", "instanceof", ",",
     "=", "+=", "-=", "*=", "/=", "%=", "**=", "&=", "|=", "^=", "<<=", ">>=",
     ">>>=", "&&=", "||=", "??="}

Exprs(kids, n) == Len(kids) = n /\ \A i \in 1 .. n : IsExpr(kids[i])

IsWellFormed(n) ==
    /\ n.kind \in (SimpleTypes \ {"Reference"}) \cup Atoms \cup {"Break", "Continue", "Pattern"}
         => n.kids = <<>>
    /\ n.kind = "Absent" => n = Absent
    /\ n.kind = "Array" => Len(n.kids) = 1 /\ IsType(n.kids[1])
    /\ n.kind \in {"Intersection", "Reference"} => \A i \in DOMAIN n.kids : IsType(n.kids[i])
    /\ n.kind \in {"Paren", "TypeOnly", "Prefix", "Postfix", "Property",
                   "OptionalProperty", "Expression"} => Exprs(n.kids, 1)
    /\ n.kind = "Postfix" => n.text \in {"++", "--"}
    /\ n.kind = "Binary" => Exprs(n.kids, 2) /\ n.text \in BinaryOperators
    /\ n.kind = "Element" => Exprs(n.kids, 2)
    /\ n.kind = "Conditional" => Exprs(n.kids, 3)
    /\ n.kind = "Call" => n.kids # <<>> /\ Exprs(n.kids, Len(n.kids))
    /\ n.kind = "Return" => Len(n.kids) = 1 /\ (Missing(n.kids[1]) \/ IsExpr(n.kids[1]))
    /\ n.kind = "If" =>
         /\ Len(n.kids) = 3 /\ IsExpr(n.kids[1]) /\ IsStmt(n.kids[2])
         /\ Missing(n.kids[3]) \/ IsStmt(n.kids[3])
    /\ n.kind = "For" =>
         /\ Len(n.kids) = 4
         /\ Missing(n.kids[1]) \/ n.kids[1].kind = "Variable" \/ IsExpr(n.kids[1])
         /\ \A i \in 2 .. 3 : Missing(n.kids[i]) \/ IsExpr(n.kids[i])
         /\ IsStmt(n.kids[4])
    /\ n.kind = "While" => Len(n.kids) = 2 /\ IsExpr(n.kids[1]) /\ IsStmt(n.kids[2])
    /\ n.kind = "Block" => \A i \in DOMAIN n.kids : IsStmt(n.kids[i])
    /\ n.kind = "Variable" => \A i \in DOMAIN n.kids : n.kids[i].kind \in {"Declaration", "Pattern"}
    /\ n.kind \in {"Declaration", "Parameter"} =>
         /\ Len(n.kids) = 2
         /\ Missing(n.kids[1]) \/ IsType(n.kids[1])
         /\ Missing(n.kids[2]) \/ IsExpr(n.kids[2])
    /\ n.kind = "TypeParameter" =>
         Len(n.kids) = 2 /\ \A i \in 1 .. 2 : Missing(n.kids[i]) \/ IsType(n.kids[i])

(* The trees up to each height.                                            *)
TreesOver(trees) ==
    {n \in [kind : STRING, text : STRING, kids : Seq(trees)] : IsWellFormed(n)}

Trees[h \in 0 .. MaxHeight] == IF h = 0 THEN {} ELSE TreesOver(Trees[h - 1])

Nodes == Trees[MaxHeight]

-----------------------------------------------------------------------------
(* Declarations.                                                           *)

Item(kind, name, flags, items, decl) ==
    [kind |-> kind, name |-> name, flags |-> flags, items |-> items, decl |-> decl]

Has(item, flag) == flag \in item.flags

(* A namespace whose body is a block; A.B has another namespace instead.   *)
HasBlock(item) == item.kind = "namespace" /\ ~Has(item, "dotted")

(* The syntax of a function, a class or an interface.  A base is "extends" *)
(* or "implements", by its clause; its children are type arguments.        *)
DeclsOver(nodes) ==
    {d \in [params : Seq(nodes), ret : nodes, typeParams : Seq(nodes), flags : SUBSET STRING,
            body : Seq(nodes), fields : Seq(nodes), bases : Seq(nodes)] :
       /\ \A i \in DOMAIN d.params : d.params[i].kind \in {"Parameter", "Pattern"}
       /\ Missing(d.ret) \/ IsType(d.ret)
       /\ \A i \in DOMAIN d.typeParams : d.typeParams[i].kind = "TypeParameter"
       /\ \A i \in DOMAIN d.body : IsStmt(d.body[i])
       /\ \A i \in DOMAIN d.fields :
            /\ Len(d.fields[i].kids) = 1
            /\ Missing(d.fields[i].kids[1]) \/ IsType(d.fields[i].kids[1])
       /\ \A i \in DOMAIN d.bases :
            \A j \in DOMAIN d.bases[i].kids : IsType(d.bases[i].kids[j])}

Decls == DeclsOver(Nodes)

MemberKinds == {"method", "constructor"}
ListKinds == {"variables", "exportlist", "commonjs"}
PlainKinds == {"function", "interface", "alias"}

(* Only members are private or protected, and not both; a class extends    *)
(* one class at most.                                                      *)
IsWellPlaced(it) ==
    /\ it.kind = "namespace" =>
         /\ \A i \in DOMAIN it.items : it.items[i].kind \notin MemberKinds \cup {"name"}
         /\ Has(it, "dotted") => Len(it.items) = 1 /\ it.items[1].kind = "namespace"
    /\ it.kind = "class" =>
         /\ \A i \in DOMAIN it.items : it.items[i].kind \in MemberKinds
         /\ \A i, j \in DOMAIN it.decl.bases :
              it.decl.bases[i].kind = "extends" /\ it.decl.bases[j].kind = "extends" => i = j
    /\ it.kind \in ListKinds => \A i \in DOMAIN it.items : it.items[i].kind = "name"
    /\ it.kind \in MemberKinds \cup PlainKinds \cup {"name"} => it.items = <<>>
    /\ it.kind \notin MemberKinds => it.flags \cap {"private", "protected"} = {}
    /\ ~(Has(it, "private") /\ Has(it, "protected"))

ItemKinds == {"namespace", "class", "name"} \cup MemberKinds \cup ListKinds \cup PlainKinds

(* Declarations nested up to each depth.                                   *)
ItemsOver(inner) ==
    {it \in [kind : ItemKinds, name : STRING, flags : SUBSET STRING,
             items : Seq(inner), decl : Decls] : IsWellPlaced(it)}

Nested[h \in 0 .. MaxHeight] == IF h = 0 THEN {} ELSE ItemsOver(Nested[h - 1])

(* What a file may hold: statements.                                       *)
Items == Nested[MaxHeight]
Statements == {items \in Seq(Items) :
                 \A i \in DOMAIN items : items[i].kind \notin MemberKinds \cup {"name"}}

=============================================================================
