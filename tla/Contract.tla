------------------------------- MODULE Contract -------------------------------
(***************************************************************************)
(* What topo-extract-typescript owes the file it is given, worked out from *)
(* the trees and not from the walks of Declarations and Lift: which        *)
(* constructs have no counterpart in what it answers, which types and      *)
(* which exported symbols a file has; and, named one by one, what it       *)
(* drops of them in silence.                                               *)
(***************************************************************************)
EXTENDS Declarations

(* Every node below n, with its parent.                                    *)
LinksBy(links, n, indices) ==
    UNION {{<< n.kids[i], n >>} \cup links[n.kids[i]] : i \in indices}
Links[n \in Nodes] == LinksBy(Links, n, DOMAIN n.kids)

(* Those a lift looks at: the callee of a call goes over as text, the      *)
(* default of a parameter and the type arguments of a reference not at all *)
(* (index.mjs:304, 690, 104).                                              *)
Seen(n) ==
    CASE n.kind = "Call" -> 2 .. Len(n.kids)
      [] n.kind = "Parameter" -> {1}
      [] n.kind = "Reference" -> {}
      [] OTHER -> DOMAIN n.kids
SeenLinks[n \in Nodes] == LinksBy(SeenLinks, n, Seen(n))

Top == Leaf("Function", "")
Roots(decl) ==
    Range(decl.params) \cup Range(decl.typeParams) \cup Range(decl.body) \cup {decl.ret}
LinksOf(decl) == UNION {{<< n, Top >>} \cup Links[n] : n \in Roots(decl)}
SeenLinksOf(decl) == UNION {{<< n, Top >>} \cup SeenLinks[n] : n \in Roots(decl)}

-----------------------------------------------------------------------------
(* What the answer has a node for that means the same.                     *)

Expressible ==
    {"Numeric", "BigIntLiteral", "StringLiteral", "BooleanLiteral", "Identifier",
     "Paren", "TypeOnly", "Postfix", "Conditional", "Call", "Property", "Element",
     "Expression", "Return", "If", "For", "While", "Break", "Continue",
     "Number", "Boolean", "String", "Void", "Undefined", "BigInt", "Array",
     "Declaration", "TypeParameter", "Absent"}

InexpressibleOperators ==
    {"**", "??", ">>>", "in", "instanceof", ",", "**=", ">>>=", "&&=", "||=", "??="}

(* The operators with a compound form.                                     *)
UpdateOperators == {"+", "-", "*", "/", "%", "&", "|", "^", "<<", ">>", ">>>"}

(* An assignment has a node as a statement; as a value it has one only as  *)
(* a self-update by an operator that has a compound form.  A list of types *)
(* (A & B) is a bound and nothing else.  A parameter has no default, and a *)
(* reference no type arguments.                                            *)
IsInexpressible(n, parent) ==
    CASE n.kind = "Prefix" -> n.text \notin {"-", "!", "~", "++", "--"}
      [] n.kind = "Binary" /\ n.text = "=" ->
           /\ parent.kind # "Expression"
           /\ ~(/\ n.kids[2].kind = "Binary" /\ n.kids[2].text \in UpdateOperators
                /\ n.kids[2].kids[1] = n.kids[1])
      [] n.kind = "Binary" /\ n.text # "=" -> n.text \in InexpressibleOperators
      [] n.kind = "Variable" -> Len(n.kids) # 1 \/ n.kids[1].kind = "Pattern"
      [] n.kind = "Block" -> parent.kind \notin {"If", "For", "While"}
      [] n.kind = "Intersection" -> parent.kind # "TypeParameter" \/ parent.kids[2] = n
      [] n.kind = "Parameter" -> n.kids[2] # Absent
      [] n.kind = "Reference" -> n.kids # <<>>
      [] OTHER -> n.kind \notin Expressible

(* What the lift drops in silence, although index.mjs:22-26 says that      *)
(* nothing is: an unsigned shift becomes a signed one (146), an optional   *)
(* access a plain one (308), and a default (690) and type arguments (104)  *)
(* are not looked at.                                                      *)
IsOverlooked(n) ==
    \/ n.kind = "Binary" /\ n.text = ">>>"
    \/ n.kind = "OptionalProperty"
    \/ n.kind = "Parameter" /\ n.kids[2] # Absent
    \/ n.kind = "Reference" /\ n.kids # <<>>

IsRecorded(fn, decl) ==
    LET recorded == fn.unsupported # <<>>
    IN  /\ fn.fidelity = "inferred" <=> recorded
        /\ recorded => \/ "async" \in decl.flags
                       \/ \E link \in LinksOf(decl) : IsInexpressible(link[1], link[2])
        /\ "async" \in decl.flags => recorded
        /\ \A link \in SeenLinksOf(decl) :
             IsInexpressible(link[1], link[2]) => recorded \/ IsOverlooked(link[1])

-----------------------------------------------------------------------------
(* Declarations from the inside out: a chain is a declaration with all     *)
(* that enclose it, outermost first.                                       *)

ChainsBy(chains, it) ==
    {<< it >>} \cup {<< it >> \o c : c \in UNION {chains[it.items[i]] : i \in DOMAIN it.items}}
Chains[it \in Items] == ChainsBy(Chains, it)
ChainsOf(items) == UNION {Chains[items[i]] : i \in DOMAIN items}

NamesIn(c) == [i \in DOMAIN c |-> c[i].name]

(* A namespace A.B { } is not looked into, though it is A with B in it     *)
(* (index.mjs:466, 607, 995).                                              *)
InDotted(c) == \E i \in DOMAIN c : c[i].kind = "namespace" /\ Has(c[i], "dotted")

(* The classes and interfaces with a name, in namespaces at any depth.     *)
TypesIn(items) ==
    {c \in ChainsOf(items) :
       /\ Last(c).kind \in {"class", "interface"} /\ Last(c).name # ""
       /\ \A i \in 1 .. Len(c) - 1 : c[i].kind = "namespace"}

(* In A.B { } it is A that says whether it is exported.                    *)
IsOpen(c, i) ==
    /\ c[i].kind = "namespace" /\ ~Has(c[i], "string") /\ ~Has(c[i], "declare")
    /\ Has(c[i], "export") \/ (i > 1 /\ Has(c[i - 1], "dotted"))

(* Those that must be exported for the last of a chain to be a symbol.     *)
IsVisible(c) ==
    LET it == Last(c)
        n == Len(c)
        parent == IF n > 1 THEN c[n - 1] ELSE it
        reached(k) == \A i \in 1 .. k : IsOpen(c, i)
        public(x) == Has(x, "export") /\ ~Has(x, "declare")
    IN  /\ it.name # ""
        /\ CASE it.kind \in {"function", "class", "interface", "alias"} ->
                  reached(n - 1) /\ public(it)
             [] it.kind \in {"method", "constructor"} ->
                  /\ parent.kind = "class" /\ parent.name # "" /\ public(parent)
                  /\ reached(n - 2)
             [] it.kind = "name" ->
                  /\ reached(n - 2)
                  /\ ~Has(parent, "declare")
                  /\ parent.kind = "variables" => Has(parent, "export")
             [] OTHER -> FALSE

(* A variable belongs to the namespace its statement is in; what CommonJS  *)
(* exports belongs to none.                                                *)
QualifiedNameOf(c) ==
    LET n == Len(c)
    IN  IF Last(c).kind # "name" THEN NamesIn(c)
        ELSE IF c[n - 1].kind = "commonjs" THEN << Last(c).name >>
        ELSE Append(NamesIn(SubSeq(c, 1, n - 2)), Last(c).name)

(* A symbol's qualified name, its class and its visibility.                *)
Described(c) ==
    << QualifiedNameOf(c),
       IF Last(c).kind \in {"method", "constructor"} THEN NamesIn(Front(c)) ELSE <<>>,
       IF Has(Last(c), "private") THEN "private"
       ELSE IF Has(Last(c), "protected") THEN "protected" ELSE "public" >>

Exported(items) == {c \in ChainsOf(items) : IsVisible(c)}

=============================================================================
