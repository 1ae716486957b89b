---------------------------- MODULE ContractProofs ----------------------------
(***************************************************************************)
(* Theorems about the walks and lifts of topo-extract-typescript: over     *)
(* every declaration they record and find exactly what Contract says they  *)
(* owe. The trees have no bound but MaxHeight, which is any natural        *)
(* number.                                                                 *)
(*                                                                         *)
(* Trees are built by height, so a fact about all trees is proved by       *)
(* induction over the height, as the search for a least counterexample;    *)
(* that the recursive functions of Lift, Declarations and Contract are     *)
(* what their equations say is proved the same way, since a CHOOSE says    *)
(* nothing of a function until one is known to exist.                      *)
(***************************************************************************)
EXTENDS Contract, SequenceLemmas, FiniteSetTheorems

USE SyntaxAssumption DEF SyntaxAssumption

-----------------------------------------------------------------------------
(* Trees by their height.                                                  *)

IsTrees(f, N) ==
    /\ f = [h \in 0 .. N |-> f[h]]
    /\ \A h \in 0 .. N : f[h] = IF h = 0 THEN {} ELSE TreesOver(f[h - 1])

LEMMA TreesExist == IsTrees(Trees, MaxHeight)
<1> DEFINE T == {k \in Nat : \E f : IsTrees(f, k)}
<1>1. 0 \in T
  <2>1. IsTrees([h \in 0 .. 0 |-> {}], 0)
      BY DEF IsTrees
  <2>. QED BY <2>1
<1>2. ASSUME NEW k \in Nat, k \in T PROVE k + 1 \in T
  <2>1. PICK f : IsTrees(f, k)
      BY <1>2
  <2> DEFINE g == [h \in 0 .. k + 1 |-> IF h = k + 1 THEN TreesOver(f[k]) ELSE f[h]]
  <2>2. ASSUME NEW h \in 0 .. k + 1
        PROVE  g[h] = IF h = 0 THEN {} ELSE TreesOver(g[h - 1])
    <3>1. CASE h = k + 1
        BY <3>1
    <3>2. CASE h \in 0 .. k
      <4>1. f[h] = IF h = 0 THEN {} ELSE TreesOver(f[h - 1])
          BY <2>1, <3>2 DEF IsTrees
      <4>2. g[h] = f[h] /\ (h # 0 => g[h - 1] = f[h - 1])
          BY <3>2
      <4>. QED BY <4>1, <4>2
    <3>. QED BY <3>1, <3>2
  <2>3. g = [h \in 0 .. k + 1 |-> g[h]]
      OBVIOUS
  <2>4. IsTrees(g, k + 1)
    <3> HIDE DEF g
    <3>. QED BY <2>2, <2>3 DEF IsTrees
  <2>. QED BY <2>4
<1>3. Nat \subseteq T
  <2> HIDE DEF T
  <2>. QED BY <1>1, <1>2, Reaches
<1>4. PICK f : IsTrees(f, MaxHeight)
    BY <1>3
<1>5. f = [h \in 0 .. MaxHeight |-> IF h = 0 THEN {} ELSE TreesOver(f[h - 1])]
    BY <1>4 DEF IsTrees
<1>6. Trees = [h \in 0 .. MaxHeight |-> IF h = 0 THEN {} ELSE TreesOver(Trees[h - 1])]
    BY <1>5 DEF Trees
<1>. QED BY <1>6 DEF IsTrees

LEMMA TreesByHeight ==
    /\ Trees[0] = {}
    /\ \A h \in 1 .. MaxHeight : Trees[h] = TreesOver(Trees[h - 1])
<1>1. 0 \in 0 .. MaxHeight /\ \A h \in 1 .. MaxHeight : h \in 0 .. MaxHeight /\ h # 0
    OBVIOUS
<1>. QED BY <1>1, TreesExist DEF IsTrees

LEMMA TreesOverGrows ==
    ASSUME NEW S, NEW T, S \subseteq T
    PROVE  TreesOver(S) \subseteq TreesOver(T)
BY DEF TreesOver

LEMMA TreesGrow == \A k \in Nat : k + 1 <= MaxHeight => Trees[k] \subseteq Trees[k + 1]
<1> DEFINE T == {k \in Nat : k + 1 <= MaxHeight => Trees[k] \subseteq Trees[k + 1]}
<1>1. 0 \in T
    BY TreesByHeight
<1>2. ASSUME NEW k \in Nat, k \in T PROVE k + 1 \in T
  <2> SUFFICES ASSUME (k + 1) + 1 <= MaxHeight PROVE Trees[k + 1] \subseteq Trees[(k + 1) + 1]
      OBVIOUS
  <2>1. Trees[k] \subseteq Trees[k + 1]
      BY <1>2
  <2>2. /\ k + 1 \in 1 .. MaxHeight /\ (k + 1) + 1 \in 1 .. MaxHeight
        /\ (k + 1) - 1 = k /\ ((k + 1) + 1) - 1 = k + 1
      OBVIOUS
  <2>3. Trees[k + 1] = TreesOver(Trees[k]) /\ Trees[(k + 1) + 1] = TreesOver(Trees[k + 1])
      BY <2>2, TreesByHeight
  <2>. QED BY <2>1, <2>3, TreesOverGrows
<1>3. Nat \subseteq T
  <2> HIDE DEF T
  <2>. QED BY <1>1, <1>2, Reaches
<1>. QED BY <1>3

(* What a tree is, and that its parts are trees one level lower.           *)
LEMMA TreeParts ==
    ASSUME NEW k \in Nat, k + 1 <= MaxHeight, NEW n \in Trees[k + 1]
    PROVE  /\ n.kids \in Seq(Trees[k]) /\ n.kind \in STRING /\ n.text \in STRING
           /\ n = Node(n.kind, n.text, n.kids)
           /\ IsWellFormed(n)
<1>1. k + 1 \in 1 .. MaxHeight /\ (k + 1) - 1 = k
    OBVIOUS
<1>2. n \in TreesOver(Trees[k])
    BY <1>1, TreesByHeight
<1>. QED BY <1>2 DEF TreesOver, Node

LEMMA TreesAreNodes == \A k \in Nat : k <= MaxHeight => Trees[k] \subseteq Nodes
<1> DEFINE T == {k \in Nat : k <= MaxHeight => Trees[MaxHeight - k] \subseteq Nodes}
<1>1. 0 \in T
    BY DEF Nodes
<1>2. ASSUME NEW k \in Nat, k \in T PROVE k + 1 \in T
  <2> SUFFICES ASSUME k + 1 <= MaxHeight PROVE Trees[MaxHeight - (k + 1)] \subseteq Nodes
      OBVIOUS
  <2> DEFINE j == MaxHeight - (k + 1)
  <2>1. j \in Nat /\ j + 1 <= MaxHeight /\ j + 1 = MaxHeight - k
      OBVIOUS
  <2>2. Trees[j] \subseteq Trees[j + 1]
      BY <2>1, TreesGrow
  <2>. QED BY <1>2, <2>1, <2>2
<1>3. Nat \subseteq T
  <2> HIDE DEF T
  <2>. QED BY <1>1, <1>2, Reaches
<1>4. ASSUME NEW k \in Nat, k <= MaxHeight PROVE Trees[k] \subseteq Nodes
  <2>1. MaxHeight - k \in T /\ MaxHeight - (MaxHeight - k) = k
      BY <1>3, <1>4
  <2>. QED BY <2>1
<1>. QED BY <1>4

(* Induction over trees.                                                   *)
LEMMA TreeInduction ==
    ASSUME NEW T,
           \A n \in Nodes : n.kids \in Seq(Nodes \cap T) => n \in T
    PROVE  Nodes \subseteq T
<1> DEFINE H == {k \in Nat : k <= MaxHeight => Trees[k] \subseteq T}
<1>1. 0 \in H
    BY TreesByHeight
<1>2. ASSUME NEW k \in Nat, k \in H PROVE k + 1 \in H
  <2> SUFFICES ASSUME k + 1 <= MaxHeight, NEW n \in Trees[k + 1] PROVE n \in T
      OBVIOUS
  <2>1. n \in Nodes /\ Trees[k] \subseteq Nodes \cap T
      BY <1>2, TreesAreNodes
  <2>2. n.kids \in Seq(Nodes \cap T)
      BY <2>1, TreeParts
  <2>. QED BY <2>1, <2>2
<1>3. Nat \subseteq H
  <2> HIDE DEF H
  <2>. QED BY <1>1, <1>2, Reaches
<1>. QED BY <1>3 DEF Nodes

LEMMA NodeParts ==
    ASSUME NEW n \in Nodes
    PROVE  /\ n.kids \in Seq(Nodes) /\ n.kind \in STRING /\ n.text \in STRING
           /\ n = Node(n.kind, n.text, n.kids)
           /\ IsWellFormed(n)
<1>1. CASE MaxHeight = 0
    BY <1>1, TreesByHeight DEF Nodes
<1>2. CASE MaxHeight # 0
  <2> DEFINE k == MaxHeight - 1
  <2>1. k \in Nat /\ k + 1 = MaxHeight /\ k <= MaxHeight
      BY <1>2
  <2>2. n \in Trees[k + 1]
      BY <2>1 DEF Nodes
  <2>3. Trees[k] \subseteq Nodes
      BY <2>1, TreesAreNodes
  <2> HIDE DEF k
  <2>. QED BY <2>1, <2>2, <2>3, TreeParts
<1>. QED BY <1>1, <1>2

(* The parts of the parts of a tree are trees of its parts' height.        *)
LEMMA TreesClosed ==
    \A k \in Nat : k <= MaxHeight => \A n \in Trees[k] : n.kids \in Seq(Trees[k])
<1> SUFFICES ASSUME NEW k \in Nat, k <= MaxHeight, NEW n \in Trees[k]
             PROVE  n.kids \in Seq(Trees[k])
    OBVIOUS
<1>1. k # 0
    BY TreesByHeight
<1>2. PICK j \in Nat : k = j + 1 /\ j + 1 <= MaxHeight
  <2>1. k - 1 \in Nat /\ k = (k - 1) + 1
      BY <1>1
  <2>. QED BY <2>1
<1>3. n.kids \in Seq(Trees[j]) /\ Trees[j] \subseteq Trees[k]
    BY <1>2, TreeParts, TreesGrow
<1>. QED BY <1>3

-----------------------------------------------------------------------------
(* The recursive functions of Lift exist: what they make of a tree depends *)
(* on what they make of its parts.                                         *)

LEMMA TypeFromNodeLocal ==
    ASSUME NEW k \in Nat, k + 1 <= MaxHeight, NEW n \in Trees[k + 1],
           NEW f, NEW g, \A c \in Trees[k] : g[c] = f[c]
    PROVE  TypeBy(f, n) = TypeBy(g, n)
<1>1. n.kids \in Seq(Trees[k]) /\ IsWellFormed(n)
    BY TreeParts
<1>2. n.kind = "Array" => f[n.kids[1]] = g[n.kids[1]]
    BY <1>1 DEF IsWellFormed
<1>. QED BY <1>2 DEF TypeBy

IsTypeFromNode(f, k) ==
    /\ f = [n \in Trees[k] |-> f[n]]
    /\ \A n \in Trees[k] : f[n] = TypeBy(f, n)

LEMMA TypeFromNodeExists == IsTypeFromNode(TypeFromNode, MaxHeight)
<1> DEFINE T == {k \in Nat : k <= MaxHeight => \E f : IsTypeFromNode(f, k)}
<1>1. 0 \in T
  <2>1. Trees[0] = {}
      BY TreesByHeight
  <2>2. IsTypeFromNode([n \in Trees[0] |-> 0], 0)
      BY <2>1 DEF IsTypeFromNode
  <2>. QED BY <2>2
<1>2. ASSUME NEW k \in Nat, k \in T PROVE k + 1 \in T
  <2> SUFFICES ASSUME k + 1 <= MaxHeight PROVE \E g : IsTypeFromNode(g, k + 1)
      OBVIOUS
  <2>1. PICK f : IsTypeFromNode(f, k)
      BY <1>2
  <2> DEFINE g == [n \in Trees[k + 1] |-> TypeBy(f, n)]
  <2>2. Trees[k] \subseteq Trees[k + 1]
      BY TreesGrow
  <2>3. \A n \in Trees[k] : g[n] = f[n]
      BY <2>1, <2>2 DEF IsTypeFromNode
  <2>4. g = [n \in Trees[k + 1] |-> g[n]] /\ \A n \in Trees[k + 1] : g[n] = TypeBy(f, n)
      OBVIOUS
  <2> HIDE DEF g
  <2>5. \A n \in Trees[k + 1] : TypeBy(f, n) = TypeBy(g, n)
      BY <2>3, TypeFromNodeLocal
  <2>6. \A n \in Trees[k + 1] : g[n] = TypeBy(g, n)
      BY <2>4, <2>5
  <2>7. IsTypeFromNode(g, k + 1)
      BY <2>4, <2>6 DEF IsTypeFromNode
  <2>. QED BY <2>7
<1>3. MaxHeight \in T
  <2>1. Nat \subseteq T
    <3> HIDE DEF T
    <3>. QED BY <1>1, <1>2, Reaches
  <2>. QED BY <2>1
<1>4. PICK f : IsTypeFromNode(f, MaxHeight)
    BY <1>3
<1>5. f = [n \in Nodes |-> TypeBy(f, n)]
    BY <1>4 DEF IsTypeFromNode, Nodes
<1>6. TypeFromNode = [n \in Nodes |-> TypeBy(TypeFromNode, n)]
    BY <1>5 DEF TypeFromNode
<1>. QED BY <1>6 DEF IsTypeFromNode, Nodes

LEMMA TypeFromNodeIs ==
    /\ TypeFromNode = [n \in Nodes |-> TypeFromNode[n]]
    /\ \A n \in Nodes : TypeFromNode[n] = TypeBy(TypeFromNode, n)
BY TypeFromNodeExists DEF IsTypeFromNode, Nodes

LEMMA LiftExprLocal ==
    ASSUME NEW k \in Nat, k + 1 <= MaxHeight, NEW n \in Trees[k + 1],
           NEW f, NEW g, \A c \in Trees[k] : g[c] = f[c]
    PROVE  ExprBy(f, n) = ExprBy(g, n)
<1>1. n.kids \in Seq(Trees[k]) /\ IsWellFormed(n)
    BY TreeParts
<1>2. \A i \in DOMAIN n.kids : n.kids[i] \in Trees[k] /\ f[n.kids[i]] = g[n.kids[i]]
    BY <1>1
<1>3. [i \in DOMAIN n.kids |-> f[n.kids[i]]] = [i \in DOMAIN n.kids |-> g[n.kids[i]]]
    BY <1>2
<1>4. n.kind \in {"Paren", "TypeOnly", "Binary"} => f[n.kids[1]] = g[n.kids[1]]
    BY <1>1, <1>2 DEF IsWellFormed, Exprs
<1>5. n.kind = "Binary" /\ IsSelfUpdate(n) => f[n.kids[2].kids[2]] = g[n.kids[2].kids[2]]
  <2> SUFFICES ASSUME n.kind = "Binary", IsSelfUpdate(n)
               PROVE  f[n.kids[2].kids[2]] = g[n.kids[2].kids[2]]
      OBVIOUS
  <2>1. n.kids[2] \in Trees[k] /\ n.kids[2].kind = "Binary"
      BY <1>1, <1>2 DEF IsWellFormed, Exprs, IsSelfUpdate
  <2>2. n.kids[2].kids \in Seq(Trees[k])
      BY <2>1, TreesClosed
  <2>3. n.kids[2] \in Nodes
      BY <2>1, TreesAreNodes
  <2>4. Len(n.kids[2].kids) = 2
      BY <2>1, <2>3, NodeParts DEF IsWellFormed, Exprs
  <2>. QED BY <2>2, <2>4
<1>6. n.kind = "Call" =>
        [i \in 1 .. Len(n.kids) - 1 |-> f[n.kids[i + 1]]]
          = [i \in 1 .. Len(n.kids) - 1 |-> g[n.kids[i + 1]]]
    BY <1>1, <1>2
<1>. QED BY <1>3, <1>4, <1>5, <1>6 DEF ExprBy

IsLiftExpr(f, k) ==
    /\ f = [n \in Trees[k] |-> f[n]]
    /\ \A n \in Trees[k] : f[n] = ExprBy(f, n)

LEMMA LiftExprExists == IsLiftExpr(LiftExpr, MaxHeight)
<1> DEFINE T == {k \in Nat : k <= MaxHeight => \E f : IsLiftExpr(f, k)}
<1>1. 0 \in T
  <2>1. Trees[0] = {}
      BY TreesByHeight
  <2>2. IsLiftExpr([n \in Trees[0] |-> 0], 0)
      BY <2>1 DEF IsLiftExpr
  <2>. QED BY <2>2
<1>2. ASSUME NEW k \in Nat, k \in T PROVE k + 1 \in T
  <2> SUFFICES ASSUME k + 1 <= MaxHeight PROVE \E g : IsLiftExpr(g, k + 1)
      OBVIOUS
  <2>1. PICK f : IsLiftExpr(f, k)
      BY <1>2
  <2> DEFINE g == [n \in Trees[k + 1] |-> ExprBy(f, n)]
  <2>2. Trees[k] \subseteq Trees[k + 1]
      BY TreesGrow
  <2>3. \A n \in Trees[k] : g[n] = f[n]
      BY <2>1, <2>2 DEF IsLiftExpr
  <2>4. g = [n \in Trees[k + 1] |-> g[n]] /\ \A n \in Trees[k + 1] : g[n] = ExprBy(f, n)
      OBVIOUS
  <2> HIDE DEF g
  <2>5. \A n \in Trees[k + 1] : ExprBy(f, n) = ExprBy(g, n)
      BY <2>3, LiftExprLocal
  <2>6. \A n \in Trees[k + 1] : g[n] = ExprBy(g, n)
      BY <2>4, <2>5
  <2>7. IsLiftExpr(g, k + 1)
      BY <2>4, <2>6 DEF IsLiftExpr
  <2>. QED BY <2>7
<1>3. MaxHeight \in T
  <2>1. Nat \subseteq T
    <3> HIDE DEF T
    <3>. QED BY <1>1, <1>2, Reaches
  <2>. QED BY <2>1
<1>4. PICK f : IsLiftExpr(f, MaxHeight)
    BY <1>3
<1>5. f = [n \in Nodes |-> ExprBy(f, n)]
    BY <1>4 DEF IsLiftExpr, Nodes
<1>6. LiftExpr = [n \in Nodes |-> ExprBy(LiftExpr, n)]
    BY <1>5 DEF LiftExpr
<1>. QED BY <1>6 DEF IsLiftExpr, Nodes

LEMMA LiftExprIs ==
    /\ LiftExpr = [n \in Nodes |-> LiftExpr[n]]
    /\ \A n \in Nodes : LiftExpr[n] = ExprBy(LiftExpr, n)
BY LiftExprExists DEF IsLiftExpr, Nodes

LEMMA BranchLocal ==
    ASSUME NEW k \in Nat, k <= MaxHeight, NEW b \in Trees[k],
           NEW f, NEW g, \A c \in Trees[k] : g[c] = f[c]
    PROVE  BranchBy(f, b) = BranchBy(g, b)
<1> DEFINE stmts == IF b.kind = "Block" THEN b.kids ELSE << b >>
<1>1. \A i \in DOMAIN stmts : stmts[i] \in Trees[k]
    BY TreesClosed
<1> HIDE DEF stmts
<1>2. [i \in DOMAIN stmts |-> f[stmts[i]]] = [i \in DOMAIN stmts |-> g[stmts[i]]]
    BY <1>1
<1>3. ListBy(f, stmts) = ListBy(g, stmts)
    BY <1>2 DEF ListBy
<1>. QED BY <1>3 DEF BranchBy, stmts

LEMMA LiftStmtLocal ==
    ASSUME NEW k \in Nat, k + 1 <= MaxHeight, NEW n \in Trees[k + 1],
           NEW f, NEW g, \A c \in Trees[k] : g[c] = f[c]
    PROVE  StmtBy(f, n) = StmtBy(g, n)
<1>1. n.kids \in Seq(Trees[k]) /\ IsWellFormed(n)
    BY TreeParts
<1>2. \A i \in DOMAIN n.kids : BranchBy(f, n.kids[i]) = BranchBy(g, n.kids[i])
    BY <1>1, BranchLocal
<1>3. /\ n.kind = "If" => BranchBy(f, n.kids[2]) = BranchBy(g, n.kids[2])
                          /\ BranchBy(f, n.kids[3]) = BranchBy(g, n.kids[3])
      /\ n.kind = "For" => BranchBy(f, n.kids[4]) = BranchBy(g, n.kids[4])
      /\ n.kind = "While" => BranchBy(f, n.kids[2]) = BranchBy(g, n.kids[2])
    BY <1>1, <1>2 DEF IsWellFormed
<1>. QED BY <1>3 DEF StmtBy

IsLiftStmt(f, k) ==
    /\ f = [n \in Trees[k] |-> f[n]]
    /\ \A n \in Trees[k] : f[n] = StmtBy(f, n)

LEMMA LiftStmtExists == IsLiftStmt(LiftStmt, MaxHeight)
<1> DEFINE T == {k \in Nat : k <= MaxHeight => \E f : IsLiftStmt(f, k)}
<1>1. 0 \in T
  <2>1. Trees[0] = {}
      BY TreesByHeight
  <2>2. IsLiftStmt([n \in Trees[0] |-> 0], 0)
      BY <2>1 DEF IsLiftStmt
  <2>. QED BY <2>2
<1>2. ASSUME NEW k \in Nat, k \in T PROVE k + 1 \in T
  <2> SUFFICES ASSUME k + 1 <= MaxHeight PROVE \E g : IsLiftStmt(g, k + 1)
      OBVIOUS
  <2>1. PICK f : IsLiftStmt(f, k)
      BY <1>2
  <2> DEFINE g == [n \in Trees[k + 1] |-> StmtBy(f, n)]
  <2>2. Trees[k] \subseteq Trees[k + 1]
      BY TreesGrow
  <2>3. \A n \in Trees[k] : g[n] = f[n]
      BY <2>1, <2>2 DEF IsLiftStmt
  <2>4. g = [n \in Trees[k + 1] |-> g[n]] /\ \A n \in Trees[k + 1] : g[n] = StmtBy(f, n)
      OBVIOUS
  <2> HIDE DEF g
  <2>5. \A n \in Trees[k + 1] : StmtBy(f, n) = StmtBy(g, n)
      BY <2>3, LiftStmtLocal
  <2>6. \A n \in Trees[k + 1] : g[n] = StmtBy(g, n)
      BY <2>4, <2>5
  <2>7. IsLiftStmt(g, k + 1)
      BY <2>4, <2>6 DEF IsLiftStmt
  <2>. QED BY <2>7
<1>3. MaxHeight \in T
  <2>1. Nat \subseteq T
    <3> HIDE DEF T
    <3>. QED BY <1>1, <1>2, Reaches
  <2>. QED BY <2>1
<1>4. PICK f : IsLiftStmt(f, MaxHeight)
    BY <1>3
<1>5. f = [n \in Nodes |-> StmtBy(f, n)]
    BY <1>4 DEF IsLiftStmt, Nodes
<1>6. LiftStmt = [n \in Nodes |-> StmtBy(LiftStmt, n)]
    BY <1>5 DEF LiftStmt
<1>. QED BY <1>6 DEF IsLiftStmt, Nodes

LEMMA LiftStmtIs ==
    /\ LiftStmt = [n \in Nodes |-> LiftStmt[n]]
    /\ \A n \in Nodes : LiftStmt[n] = StmtBy(LiftStmt, n)
BY LiftStmtExists DEF IsLiftStmt, Nodes

LEMMA LinksLocal ==
    ASSUME NEW k \in Nat, k + 1 <= MaxHeight, NEW n \in Trees[k + 1],
           NEW f, NEW g, \A c \in Trees[k] : g[c] = f[c]
    PROVE  LinksBy(f, n, DOMAIN n.kids) = LinksBy(g, n, DOMAIN n.kids)
<1>1. n.kids \in Seq(Trees[k])
    BY TreeParts
<1>2. \A i \in DOMAIN n.kids : f[n.kids[i]] = g[n.kids[i]]
    BY <1>1
<1>. QED BY <1>2 DEF LinksBy

IsLinks(f, k) ==
    /\ f = [n \in Trees[k] |-> f[n]]
    /\ \A n \in Trees[k] : f[n] = LinksBy(f, n, DOMAIN n.kids)

LEMMA LinksExists == IsLinks(Links, MaxHeight)
<1> DEFINE T == {k \in Nat : k <= MaxHeight => \E f : IsLinks(f, k)}
<1>1. 0 \in T
  <2>1. Trees[0] = {}
      BY TreesByHeight
  <2>2. IsLinks([n \in Trees[0] |-> 0], 0)
      BY <2>1 DEF IsLinks
  <2>. QED BY <2>2
<1>2. ASSUME NEW k \in Nat, k \in T PROVE k + 1 \in T
  <2> SUFFICES ASSUME k + 1 <= MaxHeight PROVE \E g : IsLinks(g, k + 1)
      OBVIOUS
  <2>1. PICK f : IsLinks(f, k)
      BY <1>2
  <2> DEFINE g == [n \in Trees[k + 1] |-> LinksBy(f, n, DOMAIN n.kids)]
  <2>2. Trees[k] \subseteq Trees[k + 1]
      BY TreesGrow
  <2>3. \A n \in Trees[k] : g[n] = f[n]
      BY <2>1, <2>2 DEF IsLinks
  <2>4. g = [n \in Trees[k + 1] |-> g[n]] /\ \A n \in Trees[k + 1] : g[n] = LinksBy(f, n, DOMAIN n.kids)
      OBVIOUS
  <2> HIDE DEF g
  <2>5. \A n \in Trees[k + 1] : LinksBy(f, n, DOMAIN n.kids) = LinksBy(g, n, DOMAIN n.kids)
      BY <2>3, LinksLocal
  <2>6. \A n \in Trees[k + 1] : g[n] = LinksBy(g, n, DOMAIN n.kids)
      BY <2>4, <2>5
  <2>7. IsLinks(g, k + 1)
      BY <2>4, <2>6 DEF IsLinks
  <2>. QED BY <2>7
<1>3. MaxHeight \in T
  <2>1. Nat \subseteq T
    <3> HIDE DEF T
    <3>. QED BY <1>1, <1>2, Reaches
  <2>. QED BY <2>1
<1>4. PICK f : IsLinks(f, MaxHeight)
    BY <1>3
<1>5. f = [n \in Nodes |-> LinksBy(f, n, DOMAIN n.kids)]
    BY <1>4 DEF IsLinks, Nodes
<1>6. Links = [n \in Nodes |-> LinksBy(Links, n, DOMAIN n.kids)]
    BY <1>5 DEF Links
<1>. QED BY <1>6 DEF IsLinks, Nodes

LEMMA LinksIs ==
    /\ Links = [n \in Nodes |-> Links[n]]
    /\ \A n \in Nodes : Links[n] = LinksBy(Links, n, DOMAIN n.kids)
BY LinksExists DEF IsLinks, Nodes

LEMMA SeenKids ==
    ASSUME NEW T, NEW n, n.kids \in Seq(T), IsWellFormed(n)
    PROVE  Seen(n) \subseteq DOMAIN n.kids
BY DEF Seen, IsWellFormed

LEMMA SeenLinksLocal ==
    ASSUME NEW k \in Nat, k + 1 <= MaxHeight, NEW n \in Trees[k + 1],
           NEW f, NEW g, \A c \in Trees[k] : g[c] = f[c]
    PROVE  LinksBy(f, n, Seen(n)) = LinksBy(g, n, Seen(n))
<1>1. n.kids \in Seq(Trees[k]) /\ IsWellFormed(n)
    BY TreeParts
<1>2. Seen(n) \subseteq DOMAIN n.kids
    BY <1>1, SeenKids
<1>3. \A i \in Seen(n) : f[n.kids[i]] = g[n.kids[i]]
    BY <1>1, <1>2
<1>. QED BY <1>3 DEF LinksBy

IsSeenLinks(f, k) ==
    /\ f = [n \in Trees[k] |-> f[n]]
    /\ \A n \in Trees[k] : f[n] = LinksBy(f, n, Seen(n))

LEMMA SeenLinksExists == IsSeenLinks(SeenLinks, MaxHeight)
<1> DEFINE T == {k \in Nat : k <= MaxHeight => \E f : IsSeenLinks(f, k)}
<1>1. 0 \in T
  <2>1. Trees[0] = {}
      BY TreesByHeight
  <2>2. IsSeenLinks([n \in Trees[0] |-> 0], 0)
      BY <2>1 DEF IsSeenLinks
  <2>. QED BY <2>2
<1>2. ASSUME NEW k \in Nat, k \in T PROVE k + 1 \in T
  <2> SUFFICES ASSUME k + 1 <= MaxHeight PROVE \E g : IsSeenLinks(g, k + 1)
      OBVIOUS
  <2>1. PICK f : IsSeenLinks(f, k)
      BY <1>2
  <2> DEFINE g == [n \in Trees[k + 1] |-> LinksBy(f, n, Seen(n))]
  <2>2. Trees[k] \subseteq Trees[k + 1]
      BY TreesGrow
  <2>3. \A n \in Trees[k] : g[n] = f[n]
      BY <2>1, <2>2 DEF IsSeenLinks
  <2>4. g = [n \in Trees[k + 1] |-> g[n]] /\ \A n \in Trees[k + 1] : g[n] = LinksBy(f, n, Seen(n))
      OBVIOUS
  <2> HIDE DEF g
  <2>5. \A n \in Trees[k + 1] : LinksBy(f, n, Seen(n)) = LinksBy(g, n, Seen(n))
      BY <2>3, SeenLinksLocal
  <2>6. \A n \in Trees[k + 1] : g[n] = LinksBy(g, n, Seen(n))
      BY <2>4, <2>5
  <2>7. IsSeenLinks(g, k + 1)
      BY <2>4, <2>6 DEF IsSeenLinks
  <2>. QED BY <2>7
<1>3. MaxHeight \in T
  <2>1. Nat \subseteq T
    <3> HIDE DEF T
    <3>. QED BY <1>1, <1>2, Reaches
  <2>. QED BY <2>1
<1>4. PICK f : IsSeenLinks(f, MaxHeight)
    BY <1>3
<1>5. f = [n \in Nodes |-> LinksBy(f, n, Seen(n))]
    BY <1>4 DEF IsSeenLinks, Nodes
<1>6. SeenLinks = [n \in Nodes |-> LinksBy(SeenLinks, n, Seen(n))]
    BY <1>5 DEF SeenLinks
<1>. QED BY <1>6 DEF IsSeenLinks, Nodes

LEMMA SeenLinksIs ==
    /\ SeenLinks = [n \in Nodes |-> SeenLinks[n]]
    /\ \A n \in Nodes : SeenLinks[n] = LinksBy(SeenLinks, n, Seen(n))
BY SeenLinksExists DEF IsSeenLinks, Nodes

(* What a lift looks at is in the tree.                                    *)
LEMMA SeenLinksAreLinks == \A n \in Nodes : SeenLinks[n] \subseteq Links[n]
<1> DEFINE T == {n \in Nodes : SeenLinks[n] \subseteq Links[n]}
<1>1. ASSUME NEW n \in Nodes, n.kids \in Seq(Nodes \cap T) PROVE n \in T
  <2>1. /\ SeenLinks[n] = UNION {{<< n.kids[i], n >>} \cup SeenLinks[n.kids[i]] : i \in Seen(n)}
        /\ Links[n] = UNION {{<< n.kids[i], n >>} \cup Links[n.kids[i]] : i \in DOMAIN n.kids}
      BY LinksIs, SeenLinksIs DEF LinksBy
  <2>2. Seen(n) \subseteq DOMAIN n.kids
      BY NodeParts, SeenKids
  <2>3. \A i \in DOMAIN n.kids : SeenLinks[n.kids[i]] \subseteq Links[n.kids[i]]
      BY <1>1
  <2>. QED BY <2>1, <2>2, <2>3
<1>2. Nodes \subseteq T
  <2> HIDE DEF T
  <2>. QED BY <1>1, TreeInduction
<1>. QED BY <1>2

-----------------------------------------------------------------------------
(* Declarations by their depth.                                            *)

IsNested(f, N) ==
    /\ f = [h \in 0 .. N |-> f[h]]
    /\ \A h \in 0 .. N : f[h] = IF h = 0 THEN {} ELSE ItemsOver(f[h - 1])

LEMMA NestedExists == IsNested(Nested, MaxHeight)
<1> DEFINE T == {k \in Nat : \E f : IsNested(f, k)}
<1>1. 0 \in T
  <2>1. IsNested([h \in 0 .. 0 |-> {}], 0)
      BY DEF IsNested
  <2>. QED BY <2>1
<1>2. ASSUME NEW k \in Nat, k \in T PROVE k + 1 \in T
  <2>1. PICK f : IsNested(f, k)
      BY <1>2
  <2> DEFINE g == [h \in 0 .. k + 1 |-> IF h = k + 1 THEN ItemsOver(f[k]) ELSE f[h]]
  <2>2. ASSUME NEW h \in 0 .. k + 1
        PROVE  g[h] = IF h = 0 THEN {} ELSE ItemsOver(g[h - 1])
    <3>1. CASE h = k + 1
        BY <3>1
    <3>2. CASE h \in 0 .. k
      <4>1. f[h] = IF h = 0 THEN {} ELSE ItemsOver(f[h - 1])
          BY <2>1, <3>2 DEF IsNested
      <4>2. g[h] = f[h] /\ (h # 0 => g[h - 1] = f[h - 1])
          BY <3>2
      <4>. QED BY <4>1, <4>2
    <3>. QED BY <3>1, <3>2
  <2>3. g = [h \in 0 .. k + 1 |-> g[h]]
      OBVIOUS
  <2>4. IsNested(g, k + 1)
    <3> HIDE DEF g
    <3>. QED BY <2>2, <2>3 DEF IsNested
  <2>. QED BY <2>4
<1>3. Nat \subseteq T
  <2> HIDE DEF T
  <2>. QED BY <1>1, <1>2, Reaches
<1>4. PICK f : IsNested(f, MaxHeight)
    BY <1>3
<1>5. f = [h \in 0 .. MaxHeight |-> IF h = 0 THEN {} ELSE ItemsOver(f[h - 1])]
    BY <1>4 DEF IsNested
<1>6. Nested = [h \in 0 .. MaxHeight |-> IF h = 0 THEN {} ELSE ItemsOver(Nested[h - 1])]
    BY <1>5 DEF Nested
<1>. QED BY <1>6 DEF IsNested

LEMMA NestedByHeight ==
    /\ Nested[0] = {}
    /\ \A h \in 1 .. MaxHeight : Nested[h] = ItemsOver(Nested[h - 1])
<1>1. 0 \in 0 .. MaxHeight /\ \A h \in 1 .. MaxHeight : h \in 0 .. MaxHeight /\ h # 0
    OBVIOUS
<1>. QED BY <1>1, NestedExists DEF IsNested

LEMMA ItemsOverGrows ==
    ASSUME NEW S, NEW T, S \subseteq T
    PROVE  ItemsOver(S) \subseteq ItemsOver(T)
BY DEF ItemsOver

LEMMA NestedGrow == \A k \in Nat : k + 1 <= MaxHeight => Nested[k] \subseteq Nested[k + 1]
<1> DEFINE T == {k \in Nat : k + 1 <= MaxHeight => Nested[k] \subseteq Nested[k + 1]}
<1>1. 0 \in T
    BY NestedByHeight
<1>2. ASSUME NEW k \in Nat, k \in T PROVE k + 1 \in T
  <2> SUFFICES ASSUME (k + 1) + 1 <= MaxHeight PROVE Nested[k + 1] \subseteq Nested[(k + 1) + 1]
      OBVIOUS
  <2>1. Nested[k] \subseteq Nested[k + 1]
      BY <1>2
  <2>2. /\ k + 1 \in 1 .. MaxHeight /\ (k + 1) + 1 \in 1 .. MaxHeight
        /\ (k + 1) - 1 = k /\ ((k + 1) + 1) - 1 = k + 1
      OBVIOUS
  <2>3. Nested[k + 1] = ItemsOver(Nested[k]) /\ Nested[(k + 1) + 1] = ItemsOver(Nested[k + 1])
      BY <2>2, NestedByHeight
  <2>. QED BY <2>1, <2>3, ItemsOverGrows
<1>3. Nat \subseteq T
  <2> HIDE DEF T
  <2>. QED BY <1>1, <1>2, Reaches
<1>. QED BY <1>3

LEMMA NestedParts ==
    ASSUME NEW k \in Nat, k + 1 <= MaxHeight, NEW it \in Nested[k + 1]
    PROVE  it \in ItemsOver(Nested[k])
<1>1. k + 1 \in 1 .. MaxHeight /\ (k + 1) - 1 = k
    OBVIOUS
<1>. QED BY <1>1, NestedByHeight

LEMMA NestedAreItems == \A k \in Nat : k <= MaxHeight => Nested[k] \subseteq Items
<1> DEFINE T == {k \in Nat : k <= MaxHeight => Nested[MaxHeight - k] \subseteq Items}
<1>1. 0 \in T
    BY DEF Items
<1>2. ASSUME NEW k \in Nat, k \in T PROVE k + 1 \in T
  <2> SUFFICES ASSUME k + 1 <= MaxHeight PROVE Nested[MaxHeight - (k + 1)] \subseteq Items
      OBVIOUS
  <2> DEFINE j == MaxHeight - (k + 1)
  <2>1. j \in Nat /\ j + 1 <= MaxHeight /\ j + 1 = MaxHeight - k
      OBVIOUS
  <2>2. Nested[j] \subseteq Nested[j + 1]
      BY <2>1, NestedGrow
  <2>. QED BY <1>2, <2>1, <2>2
<1>3. Nat \subseteq T
  <2> HIDE DEF T
  <2>. QED BY <1>1, <1>2, Reaches
<1>4. ASSUME NEW k \in Nat, k <= MaxHeight PROVE Nested[k] \subseteq Items
  <2>1. MaxHeight - k \in T /\ MaxHeight - (MaxHeight - k) = k
      BY <1>3, <1>4
  <2>. QED BY <2>1
<1>. QED BY <1>4

LEMMA ItemParts ==
    ASSUME NEW it \in Items
    PROVE  /\ it.items \in Seq(Items) /\ it.kind \in ItemKinds /\ it.name \in STRING
           /\ it.flags \in SUBSET STRING /\ it.decl \in Decls
           /\ IsWellPlaced(it)
<1>1. CASE MaxHeight = 0
    BY <1>1, NestedByHeight DEF Items
<1>2. CASE MaxHeight # 0
  <2>1. PICK k \in Nat : k + 1 = MaxHeight /\ k <= MaxHeight
    <3>1. MaxHeight - 1 \in Nat /\ (MaxHeight - 1) + 1 = MaxHeight
        BY <1>2
    <3>. QED BY <3>1
  <2>2. it \in ItemsOver(Nested[k]) /\ Nested[k] \subseteq Items
      BY <2>1, NestedParts, NestedAreItems DEF Items
  <2>. QED BY <2>2 DEF ItemsOver
<1>. QED BY <1>1, <1>2

(* Induction over declarations.                                            *)
LEMMA ItemInduction ==
    ASSUME NEW T,
           \A it \in Items : it.items \in Seq(Items \cap T) => it \in T
    PROVE  Items \subseteq T
<1> DEFINE H == {k \in Nat : k <= MaxHeight => Nested[k] \subseteq T}
<1>1. 0 \in H
    BY NestedByHeight
<1>2. ASSUME NEW k \in Nat, k \in H PROVE k + 1 \in H
  <2> SUFFICES ASSUME k + 1 <= MaxHeight, NEW it \in Nested[k + 1] PROVE it \in T
      OBVIOUS
  <2>1. it \in Items /\ Nested[k] \subseteq Items \cap T
      BY <1>2, NestedAreItems
  <2>2. it \in ItemsOver(Nested[k])
      BY NestedParts
  <2>3. it.items \in Seq(Items \cap T)
      BY <2>1, <2>2 DEF ItemsOver
  <2>. QED BY <2>1, <2>3
<1>3. Nat \subseteq H
  <2> HIDE DEF H
  <2>. QED BY <1>1, <1>2, Reaches
<1>. QED BY <1>3 DEF Items

-----------------------------------------------------------------------------
(* The walks exist as well.                                                *)

LEMMA FoundLocal ==
    ASSUME NEW f, NEW g, NEW items, NEW names, \A i \in DOMAIN items : g[items[i]] = f[items[i]]
    PROVE  Found(f, items, names) = Found(g, items, names)
<1>1. [i \in DOMAIN items |-> f[items[i]][names]] = [i \in DOMAIN items |-> g[items[i]][names]]
    OBVIOUS
<1>. QED BY <1>1 DEF Found

LEMMA VisitBodiesLocal ==
    ASSUME NEW k \in Nat, k + 1 <= MaxHeight, NEW n \in Nested[k + 1],
           NEW f, NEW g, \A c \in Nested[k] : g[c] = f[c]
    PROVE  [ns \in Names |-> BodiesBy(f, n, ns)] = [ns \in Names |-> BodiesBy(g, n, ns)]
<1>1. n.items \in Seq(Nested[k])
    BY NestedParts DEF ItemsOver
<1>2. \A i \in DOMAIN n.items : g[n.items[i]] = f[n.items[i]]
    BY <1>1
<1>3. ASSUME NEW ns \in Names PROVE BodiesBy(f, n, ns) = BodiesBy(g, n, ns)
  <2>1. Found(f, n.items, Append(ns, n.name)) = Found(g, n.items, Append(ns, n.name))
      BY <1>2, FoundLocal
  <2>. QED BY <2>1 DEF BodiesBy
<1>. QED BY <1>3

IsVisitBodies(f, k) ==
    /\ f = [n \in Nested[k] |-> f[n]]
    /\ \A n \in Nested[k] : f[n] = [ns \in Names |-> BodiesBy(f, n, ns)]

LEMMA VisitBodiesExists == IsVisitBodies(VisitBodies, MaxHeight)
<1> DEFINE T == {k \in Nat : k <= MaxHeight => \E f : IsVisitBodies(f, k)}
<1>1. 0 \in T
  <2>1. Nested[0] = {}
      BY NestedByHeight
  <2>2. IsVisitBodies([n \in Nested[0] |-> 0], 0)
      BY <2>1 DEF IsVisitBodies
  <2>. QED BY <2>2
<1>2. ASSUME NEW k \in Nat, k \in T PROVE k + 1 \in T
  <2> SUFFICES ASSUME k + 1 <= MaxHeight PROVE \E g : IsVisitBodies(g, k + 1)
      OBVIOUS
  <2>1. PICK f : IsVisitBodies(f, k)
      BY <1>2
  <2> DEFINE g == [n \in Nested[k + 1] |-> [ns \in Names |-> BodiesBy(f, n, ns)]]
  <2>2. Nested[k] \subseteq Nested[k + 1]
      BY NestedGrow
  <2>3. \A n \in Nested[k] : g[n] = f[n]
      BY <2>1, <2>2 DEF IsVisitBodies
  <2>4. g = [n \in Nested[k + 1] |-> g[n]] /\ \A n \in Nested[k + 1] : g[n] = [ns \in Names |-> BodiesBy(f, n, ns)]
      OBVIOUS
  <2> HIDE DEF g
  <2>5. \A n \in Nested[k + 1] : [ns \in Names |-> BodiesBy(f, n, ns)] = [ns \in Names |-> BodiesBy(g, n, ns)]
      BY <2>3, VisitBodiesLocal
  <2>6. \A n \in Nested[k + 1] : g[n] = [ns \in Names |-> BodiesBy(g, n, ns)]
      BY <2>4, <2>5
  <2>7. IsVisitBodies(g, k + 1)
      BY <2>4, <2>6 DEF IsVisitBodies
  <2>. QED BY <2>7
<1>3. MaxHeight \in T
  <2>1. Nat \subseteq T
    <3> HIDE DEF T
    <3>. QED BY <1>1, <1>2, Reaches
  <2>. QED BY <2>1
<1>4. PICK f : IsVisitBodies(f, MaxHeight)
    BY <1>3
<1>5. f = [n \in Items |-> [ns \in Names |-> BodiesBy(f, n, ns)]]
    BY <1>4 DEF IsVisitBodies, Items
<1>6. VisitBodies = [n \in Items |-> [ns \in Names |-> BodiesBy(VisitBodies, n, ns)]]
    BY <1>5 DEF VisitBodies
<1>. QED BY <1>6 DEF IsVisitBodies, Items

LEMMA VisitBodiesIs ==
    /\ VisitBodies = [n \in Items |-> VisitBodies[n]]
    /\ \A n \in Items : VisitBodies[n] = [ns \in Names |-> BodiesBy(VisitBodies, n, ns)]
BY VisitBodiesExists DEF IsVisitBodies, Items

LEMMA VisitTypesLocal ==
    ASSUME NEW k \in Nat, k + 1 <= MaxHeight, NEW n \in Nested[k + 1],
           NEW f, NEW g, \A c \in Nested[k] : g[c] = f[c]
    PROVE  [ns \in Names |-> TypesBy(f, n, ns)] = [ns \in Names |-> TypesBy(g, n, ns)]
<1>1. n.items \in Seq(Nested[k])
    BY NestedParts DEF ItemsOver
<1>2. \A i \in DOMAIN n.items : g[n.items[i]] = f[n.items[i]]
    BY <1>1
<1>3. ASSUME NEW ns \in Names PROVE TypesBy(f, n, ns) = TypesBy(g, n, ns)
  <2>1. Found(f, n.items, Append(ns, n.name)) = Found(g, n.items, Append(ns, n.name))
      BY <1>2, FoundLocal
  <2>. QED BY <2>1 DEF TypesBy
<1>. QED BY <1>3

IsVisitTypes(f, k) ==
    /\ f = [n \in Nested[k] |-> f[n]]
    /\ \A n \in Nested[k] : f[n] = [ns \in Names |-> TypesBy(f, n, ns)]

LEMMA VisitTypesExists == IsVisitTypes(VisitTypes, MaxHeight)
<1> DEFINE T == {k \in Nat : k <= MaxHeight => \E f : IsVisitTypes(f, k)}
<1>1. 0 \in T
  <2>1. Nested[0] = {}
      BY NestedByHeight
  <2>2. IsVisitTypes([n \in Nested[0] |-> 0], 0)
      BY <2>1 DEF IsVisitTypes
  <2>. QED BY <2>2
<1>2. ASSUME NEW k \in Nat, k \in T PROVE k + 1 \in T
  <2> SUFFICES ASSUME k + 1 <= MaxHeight PROVE \E g : IsVisitTypes(g, k + 1)
      OBVIOUS
  <2>1. PICK f : IsVisitTypes(f, k)
      BY <1>2
  <2> DEFINE g == [n \in Nested[k + 1] |-> [ns \in Names |-> TypesBy(f, n, ns)]]
  <2>2. Nested[k] \subseteq Nested[k + 1]
      BY NestedGrow
  <2>3. \A n \in Nested[k] : g[n] = f[n]
      BY <2>1, <2>2 DEF IsVisitTypes
  <2>4. g = [n \in Nested[k + 1] |-> g[n]] /\ \A n \in Nested[k + 1] : g[n] = [ns \in Names |-> TypesBy(f, n, ns)]
      OBVIOUS
  <2> HIDE DEF g
  <2>5. \A n \in Nested[k + 1] : [ns \in Names |-> TypesBy(f, n, ns)] = [ns \in Names |-> TypesBy(g, n, ns)]
      BY <2>3, VisitTypesLocal
  <2>6. \A n \in Nested[k + 1] : g[n] = [ns \in Names |-> TypesBy(g, n, ns)]
      BY <2>4, <2>5
  <2>7. IsVisitTypes(g, k + 1)
      BY <2>4, <2>6 DEF IsVisitTypes
  <2>. QED BY <2>7
<1>3. MaxHeight \in T
  <2>1. Nat \subseteq T
    <3> HIDE DEF T
    <3>. QED BY <1>1, <1>2, Reaches
  <2>. QED BY <2>1
<1>4. PICK f : IsVisitTypes(f, MaxHeight)
    BY <1>3
<1>5. f = [n \in Items |-> [ns \in Names |-> TypesBy(f, n, ns)]]
    BY <1>4 DEF IsVisitTypes, Items
<1>6. VisitTypes = [n \in Items |-> [ns \in Names |-> TypesBy(VisitTypes, n, ns)]]
    BY <1>5 DEF VisitTypes
<1>. QED BY <1>6 DEF IsVisitTypes, Items

LEMMA VisitTypesIs ==
    /\ VisitTypes = [n \in Items |-> VisitTypes[n]]
    /\ \A n \in Items : VisitTypes[n] = [ns \in Names |-> TypesBy(VisitTypes, n, ns)]
BY VisitTypesExists DEF IsVisitTypes, Items

LEMMA VisitSymbolsLocal ==
    ASSUME NEW k \in Nat, k + 1 <= MaxHeight, NEW n \in Nested[k + 1],
           NEW f, NEW g, \A c \in Nested[k] : g[c] = f[c]
    PROVE  [ns \in Names |-> SymbolsBy(f, n, ns)] = [ns \in Names |-> SymbolsBy(g, n, ns)]
<1>1. n.items \in Seq(Nested[k])
    BY NestedParts DEF ItemsOver
<1>2. \A i \in DOMAIN n.items : g[n.items[i]] = f[n.items[i]]
    BY <1>1
<1>3. ASSUME NEW ns \in Names PROVE SymbolsBy(f, n, ns) = SymbolsBy(g, n, ns)
  <2>1. Found(f, n.items, Append(ns, n.name)) = Found(g, n.items, Append(ns, n.name))
      BY <1>2, FoundLocal
  <2>. QED BY <2>1 DEF SymbolsBy
<1>. QED BY <1>3

IsVisitSymbols(f, k) ==
    /\ f = [n \in Nested[k] |-> f[n]]
    /\ \A n \in Nested[k] : f[n] = [ns \in Names |-> SymbolsBy(f, n, ns)]

LEMMA VisitSymbolsExists == IsVisitSymbols(VisitSymbols, MaxHeight)
<1> DEFINE T == {k \in Nat : k <= MaxHeight => \E f : IsVisitSymbols(f, k)}
<1>1. 0 \in T
  <2>1. Nested[0] = {}
      BY NestedByHeight
  <2>2. IsVisitSymbols([n \in Nested[0] |-> 0], 0)
      BY <2>1 DEF IsVisitSymbols
  <2>. QED BY <2>2
<1>2. ASSUME NEW k \in Nat, k \in T PROVE k + 1 \in T
  <2> SUFFICES ASSUME k + 1 <= MaxHeight PROVE \E g : IsVisitSymbols(g, k + 1)
      OBVIOUS
  <2>1. PICK f : IsVisitSymbols(f, k)
      BY <1>2
  <2> DEFINE g == [n \in Nested[k + 1] |-> [ns \in Names |-> SymbolsBy(f, n, ns)]]
  <2>2. Nested[k] \subseteq Nested[k + 1]
      BY NestedGrow
  <2>3. \A n \in Nested[k] : g[n] = f[n]
      BY <2>1, <2>2 DEF IsVisitSymbols
  <2>4. g = [n \in Nested[k + 1] |-> g[n]] /\ \A n \in Nested[k + 1] : g[n] = [ns \in Names |-> SymbolsBy(f, n, ns)]
      OBVIOUS
  <2> HIDE DEF g
  <2>5. \A n \in Nested[k + 1] : [ns \in Names |-> SymbolsBy(f, n, ns)] = [ns \in Names |-> SymbolsBy(g, n, ns)]
      BY <2>3, VisitSymbolsLocal
  <2>6. \A n \in Nested[k + 1] : g[n] = [ns \in Names |-> SymbolsBy(g, n, ns)]
      BY <2>4, <2>5
  <2>7. IsVisitSymbols(g, k + 1)
      BY <2>4, <2>6 DEF IsVisitSymbols
  <2>. QED BY <2>7
<1>3. MaxHeight \in T
  <2>1. Nat \subseteq T
    <3> HIDE DEF T
    <3>. QED BY <1>1, <1>2, Reaches
  <2>. QED BY <2>1
<1>4. PICK f : IsVisitSymbols(f, MaxHeight)
    BY <1>3
<1>5. f = [n \in Items |-> [ns \in Names |-> SymbolsBy(f, n, ns)]]
    BY <1>4 DEF IsVisitSymbols, Items
<1>6. VisitSymbols = [n \in Items |-> [ns \in Names |-> SymbolsBy(VisitSymbols, n, ns)]]
    BY <1>5 DEF VisitSymbols
<1>. QED BY <1>6 DEF IsVisitSymbols, Items

LEMMA VisitSymbolsIs ==
    /\ VisitSymbols = [n \in Items |-> VisitSymbols[n]]
    /\ \A n \in Items : VisitSymbols[n] = [ns \in Names |-> SymbolsBy(VisitSymbols, n, ns)]
BY VisitSymbolsExists DEF IsVisitSymbols, Items

LEMMA ChainsLocal ==
    ASSUME NEW k \in Nat, k + 1 <= MaxHeight, NEW n \in Nested[k + 1],
           NEW f, NEW g, \A c \in Nested[k] : g[c] = f[c]
    PROVE  ChainsBy(f, n) = ChainsBy(g, n)
<1>1. n.items \in Seq(Nested[k])
    BY NestedParts DEF ItemsOver
<1>2. \A i \in DOMAIN n.items : g[n.items[i]] = f[n.items[i]]
    BY <1>1
<1>3. {f[n.items[i]] : i \in DOMAIN n.items} = {g[n.items[i]] : i \in DOMAIN n.items}
    BY <1>2
<1>. QED BY <1>3 DEF ChainsBy

IsChains(f, k) ==
    /\ f = [n \in Nested[k] |-> f[n]]
    /\ \A n \in Nested[k] : f[n] = ChainsBy(f, n)

LEMMA ChainsExists == IsChains(Chains, MaxHeight)
<1> DEFINE T == {k \in Nat : k <= MaxHeight => \E f : IsChains(f, k)}
<1>1. 0 \in T
  <2>1. Nested[0] = {}
      BY NestedByHeight
  <2>2. IsChains([n \in Nested[0] |-> 0], 0)
      BY <2>1 DEF IsChains
  <2>. QED BY <2>2
<1>2. ASSUME NEW k \in Nat, k \in T PROVE k + 1 \in T
  <2> SUFFICES ASSUME k + 1 <= MaxHeight PROVE \E g : IsChains(g, k + 1)
      OBVIOUS
  <2>1. PICK f : IsChains(f, k)
      BY <1>2
  <2> DEFINE g == [n \in Nested[k + 1] |-> ChainsBy(f, n)]
  <2>2. Nested[k] \subseteq Nested[k + 1]
      BY NestedGrow
  <2>3. \A n \in Nested[k] : g[n] = f[n]
      BY <2>1, <2>2 DEF IsChains
  <2>4. g = [n \in Nested[k + 1] |-> g[n]] /\ \A n \in Nested[k + 1] : g[n] = ChainsBy(f, n)
      OBVIOUS
  <2> HIDE DEF g
  <2>5. \A n \in Nested[k + 1] : ChainsBy(f, n) = ChainsBy(g, n)
      BY <2>3, ChainsLocal
  <2>6. \A n \in Nested[k + 1] : g[n] = ChainsBy(g, n)
      BY <2>4, <2>5
  <2>7. IsChains(g, k + 1)
      BY <2>4, <2>6 DEF IsChains
  <2>. QED BY <2>7
<1>3. MaxHeight \in T
  <2>1. Nat \subseteq T
    <3> HIDE DEF T
    <3>. QED BY <1>1, <1>2, Reaches
  <2>. QED BY <2>1
<1>4. PICK f : IsChains(f, MaxHeight)
    BY <1>3
<1>5. f = [n \in Items |-> ChainsBy(f, n)]
    BY <1>4 DEF IsChains, Items
<1>6. Chains = [n \in Items |-> ChainsBy(Chains, n)]
    BY <1>5 DEF Chains
<1>. QED BY <1>6 DEF IsChains, Items

LEMMA ChainsIs ==
    /\ Chains = [n \in Items |-> Chains[n]]
    /\ \A n \in Items : Chains[n] = ChainsBy(Chains, n)
BY ChainsExists DEF IsChains, Items

-----------------------------------------------------------------------------
(* Notes: those of a node that is put together are those of its parts.     *)

Whys ==
    {n.kind : n \in Nodes} \cup
    {"type annotation", "assignment used as expression",
     "multi-binding variable declaration", "destructuring declaration",
     "destructured parameter", "async function"}
Notes == Seq(Whys)

LEMMA NotesOf == \A model, notes : Result(model, notes).notes = notes
BY DEF Result

LEMMA NoNotes == <<>> \in Notes
BY EmptySeq DEF Notes

LEMMA Single ==
    ASSUME NEW S, NEW e \in S
    PROVE  << e >> \in Seq(S) /\ Len(<< e >>) = 1 /\ << e >>[1] = e /\ << e >> # <<>>
OBVIOUS

LEMMA OneNote ==
    ASSUME NEW why \in Whys
    PROVE  << why >> \in Notes /\ << why >> # <<>>
<1> HIDE DEF Whys
<1>. QED BY Single DEF Notes

LEMMA NotesOfAll ==
    ASSUME NEW m \in Nat, NEW results, DOMAIN results = 1 .. m,
           \A i \in 1 .. m : results[i].notes \in Notes
    PROVE  /\ AllNotes(results) \in Notes
           /\ AllNotes(results) # <<>> <=> \E i \in 1 .. m : results[i].notes # <<>>
<1> DEFINE seqs == [i \in 1 .. m |-> results[i].notes]
<1>1. AllNotes(results) = FlattenSeq(seqs)
    BY DEF AllNotes
<1>2. seqs = [i \in 1 .. m |-> seqs[i]] /\ \A i \in 1 .. m : seqs[i] = results[i].notes
    OBVIOUS
<1> HIDE DEF seqs
<1>3. seqs \in Seq(Seq(Whys)) /\ Len(seqs) = m
    BY <1>2, IsSequence DEF Notes
<1>4. /\ FlattenSeq(seqs) \in Seq(Whys)
      /\ Range(FlattenSeq(seqs)) = UNION {Range(seqs[i]) : i \in 1 .. m}
    BY <1>3, FlattenRange
<1>5. FlattenSeq(seqs) # <<>> <=> Range(FlattenSeq(seqs)) # {}
    BY <1>4, RangeIsEmpty
<1>6. \A i \in 1 .. m : results[i].notes # <<>> <=> Range(seqs[i]) # {}
    BY <1>2, RangeIsEmpty DEF Notes
<1>7. UNION {Range(seqs[i]) : i \in 1 .. m} # {} <=> \E i \in 1 .. m : Range(seqs[i]) # {}
    OBVIOUS
<1>. QED BY <1>1, <1>4, <1>5, <1>6, <1>7 DEF Notes

LEMMA NotesOfBuilt ==
    ASSUME NEW m \in Nat, NEW results, DOMAIN results = 1 .. m,
           \A i \in 1 .. m : results[i].notes \in Notes,
           NEW kind, NEW text
    PROVE  /\ Built(kind, text, results).notes \in Notes
           /\ Built(kind, text, results).notes # <<>> <=>
                \E i \in 1 .. m : results[i].notes # <<>>
BY NotesOfAll DEF Built, Result

LEMMA NotesOfOne ==
    ASSUME NEW a, a.notes \in Notes, NEW kind, NEW text
    PROVE  /\ Built(kind, text, << a >>).notes \in Notes
           /\ Built(kind, text, << a >>).notes # <<>> <=> a.notes # <<>>
<1>1. DOMAIN << a >> = 1 .. 1 /\ << a >>[1] = a
    OBVIOUS
<1>. QED BY <1>1, NotesOfBuilt

LEMMA NotesOfTwo ==
    ASSUME NEW a, a.notes \in Notes, NEW b, b.notes \in Notes, NEW kind, NEW text
    PROVE  /\ Built(kind, text, << a, b >>).notes \in Notes
           /\ Built(kind, text, << a, b >>).notes # <<>> <=> a.notes # <<>> \/ b.notes # <<>>
<1> DEFINE s == << a, b >>
<1>1. DOMAIN s = 1 .. 2 /\ s[1] = a /\ s[2] = b
    OBVIOUS
<1> HIDE DEF s
<1>2. \A i \in 1 .. 2 : i = 1 \/ i = 2
    OBVIOUS
<1>3. \A i \in 1 .. 2 : s[i].notes \in Notes
    BY <1>1, <1>2
<1>4. /\ Built(kind, text, s).notes \in Notes
      /\ Built(kind, text, s).notes # <<>> <=> \E i \in 1 .. 2 : s[i].notes # <<>>
    BY <1>1, <1>3, NotesOfBuilt
<1>. QED BY <1>1, <1>2, <1>4 DEF s

LEMMA NotesOfThree ==
    ASSUME NEW a, a.notes \in Notes, NEW b, b.notes \in Notes,
           NEW c, c.notes \in Notes, NEW kind, NEW text
    PROVE  /\ Built(kind, text, << a, b, c >>).notes \in Notes
           /\ Built(kind, text, << a, b, c >>).notes # <<>> <=>
                a.notes # <<>> \/ b.notes # <<>> \/ c.notes # <<>>
<1> DEFINE s == << a, b, c >>
<1>1. DOMAIN s = 1 .. 3 /\ s[1] = a /\ s[2] = b /\ s[3] = c
    OBVIOUS
<1> HIDE DEF s
<1>2. \A i \in 1 .. 3 : i = 1 \/ i = 2 \/ i = 3
    OBVIOUS
<1>3. \A i \in 1 .. 3 : s[i].notes \in Notes
    BY <1>1, <1>2
<1>4. /\ Built(kind, text, s).notes \in Notes
      /\ Built(kind, text, s).notes # <<>> <=> \E i \in 1 .. 3 : s[i].notes # <<>>
    BY <1>1, <1>3, NotesOfBuilt
<1>. QED BY <1>1, <1>2, <1>4 DEF s

LEMMA NotesOfFour ==
    ASSUME NEW a, a.notes \in Notes, NEW b, b.notes \in Notes,
           NEW c, c.notes \in Notes, NEW d, d.notes \in Notes, NEW kind, NEW text
    PROVE  /\ Built(kind, text, << a, b, c, d >>).notes \in Notes
           /\ Built(kind, text, << a, b, c, d >>).notes # <<>> <=>
                a.notes # <<>> \/ b.notes # <<>> \/ c.notes # <<>> \/ d.notes # <<>>
<1> DEFINE s == << a, b, c, d >>
<1>1. DOMAIN s = 1 .. 4 /\ s[1] = a /\ s[2] = b /\ s[3] = c /\ s[4] = d
    OBVIOUS
<1> HIDE DEF s
<1>2. \A i \in 1 .. 4 : i = 1 \/ i = 2 \/ i = 3 \/ i = 4
    OBVIOUS
<1>3. \A i \in 1 .. 4 : s[i].notes \in Notes
    BY <1>1, <1>2
<1>4. /\ Built(kind, text, s).notes \in Notes
      /\ Built(kind, text, s).notes # <<>> <=> \E i \in 1 .. 4 : s[i].notes # <<>>
    BY <1>1, <1>3, NotesOfBuilt
<1>. QED BY <1>1, <1>2, <1>4 DEF s

(* What the lift notes: what the answer cannot say, but for what the lift  *)
(* overlooks.                                                              *)
IsRefused(n, parent) == IsInexpressible(n, parent) /\ ~IsOverlooked(n)
RefusedOperators == InexpressibleOperators \ {">>>"}

LEMMA RefusedOperatorsAre ==
    RefusedOperators = {"**", "??", "in", "instanceof", ",", "**=", ">>>=", "&&=", "||=", "??="}
BY DEF RefusedOperators, InexpressibleOperators

(* A construct without a node of the model in n, a part of parent.         *)
Lost(n, parent) ==
    \/ IsRefused(n, parent)
    \/ \E link \in SeenLinks[n] : IsRefused(link[1], link[2])

LEMMA LostBelow ==
    ASSUME NEW n \in Nodes, NEW parent
    PROVE  Lost(n, parent) <=>
             IsRefused(n, parent) \/ \E i \in Seen(n) : Lost(n.kids[i], n)
<1>1. SeenLinks[n] = UNION {{<< n.kids[i], n >>} \cup SeenLinks[n.kids[i]] : i \in Seen(n)}
    BY SeenLinksIs DEF LinksBy
<1>2. (\E link \in SeenLinks[n] : IsRefused(link[1], link[2])) <=>
        \E i \in Seen(n) : \/ IsRefused(n.kids[i], n)
                           \/ \E link \in SeenLinks[n.kids[i]] : IsRefused(link[1], link[2])
  <2> DEFINE Bad(link) == IsRefused(link[1], link[2])
  <2>1. \A i \in Seen(n) : Bad(<< n.kids[i], n >>) <=> IsRefused(n.kids[i], n)
      OBVIOUS
  <2> HIDE DEF Bad
  <2>2. ASSUME NEW link \in SeenLinks[n], Bad(link)
        PROVE  \E i \in Seen(n) : Bad(<< n.kids[i], n >>) \/ \E l \in SeenLinks[n.kids[i]] : Bad(l)
    <3>1. PICK i \in Seen(n) : link \in {<< n.kids[i], n >>} \cup SeenLinks[n.kids[i]]
        BY <1>1
    <3>. QED BY <2>2, <3>1
  <2>3. ASSUME NEW i \in Seen(n), NEW l, l = << n.kids[i], n >> \/ l \in SeenLinks[n.kids[i]], Bad(l)
        PROVE  \E link \in SeenLinks[n] : Bad(link)
    <3>1. l \in SeenLinks[n]
        BY <1>1, <2>3
    <3>. QED BY <2>3, <3>1
  <2>. QED BY <2>1, <2>2, <2>3 DEF Bad
<1>. QED BY <1>2 DEF Lost

(* The notes of a lift say whether something is lost.                      *)
Says(result, n, parent) ==
    result.notes \in Notes /\ (result.notes # <<>> <=> Lost(n, parent))

(* A node that is put together from two, three, four lifts.                *)
LEMMA TwoSay ==
    ASSUME NEW n, NEW parent, NEW a, NEW b, NEW x, NEW y, NEW p, NEW q,
           Says(x, a, p), Says(y, b, q),
           Lost(n, parent) <=> Lost(a, p) \/ Lost(b, q),
           NEW kind, NEW text, NEW r, r = Built(kind, text, << x, y >>)
    PROVE  Says(r, n, parent)
<1>1. x.notes \in Notes /\ y.notes \in Notes
    BY DEF Says
<1>2. r.notes \in Notes /\ (r.notes # <<>> <=> x.notes # <<>> \/ y.notes # <<>>)
    BY <1>1, NotesOfTwo
<1>. QED BY <1>2 DEF Says

LEMMA ThreeSay ==
    ASSUME NEW n, NEW parent, NEW a, NEW b, NEW c, NEW x, NEW y, NEW z,
           Says(x, a, n), Says(y, b, n), Says(z, c, n),
           Lost(n, parent) <=> Lost(a, n) \/ Lost(b, n) \/ Lost(c, n),
           NEW kind, NEW text, NEW r, r = Built(kind, text, << x, y, z >>)
    PROVE  Says(r, n, parent)
<1>1. x.notes \in Notes /\ y.notes \in Notes /\ z.notes \in Notes
    BY DEF Says
<1>2. /\ r.notes \in Notes
      /\ r.notes # <<>> <=> x.notes # <<>> \/ y.notes # <<>> \/ z.notes # <<>>
    BY <1>1, NotesOfThree
<1>. QED BY <1>2 DEF Says

LEMMA FourSay ==
    ASSUME NEW n, NEW parent, NEW a, NEW b, NEW c, NEW d, NEW x, NEW y, NEW z, NEW u,
           Says(x, a, n), Says(y, b, n), Says(z, c, n), Says(u, d, n),
           Lost(n, parent) <=> Lost(a, n) \/ Lost(b, n) \/ Lost(c, n) \/ Lost(d, n),
           NEW kind, NEW text, NEW r, r = Built(kind, text, << x, y, z, u >>)
    PROVE  Says(r, n, parent)
<1>1. x.notes \in Notes /\ y.notes \in Notes /\ z.notes \in Notes /\ u.notes \in Notes
    BY DEF Says
<1>2. /\ r.notes \in Notes
      /\ r.notes # <<>> <=>
           x.notes # <<>> \/ y.notes # <<>> \/ z.notes # <<>> \/ u.notes # <<>>
    BY <1>1, NotesOfFour
<1>. QED BY <1>2 DEF Says

LEMMA AbsentIs == Absent.kind = "Absent" /\ Absent.kids = <<>>
BY DEF Absent, Leaf, Node

LEMMA AbsentIsNotLost ==
    ASSUME NEW n \in Nodes, Missing(n), NEW parent
    PROVE  ~Lost(n, parent) /\ n = Absent
<1>1. n = Absent /\ n.kids = <<>> /\ n.kind = "Absent"
    BY NodeParts DEF IsWellFormed, Missing, Absent, Leaf, Node
<1>2. Seen(n) = {}
    BY <1>1 DEF Seen
<1>3. ~IsRefused(n, parent)
    BY <1>1 DEF IsRefused, IsInexpressible, IsOverlooked, Expressible
<1>. QED BY <1>1, <1>2, <1>3, LostBelow

-----------------------------------------------------------------------------
(* Types.  The bounds of a type parameter are treated apart.               *)

TypeSays(n) ==
    /\ TypeFromNode[n].notes \in Notes
    /\ IsType(n) \/ Missing(n) =>
         \A parent : parent.kind # "TypeParameter" => Says(TypeFromNode[n], n, parent)

LEMMA TypeNames_Domain ==
    DOMAIN TypeNames = {"Number", "Boolean", "String", "Void", "Undefined", "BigInt", "Absent"}
BY DEF TypeNames

LEMMA TypeStep ==
    ASSUME NEW n \in Nodes, \A i \in DOMAIN n.kids : n.kids[i] \in Nodes /\ TypeSays(n.kids[i])
    PROVE  TypeSays(n)
<1> DEFINE r == TypeFromNode[n]
<1>1. r = TypeBy(TypeFromNode, n)
    BY TypeFromNodeIs
<1>2. /\ n.kids \in Seq(Nodes) /\ DOMAIN n.kids = 1 .. Len(n.kids) /\ n.kind \in STRING
      /\ IsWellFormed(n)
    BY NodeParts
<1>3. <<>> \in Notes /\ << "type annotation" >> \in Notes /\ << "type annotation" >> # <<>>
    BY NoNotes, OneNote DEF Whys
<1>4. CASE n.kind \in DOMAIN TypeNames
  <2>1. r.notes = <<>>
    <3>1. r = Result(Leaf("type", TypeNames[n.kind]), <<>>)
        BY <1>1, <1>4, TypeNames_Domain DEF TypeBy
    <3>. QED BY <3>1, NotesOf
  <2>2. n.kind \in SimpleTypes \cup {"Absent"} /\ n.kind # "Reference"
      BY <1>4, TypeNames_Domain DEF SimpleTypes
  <2>3. n.kids = <<>> /\ n.kind # "Parameter" /\ n.kind # "Call"
    <3>1. CASE n.kind = "Absent"
        BY <3>1, AbsentIsNotLost, AbsentIs DEF Missing
    <3>2. CASE n.kind \in SimpleTypes
      <4>1. n.kids = <<>>
          BY <1>2, <2>2, <3>2 DEF IsWellFormed
      <4>. QED BY <3>2, <4>1 DEF SimpleTypes
    <3>. QED BY <2>2, <3>1, <3>2
  <2>4. Seen(n) = {}
      BY <2>3 DEF Seen
  <2>5. ASSUME NEW parent PROVE ~Lost(n, parent)
    <3>1. ~IsRefused(n, parent)
        BY <2>2 DEF IsRefused, IsInexpressible, IsOverlooked, Expressible, SimpleTypes
    <3>. QED BY <2>4, <3>1, LostBelow
  <2>. QED BY <1>3, <2>1, <2>5 DEF TypeSays, Says
<1>5. CASE n.kind = "Array"
  <2>1. r = Built("type", "slice", << TypeFromNode[n.kids[1]] >>)
      BY <1>1, <1>5, TypeNames_Domain DEF TypeBy
  <2>2. 1 \in DOMAIN n.kids /\ DOMAIN n.kids = {1} /\ IsType(n.kids[1])
      BY <1>2, <1>5 DEF IsWellFormed
  <2>3. TypeSays(n.kids[1]) /\ Says(TypeFromNode[n.kids[1]], n.kids[1], n)
      BY <1>5, <2>2 DEF TypeSays
  <2>4. r.notes \in Notes /\ (r.notes # <<>> <=> TypeFromNode[n.kids[1]].notes # <<>>)
      BY <2>1, <2>3, NotesOfOne DEF Says
  <2>5. Seen(n) = {1}
      BY <1>5, <2>2 DEF Seen
  <2>6. ASSUME NEW parent PROVE Lost(n, parent) <=> Lost(n.kids[1], n)
    <3>1. ~IsRefused(n, parent)
        BY <1>5 DEF IsRefused, IsInexpressible, IsOverlooked, Expressible
    <3>. QED BY <2>5, <3>1, LostBelow
  <2>. QED BY <2>3, <2>4, <2>6 DEF TypeSays, Says
<1>6. CASE n.kind = "Reference"
  <2>1. r.notes = <<>>
      BY <1>1, <1>6, TypeNames_Domain DEF TypeBy, Result
  <2>2. Seen(n) = {}
      BY <1>6 DEF Seen
  <2>3. ASSUME NEW parent PROVE ~Lost(n, parent)
    <3>1. ~IsRefused(n, parent)
        BY <1>6 DEF IsRefused, IsInexpressible, IsOverlooked, Expressible
    <3>. QED BY <2>2, <3>1, LostBelow
  <2>. QED BY <1>3, <2>1, <2>3 DEF TypeSays, Says
<1>7. CASE n.kind \notin DOMAIN TypeNames \cup {"Array", "Reference"}
  <2>1. r.notes = << "type annotation" >>
    <3>1. r = Result(Leaf("type", n.kind), << "type annotation" >>)
        BY <1>1, <1>7 DEF TypeBy
    <3>. QED BY <3>1, NotesOf
  <2>2. ASSUME IsType(n) \/ Missing(n), NEW parent, parent.kind # "TypeParameter"
        PROVE  Lost(n, parent)
    <3>1. IsRefused(n, parent)
      <4>1. CASE n.kind = "Intersection"
          BY <2>2, <4>1 DEF IsRefused, IsInexpressible, IsOverlooked
      <4>2. CASE n.kind # "Intersection"
          BY <1>7, <2>2, <4>2, TypeNames_Domain
             DEF IsRefused, IsInexpressible, IsOverlooked, Expressible, IsType, Missing, ExprKinds, StmtKinds,
                 PartKinds, Atoms
      <4>. QED BY <4>1, <4>2
    <3>. QED BY <3>1 DEF Lost
  <2>. QED BY <1>3, <2>1, <2>2 DEF TypeSays, Says
<1>. QED BY <1>4, <1>5, <1>6, <1>7

LEMMA TypesSay == \A n \in Nodes : TypeSays(n)
<1> DEFINE T == {n \in Nodes : TypeSays(n)}
<1>1. ASSUME NEW n \in Nodes, n.kids \in Seq(Nodes \cap T) PROVE n \in T
    BY <1>1, TypeStep
<1>. QED
  <2> HIDE DEF T
  <2>1. Nodes \subseteq T
      BY <1>1, TreeInduction
  <2>. QED BY <2>1 DEF T

LEMMA TypeSaysSo ==
    ASSUME NEW n \in Nodes, IsType(n) \/ Missing(n),
           NEW parent, parent.kind # "TypeParameter"
    PROVE  Says(TypeFromNode[n], n, parent)
BY TypesSay DEF TypeSays

(* The bounds and the default of a type parameter.                         *)
LEMMA TypeParamSays ==
    ASSUME NEW tp \in Nodes, tp.kind = "TypeParameter", NEW parent
    PROVE  Says(LiftTypeParam(tp), tp, parent)
<1> DEFINE a == tp.kids[1]
           b == tp.kids[2]
           bounds == CASE a = Absent -> <<>>
                       [] a.kind = "Intersection" -> a.kids
                       [] OTHER -> << a >>
           types == IF b = Absent THEN bounds ELSE Append(bounds, b)
           results == [i \in DOMAIN types |-> TypeFromNode[types[i]]]
<1>1. /\ tp.kids \in Seq(Nodes) /\ Len(tp.kids) = 2
      /\ Missing(a) \/ IsType(a)
      /\ Missing(b) \/ IsType(b)
    BY NodeParts DEF IsWellFormed
<1>2. a \in Nodes /\ b \in Nodes /\ DOMAIN tp.kids = 1 .. 2
    BY <1>1
<1>3. ~IsRefused(tp, parent) /\ Seen(tp) = 1 .. 2
    BY <1>2 DEF IsRefused, IsInexpressible, IsOverlooked, Expressible, Seen
<1>4. Lost(tp, parent) <=> Lost(a, tp) \/ Lost(b, tp)
  <2>1. Lost(tp, parent) <=> \E i \in 1 .. 2 : Lost(tp.kids[i], tp)
      BY <1>3, LostBelow
  <2>2. 1 .. 2 = {1, 2}
      OBVIOUS
  <2>. QED BY <2>1, <2>2
<1>5. LiftTypeParam(tp) = Built("templateparam", tp.text, results)
    BY DEF LiftTypeParam
<1>6. /\ bounds \in Seq(Nodes)
      /\ \A i \in DOMAIN bounds : TypeFromNode[bounds[i]].notes \in Notes
      /\ (\E i \in DOMAIN bounds : TypeFromNode[bounds[i]].notes # <<>>) <=>
             \/ Lost(a, tp) /\ ~(a.kind = "Intersection" /\ a = b)
             \/ a.kind = "Intersection" /\ \E i \in DOMAIN a.kids : Lost(a.kids[i], a)
  <2>1. CASE a = Absent
    <3>0. a.kind = "Absent"
        BY <2>1, AbsentIs
    <3>1. bounds = <<>> /\ a.kind = "Absent"
        BY <2>1, <3>0
    <3>2. ~Lost(a, tp)
        BY <1>2, <3>1, AbsentIsNotLost DEF Missing
    <3>. QED BY <3>1, <3>2
  <2>2. CASE a # Absent /\ a.kind = "Intersection"
    <3>1. bounds = a.kids /\ a.kids \in Seq(Nodes) /\ DOMAIN a.kids = 1 .. Len(a.kids)
        BY <1>2, <2>2, NodeParts
    <3>2. \A i \in DOMAIN a.kids : a.kids[i] \in Nodes /\ IsType(a.kids[i])
        BY <1>2, <2>2, <3>1, NodeParts DEF IsWellFormed
    <3>3. \A i \in DOMAIN a.kids : Says(TypeFromNode[a.kids[i]], a.kids[i], a)
        BY <2>2, <3>2, TypeSaysSo
    <3>4. Seen(a) = DOMAIN a.kids
        BY <2>2 DEF Seen
    <3>5. a # b => ~IsRefused(a, tp)
        BY <2>2 DEF IsRefused, IsInexpressible, IsOverlooked
    <3>6. a # b => (Lost(a, tp) <=> \E i \in DOMAIN a.kids : Lost(a.kids[i], a))
        BY <1>2, <3>4, <3>5, LostBelow
    <3>. QED BY <2>2, <3>1, <3>3, <3>6 DEF Says
  <2>3. CASE a # Absent /\ a.kind # "Intersection"
    <3>1. bounds = << a >>
        BY <2>3
    <3> HIDE DEF bounds
    <3>5. bounds \in Seq(Nodes) /\ DOMAIN bounds = {1} /\ bounds[1] = a
      <4>1. bounds \in Seq(Nodes) /\ Len(bounds) = 1 /\ bounds[1] = a
          BY <1>2, <3>1, Single
      <4>. QED BY <4>1
    <3>2. IsType(a)
        BY <1>1, <1>2, <2>3, AbsentIsNotLost
    <3>3. Says(TypeFromNode[a], a, Top)
        BY <1>2, <3>2, TypeSaysSo DEF Top, Leaf, Node
    <3>4. Lost(a, Top) <=> Lost(a, tp)
      <4>1. IsRefused(a, Top) <=> IsRefused(a, tp)
          BY <2>3, <3>2 DEF IsRefused, IsInexpressible, IsOverlooked, IsType, ExprKinds, StmtKinds
      <4>. QED BY <4>1 DEF Lost
    <3>. QED BY <1>2, <2>3, <3>3, <3>4, <3>5 DEF Says
  <2>. QED BY <2>1, <2>2, <2>3
<1> HIDE DEF bounds
<1>7. /\ types \in Seq(Nodes)
      /\ \A i \in DOMAIN types : TypeFromNode[types[i]].notes \in Notes
      /\ (\E i \in DOMAIN types : TypeFromNode[types[i]].notes # <<>>) <=> Lost(a, tp) \/ Lost(b, tp)
  <2>1. CASE b = Absent
    <3>0. b.kind = "Absent"
        BY <2>1, AbsentIs
    <3>1. ~Lost(b, tp) /\ b.kind = "Absent"
        BY <1>2, <3>0, AbsentIsNotLost DEF Missing
    <3>4. types = bounds
        BY <2>1
    <3> HIDE DEF types
    <3>2. ~(a.kind = "Intersection" /\ a = b)
        BY <3>1
    <3>3. a.kind = "Intersection" => ((\E i \in DOMAIN a.kids : Lost(a.kids[i], a)) => Lost(a, tp))
      <4>1. a.kind = "Intersection" => Seen(a) = DOMAIN a.kids
          BY DEF Seen
      <4>. QED BY <1>2, <4>1, LostBelow
    <3>. QED BY <1>6, <3>1, <3>2, <3>3, <3>4
  <2>2. CASE b # Absent
    <3>1. IsType(b)
        BY <1>1, <1>2, <2>2, AbsentIsNotLost
    <3>2. TypeFromNode[b].notes \in Notes /\ (TypeFromNode[b].notes # <<>> <=> Lost(b, tp))
      <4>1. CASE b.kind = "Intersection"
        <5>1. Says(TypeFromNode[b], b, Top) /\ IsRefused(b, Top) /\ IsRefused(b, tp)
            BY <1>2, <3>1, <4>1, TypeSaysSo DEF Top, Leaf, Node, IsRefused, IsInexpressible, IsOverlooked
        <5>. QED BY <5>1 DEF Says, Lost
      <4>2. CASE b.kind # "Intersection"
        <5>1. Says(TypeFromNode[b], b, Top)
            BY <1>2, <3>1, TypeSaysSo DEF Top, Leaf, Node
        <5>2. IsRefused(b, Top) <=> IsRefused(b, tp)
            BY <4>2, <3>1 DEF IsRefused, IsInexpressible, IsOverlooked, IsType, ExprKinds, StmtKinds
        <5>. QED BY <5>1, <5>2 DEF Says, Lost
      <4>. QED BY <4>1, <4>2
    <3>3. /\ types \in Seq(Nodes) /\ Len(types) = Len(bounds) + 1
          /\ \A i \in 1 .. Len(bounds) : types[i] = bounds[i]
          /\ types[Len(bounds) + 1] = b
          /\ DOMAIN bounds = 1 .. Len(bounds) /\ Len(bounds) \in Nat
        BY <1>2, <1>6, <2>2, AppendProperties
    <3>4. DOMAIN types = 1 .. Len(bounds) + 1
        BY <3>3
    <3> HIDE DEF types
    <3>5. \A i \in DOMAIN types : TypeFromNode[types[i]].notes \in Notes
      <4>1. \A i \in 1 .. Len(bounds) + 1 : i \in 1 .. Len(bounds) \/ i = Len(bounds) + 1
          BY <3>3
      <4>. QED BY <1>6, <3>2, <3>3, <3>4, <4>1
    <3>6. (\E i \in DOMAIN types : TypeFromNode[types[i]].notes # <<>>) <=>
             (\E i \in DOMAIN bounds : TypeFromNode[bounds[i]].notes # <<>>) \/ Lost(b, tp)
      <4>1. \A i \in 1 .. Len(bounds) + 1 : i \in 1 .. Len(bounds) \/ i = Len(bounds) + 1
          BY <3>3
      <4>2. \A i \in 1 .. Len(bounds) : i \in 1 .. Len(bounds) + 1
          BY <3>3
      <4>3. Len(bounds) + 1 \in 1 .. Len(bounds) + 1
          BY <3>3
      <4>. QED BY <3>2, <3>3, <3>4, <4>1, <4>2, <4>3
    <3>7. a.kind = "Intersection" /\ a = b => Lost(b, tp)
        BY DEF Lost, IsRefused, IsInexpressible, IsOverlooked
    <3>8. a.kind = "Intersection" => ((\E i \in DOMAIN a.kids : Lost(a.kids[i], a)) => Lost(a, tp))
      <4>1. a.kind = "Intersection" => Seen(a) = DOMAIN a.kids
          BY DEF Seen
      <4>. QED BY <1>2, <4>1, LostBelow
    <3>. QED BY <1>6, <3>3, <3>5, <3>6, <3>7, <3>8
  <2>. QED BY <2>1, <2>2
<1> HIDE DEF types
<1>8. DOMAIN types = 1 .. Len(types) /\ Len(types) \in Nat
    BY <1>7
<1>9. DOMAIN results = 1 .. Len(types) /\ \A i \in 1 .. Len(types) : results[i] = TypeFromNode[types[i]]
    BY <1>8
<1> HIDE DEF results
<1>10. /\ Built("templateparam", tp.text, results).notes \in Notes
       /\ Built("templateparam", tp.text, results).notes # <<>> <=>
            \E i \in 1 .. Len(types) : results[i].notes # <<>>
    BY <1>7, <1>8, <1>9, NotesOfBuilt
<1>. QED BY <1>4, <1>5, <1>7, <1>8, <1>9, <1>10 DEF Says

-----------------------------------------------------------------------------
(* Expressions.                                                            *)

LEMMA Operators ==
    /\ DOMAIN BINOP \cap DOMAIN COMPOUND = {}
    /\ "=" \notin DOMAIN BINOP \cup DOMAIN COMPOUND
    /\ (DOMAIN BINOP \cup DOMAIN COMPOUND) \cap RefusedOperators = {}
    /\ BinaryOperators \ ({"="} \cup DOMAIN BINOP \cup DOMAIN COMPOUND) \subseteq RefusedOperators
    /\ DOMAIN PREFIX = {"-", "!", "~", "++", "--"}
<1>1. DOMAIN BINOP \cap DOMAIN COMPOUND = {}
    BY DEF BINOP, COMPOUND
<1>2. "=" \notin DOMAIN BINOP \cup DOMAIN COMPOUND
    BY DEF BINOP, COMPOUND
<1>3. (DOMAIN BINOP \cup DOMAIN COMPOUND) \cap RefusedOperators = {}
    BY RefusedOperatorsAre DEF BINOP, COMPOUND
<1>4. BinaryOperators = DOMAIN BINOP \cup DOMAIN COMPOUND \cup {"="} \cup RefusedOperators
  <2>1. /\ DOMAIN BINOP = {"+", "-", "*", "/", "%", "==", "===", "!=", "!==", "<", ">", "<=",
                          ">=", "&&", "||", "&", "|", "^", "<<", ">>", ">>>"}
        /\ DOMAIN COMPOUND = {"+=", "-=", "*=", "/=", "%=", "&=", "|=", "^=", "<<=", ">>="}
      BY DEF BINOP, COMPOUND
  <2>. QED BY <2>1, RefusedOperatorsAre DEF BinaryOperators
<1>5. DOMAIN PREFIX = {"-", "!", "~", "++", "--"}
    BY DEF PREFIX
<1>. QED BY <1>1, <1>2, <1>3, <1>4, <1>5

LEMMA UpdateTable ==
    /\ UpdateOperators \subseteq DOMAIN BINOP
    /\ \A op \in DOMAIN BINOP : BINOP[op] \in COMPOUND_BASE_OPS <=> op \in UpdateOperators
<1>1. COMPOUND_BASE_OPS = {"add", "sub", "mul", "div", "mod", "bitand", "bitor",
                           "bitxor", "shl", "shr"}
    BY DEF COMPOUND_BASE_OPS, COMPOUND, Range
<1>. QED BY <1>1 DEF BINOP, UpdateOperators

LostInside(n) == \E i \in Seen(n) : Lost(n.kids[i], n)

LEMMA LostIs ==
    ASSUME NEW n \in Nodes, NEW parent
    PROVE  Lost(n, parent) <=> IsRefused(n, parent) \/ LostInside(n)
BY LostBelow DEF LostInside

IsAssignment(n) == n.kind = "Binary" /\ n.text = "="

ExprSays(n) ==
    IsExpr(n) =>
      \A parent : parent.kind # "Expression" \/ ~IsAssignment(n) => Says(LiftExpr[n], n, parent)

(* All children of a node are lifted, in order.                            *)
LEMMA KeptSays ==
    ASSUME NEW n \in Nodes, n.kind # "Expression", Seen(n) = DOMAIN n.kids,
           \A i \in DOMAIN n.kids : IsExpr(n.kids[i]) /\ ExprSays(n.kids[i]),
           NEW kind, NEW text, NEW r,
           r = Built(kind, text, [i \in DOMAIN n.kids |-> LiftExpr[n.kids[i]]])
    PROVE  r.notes \in Notes /\ (r.notes # <<>> <=> LostInside(n))
<1> DEFINE results == [i \in DOMAIN n.kids |-> LiftExpr[n.kids[i]]]
<1>1. DOMAIN n.kids = 1 .. Len(n.kids) /\ Len(n.kids) \in Nat
    BY NodeParts
<1>2. DOMAIN results = 1 .. Len(n.kids) /\ \A i \in 1 .. Len(n.kids) : results[i] = LiftExpr[n.kids[i]]
    BY <1>1
<1>3. r = Built(kind, text, results)
    OBVIOUS
<1>4. \A i \in DOMAIN n.kids : Says(LiftExpr[n.kids[i]], n.kids[i], n)
    BY DEF ExprSays
<1> HIDE DEF results
<1>5. /\ Built(kind, text, results).notes \in Notes
      /\ Built(kind, text, results).notes # <<>> <=>
           \E i \in 1 .. Len(n.kids) : results[i].notes # <<>>
    BY <1>1, <1>2, <1>4, NotesOfBuilt DEF Says
<1>. QED BY <1>1, <1>2, <1>3, <1>4, <1>5 DEF Says, LostInside

LEMMA RefusedSays ==
    ASSUME NEW why \in Whys, NEW n, NEW parent, Lost(n, parent)
    PROVE  Says(Refused(why), n, parent)
<1>1. Refused(why).notes = << why >>
    BY NotesOf DEF Refused
<1>. QED BY <1>1, OneNote DEF Says

LEMMA ExprStep ==
    ASSUME NEW n \in Nodes, IsExpr(n),
           \A i \in DOMAIN n.kids :
             /\ n.kids[i] \in Nodes /\ ExprSays(n.kids[i])
             /\ \A j \in DOMAIN n.kids[i].kids : ExprSays(n.kids[i].kids[j])
    PROVE  ExprSays(n)
<1> DEFINE r == LiftExpr[n]
<1>1. r = ExprBy(LiftExpr, n)
    BY LiftExprIs
<1>2. /\ n.kids \in Seq(Nodes) /\ DOMAIN n.kids = 1 .. Len(n.kids) /\ Len(n.kids) \in Nat
      /\ IsWellFormed(n)
    BY NodeParts
<1>12. n.kind \in Whys
    BY DEF Whys
<1> SUFFICES ASSUME NEW parent, parent.kind # "Expression" \/ ~IsAssignment(n)
             PROVE  Says(r, n, parent)
    BY DEF ExprSays
<1>3. CASE n.kind \in Atoms
  <2>1. PICK kind : r = Result(Leaf(kind, n.text), <<>>)
      BY <1>1, <1>3 DEF ExprBy, Atoms
  <2>2. n.kids = <<>> /\ n.kind # "Call" /\ n.kind # "Parameter"
      BY <1>2, <1>3 DEF IsWellFormed, Atoms
  <2>3. ~LostInside(n)
      BY <2>2 DEF LostInside, Seen
  <2>4. ~IsRefused(n, parent)
      BY <1>3 DEF IsRefused, IsInexpressible, IsOverlooked, Expressible, Atoms
  <2>. QED BY <2>1, <2>3, <2>4, LostIs, NotesOf, NoNotes DEF Says
<1>4. CASE n.kind \in {"Paren", "TypeOnly"}
  <2>1. r = LiftExpr[n.kids[1]]
      BY <1>1, <1>4 DEF ExprBy
  <2>2. 1 \in DOMAIN n.kids /\ DOMAIN n.kids = {1} /\ IsExpr(n.kids[1])
      BY <1>2, <1>4 DEF IsWellFormed, Exprs
  <2>3. Says(r, n.kids[1], n)
      BY <1>4, <2>1, <2>2 DEF ExprSays
  <2>4. LostInside(n) <=> Lost(n.kids[1], n)
      BY <1>4, <2>2 DEF LostInside, Seen
  <2>5. ~IsRefused(n, parent)
      BY <1>4 DEF IsRefused, IsInexpressible, IsOverlooked, Expressible
  <2>. QED BY <2>3, <2>4, <2>5, LostIs DEF Says
<1>5. CASE n.kind \in {"Prefix", "Postfix", "Conditional", "Property", "OptionalProperty", "Element"}
           /\ (n.kind = "Prefix" => n.text \in DOMAIN PREFIX)
  <2>1. PICK kind, text : r = Built(kind, text, [i \in DOMAIN n.kids |-> LiftExpr[n.kids[i]]])
      BY <1>1, <1>5 DEF ExprBy
  <2>2. \A i \in DOMAIN n.kids : IsExpr(n.kids[i])
      BY <1>2, <1>5 DEF IsWellFormed, Exprs
  <2>3. Seen(n) = DOMAIN n.kids /\ n.kind # "Expression"
      BY <1>5 DEF Seen
  <2>4. r.notes \in Notes /\ (r.notes # <<>> <=> LostInside(n))
      BY <2>1, <2>2, <2>3, KeptSays
  <2>5. ~IsRefused(n, parent)
      BY <1>5, Operators DEF IsRefused, IsInexpressible, IsOverlooked, Expressible
  <2>. QED BY <2>4, <2>5, LostIs DEF Says
<1>6. CASE n.kind = "Prefix" /\ n.text \notin DOMAIN PREFIX
  <2>1. r = Refused(n.kind)
      BY <1>1, <1>6 DEF ExprBy
  <2>2. IsRefused(n, parent)
      BY <1>6, Operators DEF IsRefused, IsInexpressible, IsOverlooked
  <2>. QED BY <1>12, <2>1, <2>2, LostIs, RefusedSays
<1>7. CASE IsAssignment(n)
  <2> DEFINE rhs == n.kids[2]
  <2>1. /\ Len(n.kids) = 2 /\ DOMAIN n.kids = 1 .. 2 /\ IsExpr(n.kids[1]) /\ IsExpr(rhs)
        /\ n.kids[1] \in Nodes /\ rhs \in Nodes
      BY <1>2, <1>7 DEF IsWellFormed, Exprs, IsAssignment
  <2>2. Seen(n) = {1, 2}
      BY <1>7, <2>1 DEF Seen, IsAssignment
  <2>3. IsRefused(n, parent) <=> ~IsSelfUpdate(n)
    <3>1. parent.kind # "Expression"
        BY <1>7
    <3>2. IsRefused(n, parent) <=>
            ~(rhs.kind = "Binary" /\ rhs.text \in UpdateOperators /\ rhs.kids[1] = n.kids[1])
        BY <1>7, <3>1 DEF IsRefused, IsInexpressible, IsOverlooked, IsAssignment
    <3>. QED BY <3>2, UpdateTable DEF IsSelfUpdate
  <2>4. CASE IsSelfUpdate(n)
    <3>1. r = Built("compoundassign", BINOP[rhs.text], << LiftExpr[n.kids[1]], LiftExpr[rhs.kids[2]] >>)
        BY <1>1, <1>7, <2>4, Operators DEF ExprBy, IsAssignment
    <3>2. /\ rhs.kind = "Binary" /\ rhs.text \in UpdateOperators /\ rhs.text \in DOMAIN BINOP
          /\ rhs.kids[1] = n.kids[1]
        BY <2>4, UpdateTable DEF IsSelfUpdate
    <3>3. Len(rhs.kids) = 2 /\ DOMAIN rhs.kids = 1 .. 2 /\ IsExpr(rhs.kids[2])
        BY <2>1, <3>2, NodeParts DEF IsWellFormed, Exprs
    <3>4. Seen(rhs) = {1, 2}
        BY <3>2, <3>3 DEF Seen
    <3>5. ExprSays(n.kids[1]) /\ ExprSays(rhs.kids[2])
        BY <2>1, <3>3
    <3>6. Says(LiftExpr[n.kids[1]], n.kids[1], n) /\ Says(LiftExpr[n.kids[1]], n.kids[1], rhs)
        BY <1>7, <2>1, <3>2, <3>5 DEF ExprSays, IsAssignment
    <3>7. Says(LiftExpr[rhs.kids[2]], rhs.kids[2], rhs)
        BY <3>2, <3>3, <3>5 DEF ExprSays
    <3>8. ~IsRefused(rhs, n)
      <4>1. rhs.text # "=" /\ rhs.text \notin RefusedOperators
          BY <3>2, Operators
      <4>. QED BY <3>2, <4>1 DEF IsRefused, RefusedOperators, IsInexpressible, IsOverlooked
    <3>9. Lost(rhs, n) <=> Lost(n.kids[1], rhs) \/ Lost(rhs.kids[2], rhs)
        BY <2>1, <3>2, <3>4, <3>8, LostIs DEF LostInside
    <3>10. LostInside(n) <=> Lost(n.kids[1], n) \/ Lost(rhs, n)
        BY <2>2 DEF LostInside
    <3>11. r.notes \in Notes /\ (r.notes # <<>> <=> LiftExpr[n.kids[1]].notes # <<>> \/ LiftExpr[rhs.kids[2]].notes # <<>>)
        BY <3>1, <3>6, <3>7, NotesOfTwo DEF Says
    <3>. QED BY <2>3, <2>4, <3>6, <3>7, <3>9, <3>10, <3>11, LostIs DEF Says
  <2>5. CASE ~IsSelfUpdate(n)
    <3>1. r = Refused("assignment used as expression")
        BY <1>1, <1>7, <2>5, Operators DEF ExprBy, IsAssignment
    <3>2. "assignment used as expression" \in Whys
        BY DEF Whys
    <3>. QED BY <2>3, <2>5, <3>1, <3>2, LostIs, RefusedSays
  <2>. QED BY <2>4, <2>5
<1>8. CASE n.kind = "Binary" /\ n.text # "=" /\ n.text \in DOMAIN BINOP \cup DOMAIN COMPOUND
  <2>1. PICK kind, text : r = Built(kind, text, [i \in DOMAIN n.kids |-> LiftExpr[n.kids[i]]])
      BY <1>1, <1>8, Operators DEF ExprBy
  <2>2. \A i \in DOMAIN n.kids : IsExpr(n.kids[i])
      BY <1>2, <1>8 DEF IsWellFormed, Exprs
  <2>3. Seen(n) = DOMAIN n.kids /\ n.kind # "Expression"
      BY <1>8 DEF Seen
  <2>4. r.notes \in Notes /\ (r.notes # <<>> <=> LostInside(n))
      BY <2>1, <2>2, <2>3, KeptSays
  <2>5. ~IsRefused(n, parent)
      BY <1>8, Operators DEF IsRefused, RefusedOperators, IsInexpressible, IsOverlooked
  <2>. QED BY <2>4, <2>5, LostIs DEF Says
<1>9. CASE n.kind = "Binary" /\ n.text # "=" /\ n.text \notin DOMAIN BINOP \cup DOMAIN COMPOUND
  <2>1. r = Refused(n.kind)
      BY <1>1, <1>9 DEF ExprBy
  <2>2. n.text \in BinaryOperators
      BY <1>2, <1>9 DEF IsWellFormed
  <2>3. IsRefused(n, parent)
      BY <1>9, <2>2, Operators DEF IsRefused, RefusedOperators, IsInexpressible, IsOverlooked
  <2>. QED BY <1>12, <2>1, <2>3, LostIs, RefusedSays
<1>10. CASE n.kind = "Call"
  <2> DEFINE args == [i \in 1 .. Len(n.kids) - 1 |-> LiftExpr[n.kids[i + 1]]]
             callee == Result(n.kids[1], <<>>)
             all == << callee >> \o args
  <2>1. Len(n.kids) >= 1 /\ \A i \in DOMAIN n.kids : IsExpr(n.kids[i])
    <3>1. n.kids # <<>> /\ Exprs(n.kids, Len(n.kids))
        BY <1>2, <1>10 DEF IsWellFormed
    <3>2. Len(n.kids) # 0
        BY <1>2, <3>1, EmptySeq
    <3>. QED BY <1>2, <3>1, <3>2 DEF Exprs
  <2>2. r = Built("call", "", all)
      BY <1>1, <1>10 DEF ExprBy
  <2>3. PICK m \in Nat : m + 1 = Len(n.kids)
    <3>1. Len(n.kids) - 1 \in Nat /\ (Len(n.kids) - 1) + 1 = Len(n.kids)
        BY <1>2, <2>1
    <3>. QED BY <3>1
  <2>4. args = [i \in 1 .. m |-> args[i]] /\ \A i \in 1 .. m : args[i] = LiftExpr[n.kids[i + 1]]
      BY <2>3
  <2>5. << callee >> = [i \in 1 .. 1 |-> << callee >>[i]] /\ << callee >>[1] = callee
      OBVIOUS
  <2> HIDE DEF args
  <2>6. /\ DOMAIN all = 1 .. 1 + m /\ \A i \in 1 .. 1 : all[i] = << callee >>[i]
        /\ \A i \in 1 .. m : all[1 + i] = args[i]
    <3> DEFINE one == << callee >>
    <3>1. one = [i \in 1 .. 1 |-> one[i]]
        BY <2>5
    <3> HIDE DEF one, callee
    <3>2. /\ one \o args = [i \in 1 .. 1 + m |-> (one \o args)[i]]
          /\ \A i \in 1 .. 1 : (one \o args)[i] = one[i]
          /\ \A i \in 1 .. m : (one \o args)[1 + i] = args[i]
        BY <2>4, <3>1, ConcatElements
    <3>. QED BY <3>2 DEF one
  <2> HIDE DEF all
  <2>7. \A i \in 1 .. 1 + m : i = 1 \/ \E j \in 1 .. m : i = 1 + j
    <3>1. \A i \in 1 .. 1 + m : i = 1 \/ (i - 1 \in 1 .. m /\ i = 1 + (i - 1))
        OBVIOUS
    <3>. QED BY <3>1
  <2>8. \A j \in 1 .. m : j + 1 \in DOMAIN n.kids /\ 1 + j = j + 1 /\ 1 + j \in 1 .. 1 + m
      BY <1>2, <2>3
  <2>9. \A j \in 1 .. m : all[1 + j] = LiftExpr[n.kids[j + 1]] /\ Says(LiftExpr[n.kids[j + 1]], n.kids[j + 1], n)
      BY <1>10, <2>1, <2>4, <2>6, <2>8 DEF ExprSays
  <2>10. 1 \in 1 .. 1 /\ all[1] = callee /\ callee.notes = <<>>
      BY <2>5, <2>6, NotesOf
  <2> HIDE DEF callee
  <2>11. \A i \in 1 .. 1 + m : all[i].notes \in Notes
      BY <2>7, <2>9, <2>10, NoNotes DEF Says
  <2>12. r.notes \in Notes /\ (r.notes # <<>> <=> \E i \in 1 .. 1 + m : all[i].notes # <<>>)
    <3>1. PICK k \in Nat : k = 1 + m
        OBVIOUS
    <3>2. /\ Built("call", "", all).notes \in Notes
          /\ Built("call", "", all).notes # <<>> <=> \E i \in 1 .. k : all[i].notes # <<>>
      <4>1. DOMAIN all = 1 .. k /\ \A i \in 1 .. k : all[i].notes \in Notes
          BY <2>6, <2>11, <3>1
      <4>. QED BY <4>1, NotesOfBuilt
    <3>. QED BY <2>2, <3>1, <3>2
  <2>13. (\E i \in 1 .. 1 + m : all[i].notes # <<>>) <=> \E j \in 1 .. m : Lost(n.kids[j + 1], n)
    <3>1. ASSUME NEW i \in 1 .. 1 + m, all[i].notes # <<>>
          PROVE  \E j \in 1 .. m : Lost(n.kids[j + 1], n)
      <4>1. PICK j \in 1 .. m : i = 1 + j
          BY <2>7, <2>10, <3>1
      <4>. QED BY <2>9, <3>1, <4>1 DEF Says
    <3>2. ASSUME NEW j \in 1 .. m, Lost(n.kids[j + 1], n)
          PROVE  \E i \in 1 .. 1 + m : all[i].notes # <<>>
        BY <2>8, <2>9, <3>2 DEF Says
    <3>. QED BY <3>1, <3>2
  <2>14. LostInside(n) <=> \E j \in 1 .. m : Lost(n.kids[j + 1], n)
    <3>1. Seen(n) = 2 .. Len(n.kids)
        BY <1>10 DEF Seen
    <3>2. \A i \in 2 .. Len(n.kids) : i - 1 \in 1 .. m /\ (i - 1) + 1 = i
        BY <2>3
    <3>3. \A j \in 1 .. m : j + 1 \in 2 .. Len(n.kids)
        BY <2>3
    <3>. QED BY <3>1, <3>2, <3>3 DEF LostInside
  <2>15. ~IsRefused(n, parent)
      BY <1>10 DEF IsRefused, IsInexpressible, IsOverlooked, Expressible
  <2>. QED BY <2>12, <2>13, <2>14, <2>15, LostIs DEF Says
<1>11. CASE n.kind \notin ExprKinds
  <2>1. r = Refused(n.kind)
      BY <1>1, <1>11 DEF ExprBy, ExprKinds, Atoms
  <2>2. IsRefused(n, parent)
      BY <1>11 DEF IsRefused, IsInexpressible, IsOverlooked, Expressible, IsExpr,
                   ExprKinds, TypeKinds, StmtKinds,
                   PartKinds, SimpleTypes, Atoms
  <2>. QED BY <1>12, <2>1, <2>2, LostIs, RefusedSays
<1>. QED BY <1>3, <1>4, <1>5, <1>6, <1>7, <1>8, <1>9, <1>10, <1>11 DEF ExprKinds, IsAssignment

LEMMA ExprsSay == \A n \in Nodes : ExprSays(n)
<1> DEFINE T == {n \in Nodes : ExprSays(n) /\ \A i \in DOMAIN n.kids : ExprSays(n.kids[i])}
<1>1. ASSUME NEW n \in Nodes, n.kids \in Seq(Nodes \cap T) PROVE n \in T
  <2>1. \A i \in DOMAIN n.kids :
          /\ n.kids[i] \in Nodes /\ ExprSays(n.kids[i])
          /\ \A j \in DOMAIN n.kids[i].kids : ExprSays(n.kids[i].kids[j])
      BY <1>1
  <2>2. ExprSays(n)
      BY <2>1, ExprStep DEF ExprSays
  <2>. QED BY <2>1, <2>2
<1>. QED
  <2> HIDE DEF T
  <2>1. Nodes \subseteq T
      BY <1>1, TreeInduction
  <2>. QED BY <2>1 DEF T

(* What is lost does not depend on the parent, with three exceptions.      *)
LEMMA AnyParent ==
    ASSUME NEW n \in Nodes, NEW p, NEW q,
           ~IsAssignment(n), n.kind # "Block", n.kind # "Intersection"
    PROVE  Lost(n, p) <=> Lost(n, q)
<1>1. IsRefused(n, p) <=> IsRefused(n, q)
    BY DEF IsRefused, IsInexpressible, IsOverlooked, IsAssignment
<1>. QED BY <1>1, LostIs

(* Parts that may be missing.                                              *)
LEMMA OptionalSays ==
    ASSUME NEW n \in Nodes, Missing(n) \/ IsExpr(n), NEW parent, parent.kind # "Expression"
    PROVE  Says(LiftOptional(n), n, parent)
<1>1. CASE Missing(n)
  <2>1. n = Absent /\ ~Lost(n, parent)
      BY <1>1, AbsentIsNotLost
  <2>2. LiftOptional(n).notes = <<>>
      BY <2>1, NotesOf DEF LiftOptional
  <2>. QED BY <2>1, <2>2, NoNotes DEF Says
<1>2. CASE ~Missing(n)
  <2>1. n # Absent /\ IsExpr(n)
      BY <1>2, AbsentIs DEF Missing
  <2>2. LiftOptional(n) = LiftExpr[n]
      BY <2>1 DEF LiftOptional
  <2>. QED BY <2>1, <2>2, ExprsSay DEF ExprSays
<1>. QED BY <1>1, <1>2

-----------------------------------------------------------------------------
(* Statements.                                                             *)

Branching == {"If", "For", "While"}

StmtSays(n) ==
    IsStmt(n) =>
      \A parent : n.kind # "Block" \/ parent.kind \notin Branching =>
        Says(LiftStmt[n], n, parent)

LEMMA RefusedStmtSays ==
    ASSUME NEW why \in Whys, NEW n, NEW parent, Lost(n, parent)
    PROVE  Says(RefusedStmt(why), n, parent)
<1>1. RefusedStmt(why).notes = << why >>
    BY NotesOf DEF RefusedStmt
<1>. QED BY <1>1, OneNote DEF Says

LEMMA VariableSays ==
    ASSUME NEW n \in Nodes, n.kind = "Variable", NEW parent
    PROVE  Says(LiftVar(n.kids), n, parent)
<1> DEFINE d == n.kids[1]
<1>1. /\ n.kids \in Seq(Nodes) /\ DOMAIN n.kids = 1 .. Len(n.kids) /\ Len(n.kids) \in Nat
      /\ \A i \in DOMAIN n.kids : n.kids[i].kind \in {"Declaration", "Pattern"}
    BY NodeParts DEF IsWellFormed
<1>2. IsRefused(n, parent) <=> Len(n.kids) # 1 \/ d.kind = "Pattern"
    BY DEF IsRefused, IsInexpressible, IsOverlooked
<1>3. CASE Len(n.kids) # 1
  <2>1. LiftVar(n.kids) = RefusedStmt("multi-binding variable declaration")
      BY <1>3 DEF LiftVar
  <2>2. "multi-binding variable declaration" \in Whys
      BY DEF Whys
  <2>. QED BY <1>2, <1>3, <2>1, <2>2, LostIs, RefusedStmtSays
<1>4. CASE Len(n.kids) = 1 /\ d.kind = "Pattern"
  <2>1. LiftVar(n.kids) = RefusedStmt("destructuring declaration")
      BY <1>4 DEF LiftVar
  <2>2. "destructuring declaration" \in Whys
      BY DEF Whys
  <2>. QED BY <1>2, <1>4, <2>1, <2>2, LostIs, RefusedStmtSays
<1>5. CASE Len(n.kids) = 1 /\ d.kind # "Pattern"
  <2>1. DOMAIN n.kids = {1} /\ d \in Nodes /\ d.kind = "Declaration"
      BY <1>1, <1>5
  <2>2. /\ d.kids \in Seq(Nodes) /\ Len(d.kids) = 2
        /\ Missing(d.kids[1]) \/ IsType(d.kids[1])
        /\ Missing(d.kids[2]) \/ IsExpr(d.kids[2])
      BY <2>1, NodeParts DEF IsWellFormed
  <2>3. d.kids[1] \in Nodes /\ d.kids[2] \in Nodes /\ DOMAIN d.kids = {1, 2}
      BY <2>2
  <2>4. LiftVar(n.kids) = Built("vardecl", d.text, << TypeFromNode[d.kids[1]], LiftOptional(d.kids[2]) >>)
      BY <1>5 DEF LiftVar
  <2>5. Says(TypeFromNode[d.kids[1]], d.kids[1], d) /\ Says(LiftOptional(d.kids[2]), d.kids[2], d)
      BY <2>1, <2>2, <2>3, TypeSaysSo, OptionalSays
  <2>6. Seen(n) = {1} /\ Seen(d) = {1, 2} /\ ~IsRefused(d, n)
      BY <2>1, <2>3 DEF Seen, IsRefused, IsInexpressible, IsOverlooked, Expressible
  <2>7. Lost(n, parent) <=> Lost(d, n)
      BY <1>2, <1>5, <2>6, LostIs DEF LostInside
  <2>8. Lost(d, n) <=> Lost(d.kids[1], d) \/ Lost(d.kids[2], d)
      BY <2>1, <2>6, LostIs DEF LostInside
  <2>9. /\ LiftVar(n.kids).notes \in Notes
        /\ LiftVar(n.kids).notes # <<>> <=>
             TypeFromNode[d.kids[1]].notes # <<>> \/ LiftOptional(d.kids[2]).notes # <<>>
      BY <2>4, <2>5, NotesOfTwo DEF Says
  <2>. QED BY <2>5, <2>7, <2>8, <2>9 DEF Says
<1>. QED BY <1>3, <1>4, <1>5

(* A list of statements, the children of parent.                           *)
LEMMA ListSays ==
    ASSUME NEW stmts \in Seq(Nodes), NEW parent,
           \A i \in DOMAIN stmts : Says(LiftStmt[stmts[i]], stmts[i], parent)
    PROVE  /\ ListBy(LiftStmt, stmts).notes \in Notes
           /\ ListBy(LiftStmt, stmts).notes # <<>> <=> \E i \in DOMAIN stmts : Lost(stmts[i], parent)
<1> DEFINE results == [i \in DOMAIN stmts |-> LiftStmt[stmts[i]]]
<1>1. DOMAIN stmts = 1 .. Len(stmts) /\ Len(stmts) \in Nat
    OBVIOUS
<1>2. ListBy(LiftStmt, stmts) = Built("list", "", results)
    BY DEF ListBy
<1>3. DOMAIN results = 1 .. Len(stmts) /\ \A i \in 1 .. Len(stmts) : results[i] = LiftStmt[stmts[i]]
    BY <1>1
<1> HIDE DEF results
<1>4. /\ Built("list", "", results).notes \in Notes
      /\ Built("list", "", results).notes # <<>> <=> \E i \in 1 .. Len(stmts) : results[i].notes # <<>>
  <2>1. \A i \in 1 .. Len(stmts) : results[i].notes \in Notes
      BY <1>1, <1>3 DEF Says
  <2>2. DOMAIN results = 1 .. Len(stmts) /\ Len(stmts) \in Nat
      BY <1>1, <1>3
  <2>. QED BY <2>1, <2>2, NotesOfBuilt
<1>. QED BY <1>1, <1>2, <1>3, <1>4 DEF Says

(* A branch is a block or one statement.                                   *)
LEMMA BranchSays ==
    ASSUME NEW b \in Nodes, IsStmt(b), NEW parent, parent.kind \in Branching,
           StmtSays(b), \A i \in DOMAIN b.kids : StmtSays(b.kids[i])
    PROVE  Says(BranchBy(LiftStmt, b), b, parent)
<1>1. CASE b.kind = "Block"
  <2>1. /\ b.kids \in Seq(Nodes)
        /\ \A i \in DOMAIN b.kids : IsStmt(b.kids[i])
      BY <1>1, NodeParts DEF IsWellFormed
  <2>2. \A i \in DOMAIN b.kids : Says(LiftStmt[b.kids[i]], b.kids[i], b)
      BY <1>1, <2>1 DEF StmtSays, Branching
  <2>3. BranchBy(LiftStmt, b) = ListBy(LiftStmt, b.kids)
      BY <1>1 DEF BranchBy
  <2>4. ~IsRefused(b, parent) /\ Seen(b) = DOMAIN b.kids
      BY <1>1 DEF IsRefused, IsInexpressible, IsOverlooked, Branching, Seen
  <2>5. Lost(b, parent) <=> \E i \in DOMAIN b.kids : Lost(b.kids[i], b)
      BY <2>4, LostIs DEF LostInside
  <2>. QED BY <2>1, <2>2, <2>3, <2>5, ListSays DEF Says
<1>2. CASE b.kind # "Block"
  <2> DEFINE one == << b >>
  <2>1. BranchBy(LiftStmt, b) = ListBy(LiftStmt, one)
      BY <1>2 DEF BranchBy
  <2>2. one \in Seq(Nodes) /\ Len(one) = 1 /\ one[1] = b
      BY Single
  <2> HIDE DEF one
  <2>3. DOMAIN one = {1}
      BY <2>2
  <2>4. Says(LiftStmt[b], b, parent)
      BY <1>2 DEF StmtSays
  <2>5. /\ ListBy(LiftStmt, one).notes \in Notes
        /\ ListBy(LiftStmt, one).notes # <<>> <=> \E i \in DOMAIN one : Lost(one[i], parent)
      BY <2>2, <2>3, <2>4, ListSays
  <2>. QED BY <2>1, <2>2, <2>3, <2>5 DEF Says
<1>. QED BY <1>1, <1>2

LEMMA StmtStep ==
    ASSUME NEW n \in Nodes, IsStmt(n),
           \A i \in DOMAIN n.kids :
             /\ n.kids[i] \in Nodes /\ StmtSays(n.kids[i])
             /\ \A j \in DOMAIN n.kids[i].kids : StmtSays(n.kids[i].kids[j])
    PROVE  StmtSays(n)
<1> DEFINE r == LiftStmt[n]
<1>1. r = StmtBy(LiftStmt, n)
    BY LiftStmtIs
<1>2. /\ n.kids \in Seq(Nodes) /\ DOMAIN n.kids = 1 .. Len(n.kids) /\ Len(n.kids) \in Nat
      /\ IsWellFormed(n)
    BY NodeParts
<1>3. n.kind \in Whys
    BY DEF Whys
<1> SUFFICES ASSUME NEW parent, n.kind # "Block" \/ parent.kind \notin Branching
             PROVE  Says(r, n, parent)
    BY DEF StmtSays
<1>4. CASE n.kind = "Variable"
  <2>1. r = LiftVar(n.kids)
      BY <1>1, <1>4 DEF StmtBy
  <2>. QED BY <1>4, <2>1, VariableSays
<1>5. CASE n.kind = "Expression"
  <2> DEFINE e == n.kids[1]
  <2>1. DOMAIN n.kids = {1} /\ e \in Nodes /\ IsExpr(e)
      BY <1>2, <1>5 DEF IsWellFormed, Exprs
  <2>2. ~IsRefused(n, parent) /\ Seen(n) = {1}
      BY <1>5, <2>1 DEF IsRefused, IsInexpressible, IsOverlooked, Expressible, Seen
  <2>3. Lost(n, parent) <=> Lost(e, n)
      BY <2>2, LostIs DEF LostInside
  <2>4. CASE IsAssignment(e)
    <3>1. r = Built("assign", "", << LiftExpr[e.kids[1]], LiftExpr[e.kids[2]] >>)
        BY <1>1, <1>5, <2>4 DEF StmtBy, IsAssignment
    <3>2. e.kids \in Seq(Nodes) /\ Exprs(e.kids, 2)
        BY <2>1, <2>4, NodeParts DEF IsWellFormed, IsAssignment
    <3>3. /\ DOMAIN e.kids = {1, 2} /\ e.kids[1] \in Nodes /\ e.kids[2] \in Nodes
          /\ IsExpr(e.kids[1]) /\ IsExpr(e.kids[2])
        BY <3>2 DEF Exprs
    <3>4. e.kind = "Binary" /\ Seen(e) = {1, 2}
        BY <2>4, <3>3 DEF Seen, IsAssignment
    <3>5. Says(LiftExpr[e.kids[1]], e.kids[1], e) /\ Says(LiftExpr[e.kids[2]], e.kids[2], e)
        BY <3>3, <3>4, ExprsSay DEF ExprSays
    <3>6. ~IsRefused(e, n)
        BY <1>5, <2>4 DEF IsRefused, IsInexpressible, IsOverlooked, IsAssignment
    <3>7. Lost(e, n) <=> Lost(e.kids[1], e) \/ Lost(e.kids[2], e)
        BY <2>1, <3>4, <3>6, LostIs DEF LostInside
    <3>8. Lost(n, parent) <=> Lost(e.kids[1], e) \/ Lost(e.kids[2], e)
        BY <2>3, <3>7
    <3>. QED BY <3>1, <3>5, <3>8, TwoSay
  <2>5. CASE ~IsAssignment(e)
    <3>1. r = Built("exprstmt", "", << LiftExpr[e] >>)
        BY <1>1, <1>5, <2>5 DEF StmtBy, IsAssignment
    <3>2. Says(LiftExpr[e], e, n)
        BY <2>1, <2>5, ExprsSay DEF ExprSays
    <3>3. r.notes \in Notes /\ (r.notes # <<>> <=> LiftExpr[e].notes # <<>>)
        BY <3>1, <3>2, NotesOfOne DEF Says
    <3>. QED BY <2>3, <3>2, <3>3 DEF Says
  <2>. QED BY <2>4, <2>5
<1>6. CASE n.kind = "Return"
  <2> DEFINE e == n.kids[1]
  <2>1. DOMAIN n.kids = {1} /\ e \in Nodes /\ (Missing(e) \/ IsExpr(e))
      BY <1>2, <1>6 DEF IsWellFormed
  <2>2. ~IsRefused(n, parent) /\ Seen(n) = {1}
      BY <1>6, <2>1 DEF IsRefused, IsInexpressible, IsOverlooked, Expressible, Seen
  <2>3. Lost(n, parent) <=> Lost(e, n)
      BY <2>2, LostIs DEF LostInside
  <2>4. r = Built("return", "", << LiftOptional(e) >>)
      BY <1>1, <1>6 DEF StmtBy
  <2>5. Says(LiftOptional(e), e, n)
      BY <1>6, <2>1, OptionalSays
  <2>6. r.notes \in Notes /\ (r.notes # <<>> <=> LiftOptional(e).notes # <<>>)
      BY <2>4, <2>5, NotesOfOne DEF Says
  <2>. QED BY <2>3, <2>5, <2>6 DEF Says
<1>7. CASE n.kind = "If"
  <2> DEFINE a == n.kids[1]
             b == n.kids[2]
             c == n.kids[3]
             otherwise == IF c = Absent THEN Result(Absent, <<>>) ELSE BranchBy(LiftStmt, c)
  <2>1. /\ Len(n.kids) = 3 /\ IsExpr(a) /\ IsStmt(b)
        /\ Missing(c) \/ IsStmt(c)
      BY <1>2, <1>7 DEF IsWellFormed
  <2>2. DOMAIN n.kids = {1, 2, 3} /\ a \in Nodes /\ b \in Nodes /\ c \in Nodes
      BY <1>2, <2>1
  <2>3. ~IsRefused(n, parent) /\ Seen(n) = {1, 2, 3} /\ n.kind \in Branching
      BY <1>7, <2>2 DEF IsRefused, IsInexpressible, IsOverlooked, Expressible, Seen, Branching
  <2>4. Lost(n, parent) <=> Lost(a, n) \/ Lost(b, n) \/ Lost(c, n)
      BY <2>3, LostIs DEF LostInside
  <2>5. r = Built("if", "", << LiftExpr[a], BranchBy(LiftStmt, b), otherwise >>)
      BY <1>1, <1>7 DEF StmtBy
  <2>6. Says(LiftExpr[a], a, n)
      BY <1>7, <2>1, <2>2, ExprsSay DEF ExprSays
  <2>7. Says(BranchBy(LiftStmt, b), b, n)
      BY <2>1, <2>2, <2>3, BranchSays
  <2>8. Says(otherwise, c, n)
    <3>1. CASE Missing(c)
        BY <2>2, <3>1, AbsentIsNotLost, NotesOf, NoNotes DEF Says
    <3>2. CASE ~Missing(c)
        BY <2>1, <2>2, <2>3, <3>2, AbsentIs, BranchSays DEF Missing
    <3>. QED BY <3>1, <3>2
  <2> HIDE DEF otherwise, r, a, b, c
  <2>9. PICK kind, text :
          r = Built(kind, text, << LiftExpr[a], BranchBy(LiftStmt, b), otherwise >>)
      BY <2>5
  <2>. QED BY <2>4, <2>6, <2>7, <2>8, <2>9, ThreeSay
<1>8. CASE n.kind = "For"
  <2> DEFINE init == n.kids[1]
             b == n.kids[2]
             c == n.kids[3]
             d == n.kids[4]
             first == CASE init = Absent -> Result(Absent, <<>>)
                        [] init.kind = "Variable" -> LiftVar(init.kids)
                        [] OTHER -> Built("exprstmt", "", << LiftExpr[init] >>)
  <2>1. /\ Len(n.kids) = 4 /\ IsStmt(d)
        /\ Missing(init) \/ init.kind = "Variable" \/ IsExpr(init)
        /\ Missing(b) \/ IsExpr(b)
        /\ Missing(c) \/ IsExpr(c)
    <3>1. /\ Len(n.kids) = 4 /\ IsStmt(d)
          /\ Missing(init) \/ init.kind = "Variable" \/ IsExpr(init)
          /\ \A i \in 2 .. 3 : Missing(n.kids[i]) \/ IsExpr(n.kids[i])
        BY <1>2, <1>8 DEF IsWellFormed
    <3>. QED BY <3>1
  <2>2. /\ DOMAIN n.kids = {1, 2, 3, 4}
        /\ init \in Nodes /\ b \in Nodes /\ c \in Nodes /\ d \in Nodes
      BY <1>2, <2>1
  <2>3. ~IsRefused(n, parent) /\ Seen(n) = {1, 2, 3, 4} /\ n.kind \in Branching
      BY <1>8, <2>2 DEF IsRefused, IsInexpressible, IsOverlooked, Expressible, Seen, Branching
  <2>4. Lost(n, parent) <=> Lost(init, n) \/ Lost(b, n) \/ Lost(c, n) \/ Lost(d, n)
      BY <2>3, LostIs DEF LostInside
  <2>5. r = Built("for", "", << first, LiftOptional(b), LiftOptional(c), BranchBy(LiftStmt, d) >>)
      BY <1>1, <1>8 DEF StmtBy
  <2>6. Says(LiftOptional(b), b, n) /\ Says(LiftOptional(c), c, n)
      BY <1>8, <2>1, <2>2, OptionalSays
  <2>7. Says(BranchBy(LiftStmt, d), d, n)
      BY <2>1, <2>2, <2>3, BranchSays
  <2>8. Says(first, init, n)
    <3>1. CASE Missing(init)
      <4>1. init = Absent /\ ~Lost(init, n) /\ init.kind # "Variable"
          BY <2>2, <3>1, AbsentIsNotLost DEF Missing
      <4>2. first = Result(Absent, <<>>)
          BY <4>1
      <4>. QED BY <4>1, <4>2, NotesOf, NoNotes DEF Says
    <3>2. CASE init.kind = "Variable"
      <4>1. first = LiftVar(init.kids)
          BY <3>2, AbsentIs
      <4>. QED BY <2>2, <3>2, <4>1, VariableSays
    <3>3. CASE ~Missing(init) /\ init.kind # "Variable"
      <4>1. init # Absent /\ IsExpr(init)
          BY <2>1, <3>3, AbsentIs DEF Missing
      <4>2. first = Built("exprstmt", "", << LiftExpr[init] >>)
          BY <3>3, <4>1
      <4>3. Says(LiftExpr[init], init, n)
          BY <1>8, <2>2, <4>1, ExprsSay DEF ExprSays
      <4> HIDE DEF first
      <4>4. first.notes \in Notes /\ (first.notes # <<>> <=> LiftExpr[init].notes # <<>>)
          BY <4>2, <4>3, NotesOfOne DEF Says
      <4>. QED BY <4>3, <4>4 DEF Says
    <3>. QED BY <3>1, <3>2, <3>3
  <2> HIDE DEF first, r, init, b, c, d
  <2>9. PICK kind, text :
          r = Built(kind, text, << first, LiftOptional(b), LiftOptional(c), BranchBy(LiftStmt, d) >>)
      BY <2>5
  <2>. QED BY <2>4, <2>6, <2>7, <2>8, <2>9, FourSay
<1>9. CASE n.kind = "While"
  <2> DEFINE a == n.kids[1]
             b == n.kids[2]
  <2>1. Len(n.kids) = 2 /\ IsExpr(a) /\ IsStmt(b)
      BY <1>2, <1>9 DEF IsWellFormed
  <2>2. DOMAIN n.kids = {1, 2} /\ a \in Nodes /\ b \in Nodes
      BY <1>2, <2>1
  <2>3. ~IsRefused(n, parent) /\ Seen(n) = {1, 2} /\ n.kind \in Branching
      BY <1>9, <2>2 DEF IsRefused, IsInexpressible, IsOverlooked, Expressible, Seen, Branching
  <2>4. Lost(n, parent) <=> Lost(a, n) \/ Lost(b, n)
      BY <2>3, LostIs DEF LostInside
  <2>5. r = Built("while", "", << LiftExpr[a], BranchBy(LiftStmt, b) >>)
      BY <1>1, <1>9 DEF StmtBy
  <2>6. Says(LiftExpr[a], a, n)
      BY <1>9, <2>1, <2>2, ExprsSay DEF ExprSays
  <2>7. Says(BranchBy(LiftStmt, b), b, n)
      BY <2>1, <2>2, <2>3, BranchSays
  <2> HIDE DEF r, a, b
  <2>. QED BY <2>4, <2>5, <2>6, <2>7, TwoSay
<1>10. CASE n.kind \in {"Break", "Continue"}
  <2>1. PICK kind : r = Result(Leaf(kind, ""), <<>>)
      BY <1>1, <1>10 DEF StmtBy
  <2>2. n.kids = <<>>
      BY <1>2, <1>10 DEF IsWellFormed
  <2>3. ~LostInside(n)
      BY <1>10, <2>2 DEF LostInside, Seen
  <2>4. ~IsRefused(n, parent)
      BY <1>10 DEF IsRefused, IsInexpressible, IsOverlooked, Expressible
  <2>. QED BY <2>1, <2>3, <2>4, LostIs, NotesOf, NoNotes DEF Says
<1>11. CASE n.kind \notin StmtKinds \ {"Block"}
  <2>1. r = RefusedStmt(n.kind)
      BY <1>1, <1>11 DEF StmtBy, StmtKinds
  <2>2. IsRefused(n, parent)
    <3>1. CASE n.kind = "Block"
        BY <3>1 DEF IsRefused, IsInexpressible, IsOverlooked, Branching
    <3>2. CASE n.kind # "Block"
        BY <1>11, <3>2 DEF IsRefused, IsInexpressible, IsOverlooked, Expressible, IsStmt,
                   ExprKinds, TypeKinds,
                   StmtKinds, PartKinds, SimpleTypes, Atoms
    <3>. QED BY <3>1, <3>2
  <2>. QED BY <1>3, <2>1, <2>2, LostIs, RefusedStmtSays
<1>. QED BY <1>4, <1>5, <1>6, <1>7, <1>8, <1>9, <1>10, <1>11 DEF StmtKinds

LEMMA StmtsSay == \A n \in Nodes : StmtSays(n)
<1> DEFINE T == {n \in Nodes : StmtSays(n) /\ \A i \in DOMAIN n.kids : StmtSays(n.kids[i])}
<1>1. ASSUME NEW n \in Nodes, n.kids \in Seq(Nodes \cap T) PROVE n \in T
  <2>1. \A i \in DOMAIN n.kids :
          /\ n.kids[i] \in Nodes /\ StmtSays(n.kids[i])
          /\ \A j \in DOMAIN n.kids[i].kids : StmtSays(n.kids[i].kids[j])
      BY <1>1
  <2>2. StmtSays(n)
      BY <2>1, StmtStep DEF StmtSays
  <2>. QED BY <2>1, <2>2
<1>. QED
  <2> HIDE DEF T
  <2>1. Nodes \subseteq T
      BY <1>1, TreeInduction
  <2>. QED BY <2>1 DEF T

-----------------------------------------------------------------------------
(* Functions.                                                              *)

LEMMA TopIs == Top.kind = "Function"
BY DEF Top, Leaf, Node

LEMMA ParamSays ==
    ASSUME NEW p \in Nodes, p.kind \in {"Parameter", "Pattern"}
    PROVE  Says(LiftParam(p), p, Top)
<1>1. CASE p.kind = "Pattern"
  <2>1. LiftParam(p).notes = << "destructured parameter" >>
      BY <1>1, NotesOf DEF LiftParam
  <2>2. "destructured parameter" \in Whys
      BY DEF Whys
  <2>3. IsRefused(p, Top)
      BY <1>1 DEF IsRefused, IsInexpressible, IsOverlooked, Expressible
  <2>. QED BY <2>1, <2>2, <2>3, OneNote, LostIs DEF Says
<1>2. CASE p.kind = "Parameter"
  <2> DEFINE t == p.kids[1]
  <2>1. p.kids \in Seq(Nodes) /\ Len(p.kids) = 2 /\ (Missing(t) \/ IsType(t))
      BY <1>2, NodeParts DEF IsWellFormed
  <2>2. t \in Nodes
      BY <2>1
  <2>3. LiftParam(p) = Built("param", p.text, << TypeFromNode[t] >>)
      BY <1>2 DEF LiftParam
  <2>4. Says(TypeFromNode[t], t, p)
      BY <1>2, <2>1, <2>2, TypeSaysSo
  <2>5. ~IsRefused(p, Top) /\ Seen(p) = {1}
      BY <1>2 DEF IsRefused, IsInexpressible, IsOverlooked, Expressible, Seen
  <2>6. Lost(p, Top) <=> Lost(t, p)
      BY <2>5, LostIs DEF LostInside
  <2>7. LiftParam(p).notes \in Notes /\ (LiftParam(p).notes # <<>> <=> TypeFromNode[t].notes # <<>>)
      BY <2>3, <2>4, NotesOfOne DEF Says
  <2>. QED BY <2>4, <2>6, <2>7 DEF Says
<1>. QED BY <1>1, <1>2

(* A list of lifts, of the parts of a declaration.                         *)
LEMMA PartsSay ==
    ASSUME NEW parts \in Seq(Nodes), NEW results,
           results = [i \in DOMAIN parts |-> results[i]],
           \A i \in DOMAIN parts : Says(results[i], parts[i], Top)
    PROVE  /\ AllNotes(results) \in Notes
           /\ AllNotes(results) # <<>> <=> \E n \in Range(parts) : Lost(n, Top)
<1>1. PICK m \in Nat : DOMAIN parts = 1 .. m
    OBVIOUS
<1>2. DOMAIN results = 1 .. m /\ \A i \in 1 .. m : results[i].notes \in Notes
    BY <1>1 DEF Says
<1>3. /\ AllNotes(results) \in Notes
      /\ AllNotes(results) # <<>> <=> \E i \in 1 .. m : results[i].notes # <<>>
    BY <1>2, NotesOfAll
<1>4. (\E i \in 1 .. m : results[i].notes # <<>>) <=> \E n \in Range(parts) : Lost(n, Top)
    BY <1>1 DEF Says, Range
<1>. QED BY <1>3, <1>4

LEMMA MoreNotes ==
    ASSUME NEW a \in Notes, NEW b \in Notes
    PROVE  a \o b \in Notes /\ (a \o b # <<>> <=> a # <<>> \/ b # <<>>)
BY ConcatProperties, ConcatEqualIffEmpty DEF Notes

LEMMA DeclParts ==
    ASSUME NEW d \in Decls
    PROVE  /\ d.params \in Seq(Nodes) /\ d.ret \in Nodes /\ d.typeParams \in Seq(Nodes)
           /\ d.body \in Seq(Nodes) /\ d.fields \in Seq(Nodes) /\ d.bases \in Seq(Nodes)
           /\ \A i \in DOMAIN d.params : d.params[i].kind \in {"Parameter", "Pattern"}
           /\ Missing(d.ret) \/ IsType(d.ret)
           /\ \A i \in DOMAIN d.typeParams : d.typeParams[i].kind = "TypeParameter"
           /\ \A i \in DOMAIN d.body : IsStmt(d.body[i])
BY DEF Decls, DeclsOver

LEMMA LostOf ==
    ASSUME NEW d \in Decls
    PROVE  (\E link \in SeenLinksOf(d) : IsRefused(link[1], link[2])) <=>
             \E n \in Roots(d) : Lost(n, Top)
<1> DEFINE Bad(link) == IsRefused(link[1], link[2])
           parts == Roots(d)
<1>1. \A n : Bad(<< n, Top >>) <=> IsRefused(n, Top)
    OBVIOUS
<1>2. SeenLinksOf(d) = UNION {{<< n, Top >>} \cup SeenLinks[n] : n \in parts}
    BY DEF SeenLinksOf
<1>3. \A n : Lost(n, Top) <=> Bad(<< n, Top >>) \/ \E link \in SeenLinks[n] : Bad(link)
    BY <1>1 DEF Lost
<1> HIDE DEF Bad, parts
<1>4. ASSUME NEW link \in SeenLinksOf(d), Bad(link)
      PROVE  \E n \in parts : Lost(n, Top)
  <2>1. PICK n \in parts : link \in {<< n, Top >>} \cup SeenLinks[n]
      BY <1>2
  <2>. QED BY <1>3, <1>4, <2>1
<1>5. ASSUME NEW n \in parts, Lost(n, Top)
      PROVE  \E link \in SeenLinksOf(d) : Bad(link)
  <2>1. PICK link \in {<< n, Top >>} \cup SeenLinks[n] : Bad(link)
      BY <1>3, <1>5
  <2>2. link \in SeenLinksOf(d)
      BY <1>2, <2>1
  <2>. QED BY <2>1, <2>2
<1>6. (\E link \in SeenLinksOf(d) : Bad(link)) <=> \E n \in parts : Lost(n, Top)
    BY <1>4, <1>5
<1>. QED BY <1>6 DEF Bad, parts

LEMMA SeenLinksOfDecl == \A d \in Decls : SeenLinksOf(d) \subseteq LinksOf(d)
<1> SUFFICES ASSUME NEW d \in Decls PROVE SeenLinksOf(d) \subseteq LinksOf(d)
    OBVIOUS
<1>1. Roots(d) \subseteq Nodes
    BY DeclParts DEF Roots, Range
<1>2. \A n \in Roots(d) : SeenLinks[n] \subseteq Links[n]
    BY <1>1, SeenLinksAreLinks
<1>. QED BY <1>2 DEF SeenLinksOf, LinksOf

(* liftFunction (index.mjs) downgrades the fidelity of a function and      *)
(* lists something as unsupported only when the function is async or       *)
(* there is a construct in it, at any depth, that the answer cannot        *)
(* express; and of those at any depth the lift looks at it lists something *)
(* for each, but for the four it overlooks (>>>, an optional access, a     *)
(* default, type arguments) against index.mjs:22-26.  The lift finds this  *)
(* out while it puts nodes together; IsRecorded says it of the links of    *)
(* the tree, one by one.                                                   *)
THEOREM LiftIsRecorded ==
    ASSUME NEW qname, NEW d \in Decls
    PROVE  IsRecorded(LiftFunction(qname, d), d)
<1> DEFINE ret == TypeFromNode[d.ret]
           params == [i \in DOMAIN d.params |-> LiftParam(d.params[i])]
           tps == [i \in DOMAIN d.typeParams |-> LiftTypeParam(d.typeParams[i])]
           body == ListBy(LiftStmt, d.body)
           async == IF "async" \in d.flags THEN << "async function" >> ELSE <<>>
           notes == ret.notes \o AllNotes(params) \o async \o AllNotes(tps) \o body.notes
           fn == LiftFunction(qname, d)
           lostIn(parts) == \E n \in Range(parts) : Lost(n, Top)
<1>1. fn.unsupported = notes /\ fn.fidelity = Fidelity(notes)
    BY DEF LiftFunction
<1>2. ret.notes \in Notes /\ (ret.notes # <<>> <=> Lost(d.ret, Top))
    BY DeclParts, TypeSaysSo, TopIs DEF Says
<1>3. AllNotes(params) \in Notes /\ (AllNotes(params) # <<>> <=> lostIn(d.params))
  <2>1. d.params \in Seq(Nodes) /\ \A i \in DOMAIN d.params : d.params[i].kind \in {"Parameter", "Pattern"}
      BY DeclParts
  <2>2. params = [i \in DOMAIN d.params |-> params[i]]
      OBVIOUS
  <2>3. \A i \in DOMAIN d.params : Says(params[i], d.params[i], Top)
      BY <2>1, ParamSays
  <2> HIDE DEF params
  <2>. QED BY <2>1, <2>2, <2>3, PartsSay
<1>4. AllNotes(tps) \in Notes /\ (AllNotes(tps) # <<>> <=> lostIn(d.typeParams))
  <2>1. d.typeParams \in Seq(Nodes) /\ \A i \in DOMAIN d.typeParams : d.typeParams[i].kind = "TypeParameter"
      BY DeclParts
  <2>2. tps = [i \in DOMAIN d.typeParams |-> tps[i]]
      OBVIOUS
  <2>3. \A i \in DOMAIN d.typeParams : Says(tps[i], d.typeParams[i], Top)
      BY <2>1, TypeParamSays
  <2> HIDE DEF tps
  <2>. QED BY <2>1, <2>2, <2>3, PartsSay
<1>5. body.notes \in Notes /\ (body.notes # <<>> <=> lostIn(d.body))
  <2>1. d.body \in Seq(Nodes) /\ \A i \in DOMAIN d.body : IsStmt(d.body[i])
      BY DeclParts
  <2>2. \A i \in DOMAIN d.body : Says(LiftStmt[d.body[i]], d.body[i], Top)
      BY <2>1, StmtsSay, TopIs DEF StmtSays, Branching
  <2>3. (\E i \in DOMAIN d.body : Lost(d.body[i], Top)) <=> lostIn(d.body)
      BY DEF Range
  <2>4. /\ body.notes \in Notes
        /\ body.notes # <<>> <=> \E i \in DOMAIN d.body : Lost(d.body[i], Top)
      BY <2>1, <2>2, ListSays
  <2>. QED BY <2>3, <2>4
<1>6. async \in Notes /\ (async # <<>> <=> "async" \in d.flags)
  <2>1. "async function" \in Whys
      BY DEF Whys
  <2>. QED BY <2>1, OneNote, NoNotes
<1>7. (\E link \in SeenLinksOf(d) : IsRefused(link[1], link[2])) <=>
        lostIn(d.params) \/ lostIn(d.typeParams) \/ lostIn(d.body) \/ Lost(d.ret, Top)
    BY LostOf DEF Roots
<1> HIDE DEF ret, params, tps, body, async, lostIn
<1>8. notes \in Notes /\ (notes # <<>> <=>
        \/ ret.notes # <<>> \/ AllNotes(params) # <<>> \/ async # <<>>
        \/ AllNotes(tps) # <<>> \/ body.notes # <<>>)
  <2> DEFINE n1 == ret.notes \o AllNotes(params)
             n2 == n1 \o async
             n3 == n2 \o AllNotes(tps)
  <2>1. n1 \in Notes /\ (n1 # <<>> <=> ret.notes # <<>> \/ AllNotes(params) # <<>>)
      BY <1>2, <1>3, MoreNotes
  <2> HIDE DEF n1
  <2>2. n2 \in Notes /\ (n2 # <<>> <=> n1 # <<>> \/ async # <<>>)
      BY <1>6, <2>1, MoreNotes
  <2> HIDE DEF n2
  <2>3. n3 \in Notes /\ (n3 # <<>> <=> n2 # <<>> \/ AllNotes(tps) # <<>>)
      BY <1>4, <2>2, MoreNotes
  <2> HIDE DEF n3
  <2>4. n3 \o body.notes \in Notes /\ (n3 \o body.notes # <<>> <=> n3 # <<>> \/ body.notes # <<>>)
      BY <1>5, <2>3, MoreNotes
  <2>5. notes = n3 \o body.notes
      BY DEF n1, n2, n3
  <2>. QED BY <2>1, <2>2, <2>3, <2>4, <2>5
<1> HIDE DEF notes
<1>9. notes # <<>> <=>
        "async" \in d.flags \/ \E link \in SeenLinksOf(d) : IsRefused(link[1], link[2])
    BY <1>2, <1>3, <1>4, <1>5, <1>6, <1>7, <1>8
<1>10. fn.fidelity = "inferred" <=> notes # <<>>
    BY <1>1 DEF Fidelity
<1>11. SeenLinksOf(d) \subseteq LinksOf(d)
    BY SeenLinksOfDecl
<1> HIDE DEF fn
<1>12. IsRecorded(fn, d)
    BY <1>1, <1>9, <1>10, <1>11 DEF IsRecorded, IsRefused
<1>. QED BY <1>12 DEF fn

-----------------------------------------------------------------------------
(* Names and chains.                                                       *)

LEMMA NameAppended ==
    ASSUME NEW ns \in Names, NEW name \in STRING, NEW q \in Names
    PROVE  /\ Append(ns, name) \in Names /\ << name >> \o q \in Names
           /\ Append(ns, name) \o q = ns \o (<< name >> \o q)
           /\ Append(ns, name) = ns \o << name >>
<1>1. << name >> \in Seq(STRING)
    BY Single
<1>2. Append(ns, name) = ns \o << name >> /\ Append(ns, name) \in Seq(STRING)
    BY AppendIsConcat, AppendProperties DEF Names
<1>3. (ns \o << name >>) \o q = ns \o (<< name >> \o q)
    BY <1>1, ConcatAssociative DEF Names
<1>4. << name >> \o q \in Seq(STRING)
    BY <1>1, ConcatProperties DEF Names
<1>. QED BY <1>2, <1>3, <1>4 DEF Names

LEMMA NoNames == <<>> \in Names /\ \A q \in Names : <<>> \o q = q /\ q \o <<>> = q
BY EmptySeq, ConcatEmptySeq DEF Names

LEMMA NamesAreNames ==
    ASSUME NEW c \in Seq(Items)
    PROVE  NamesIn(c) \in Names /\ Len(NamesIn(c)) = Len(c)
<1> DEFINE f == NamesIn(c)
<1>1. \A i \in 1 .. Len(c) : c[i].name \in STRING
    BY ItemParts
<1>2. f = [i \in 1 .. Len(c) |-> f[i]] /\ \A i \in 1 .. Len(c) : f[i] = c[i].name
    BY DEF NamesIn
<1>3. Len(c) \in Nat
    OBVIOUS
<1> HIDE DEF f
<1>4. f \in Seq(STRING) /\ Len(f) = Len(c)
    BY <1>1, <1>2, <1>3, IsSequence
<1>. QED BY <1>4 DEF f, Names

(* A chain with one more declaration around it.                            *)
LEMMA OuterChain ==
    ASSUME NEW it \in Items, NEW c \in Seq(Items), NEW x, x = << it >> \o c
    PROVE  /\ x \in Seq(Items) /\ Len(x) = Len(c) + 1 /\ Len(c) \in Nat /\ x[1] = it
           /\ \A i \in 1 .. Len(c) : x[i + 1] = c[i]
           /\ Len(c) >= 1 => Last(x) = Last(c)
           /\ NamesIn(x) = << it.name >> \o NamesIn(c)
<1>1. << it >> \in Seq(Items) /\ Len(<< it >>) = 1 /\ << it >>[1] = it
    BY Single
<1>2. /\ x \in Seq(Items) /\ Len(x) = Len(c) + 1 /\ Len(c) \in Nat /\ x[1] = it
      /\ \A i \in 1 .. Len(c) : x[i + 1] = c[i]
  <2>1. /\ x \in Seq(Items) /\ Len(x) = 1 + Len(c) /\ Len(c) \in Nat
        /\ \A i \in 1 .. 1 + Len(c) : x[i] = IF i <= 1 THEN << it >>[i] ELSE c[i - 1]
      BY <1>1, ConcatProperties
  <2>2. \A i \in 1 .. Len(c) : i + 1 \in 1 .. 1 + Len(c) /\ ~(i + 1 <= 1) /\ (i + 1) - 1 = i
      BY <2>1
  <2>. QED BY <1>1, <2>1, <2>2
<1>3. Len(c) >= 1 => Last(x) = Last(c)
    BY <1>2 DEF Last
<1>4. NamesIn(x) = << it.name >> \o NamesIn(c)
  <2> DEFINE a == NamesIn(x)
             q == NamesIn(c)
             b == << it.name >> \o q
  <2>1. a \in Seq(STRING) /\ Len(a) = Len(c) + 1 /\ q \in Seq(STRING) /\ Len(q) = Len(c)
      BY <1>2, NamesAreNames DEF Names
  <2>2. << it.name >> \in Seq(STRING) /\ Len(<< it.name >>) = 1 /\ << it.name >>[1] = it.name
      BY ItemParts, Single
  <2>3. /\ b \in Seq(STRING) /\ Len(b) = 1 + Len(c)
        /\ \A i \in 1 .. 1 + Len(c) : b[i] = IF i <= 1 THEN << it.name >>[i] ELSE q[i - 1]
      BY <2>1, <2>2, ConcatProperties
  <2>4. \A i \in 1 .. Len(c) + 1 : a[i] = x[i].name
      BY <1>2 DEF NamesIn
  <2>5. \A i \in 1 .. Len(c) : q[i] = c[i].name
      BY <1>2 DEF NamesIn
  <2> HIDE DEF a, q
  <2>6. ASSUME NEW i \in 1 .. Len(c) + 1 PROVE a[i] = b[i]
    <3>1. CASE i = 1
        BY <1>2, <2>2, <2>3, <2>4, <3>1
    <3>2. CASE i # 1
      <4>1. i - 1 \in 1 .. Len(c) /\ (i - 1) + 1 = i /\ ~(i <= 1) /\ i \in 1 .. 1 + Len(c)
          BY <1>2, <3>2
      <4>. QED BY <1>2, <2>3, <2>4, <2>5, <4>1
    <3>. QED BY <3>1, <3>2
  <2> HIDE DEF b
  <2>7. a = b
      BY <1>2, <2>1, <2>3, <2>6, SeqEqual
  <2>. QED BY <2>7 DEF a, b, q
<1>. QED BY <1>2, <1>3, <1>4

LEMMA ChainCases ==
    ASSUME NEW it \in Items
    PROVE  /\ << it >> \in Chains[it]
           /\ \A i \in DOMAIN it.items : \A c \in Chains[it.items[i]] : << it >> \o c \in Chains[it]
           /\ \A x \in Chains[it] :
                x = << it >> \/ \E i \in DOMAIN it.items : \E c \in Chains[it.items[i]] : x = << it >> \o c
<1>1. Chains[it] = {<< it >>} \cup {<< it >> \o c : c \in UNION {Chains[it.items[i]] : i \in DOMAIN it.items}}
    BY ChainsIs DEF ChainsBy
<1>. QED BY <1>1

IsChainOf(c, it) == c \in Seq(Items) /\ Len(c) >= 1 /\ c[1] = it

LEMMA ChainsAreChains == \A it \in Items : \A c \in Chains[it] : IsChainOf(c, it)
<1> DEFINE T == {it \in Items : \A c \in Chains[it] : IsChainOf(c, it)}
<1>1. ASSUME NEW it \in Items, it.items \in Seq(Items \cap T) PROVE it \in T
  <2> SUFFICES ASSUME NEW x \in Chains[it] PROVE IsChainOf(x, it)
      OBVIOUS
  <2>1. CASE x = << it >>
      BY <2>1, Single DEF IsChainOf
  <2>2. CASE x # << it >>
    <3>1. PICK i, c :
            i \in DOMAIN it.items /\ c \in Chains[it.items[i]] /\ x = << it >> \o c
        BY <2>2, ChainCases
    <3>2. it.items[i] \in T
        BY <1>1, <3>1
    <3>3. c \in Seq(Items) /\ Len(c) >= 1
        BY <3>1, <3>2 DEF IsChainOf
    <3>. QED BY <3>1, <3>3, OuterChain DEF IsChainOf
  <2>. QED BY <2>1, <2>2
<1>. QED
  <2> HIDE DEF T
  <2>1. Items \subseteq T
      BY <1>1, ItemInduction
  <2>. QED BY <2>1 DEF T

(* A chain of one, and a longer one.                                       *)
LEMMA InChain ==
    ASSUME NEW it \in Items, NEW x \in Chains[it], x # << it >>
    PROVE  \E i \in DOMAIN it.items : \E c \in Chains[it.items[i]] :
             x = << it >> \o c /\ it.items[i] \in Items /\ IsChainOf(c, it.items[i])
<1>1. PICK i, c :
            i \in DOMAIN it.items /\ c \in Chains[it.items[i]] /\ x = << it >> \o c
    BY ChainCases
<1>2. it.items[i] \in Items
    BY <1>1, ItemParts
<1>. QED BY <1>1, <1>2, ChainsAreChains

LEMMA OneName ==
    ASSUME NEW it \in Items
    PROVE  Last(<< it >>) = it /\ NamesIn(<< it >>) = << it.name >> /\ Len(<< it >>) = 1
BY DEF Last, NamesIn

(* What a walk finds in some declarations.                                 *)
IsFound(seq, visit, items, names) ==
    Range(seq) = UNION {Range(visit[items[i]][names]) : i \in DOMAIN items}

LEMMA FoundParts ==
    ASSUME NEW S, NEW visit, NEW items \in Seq(Items), NEW names,
           \A i \in DOMAIN items : visit[items[i]][names] \in Seq(S)
    PROVE  /\ Found(visit, items, names) \in Seq(S)
           /\ IsFound(Found(visit, items, names), visit, items, names)
<1> DEFINE seqs == [i \in DOMAIN items |-> visit[items[i]][names]]
<1>1. PICK m \in Nat : DOMAIN items = 1 .. m
    OBVIOUS
<1>2. seqs = [i \in 1 .. m |-> seqs[i]] /\ \A i \in 1 .. m : seqs[i] = visit[items[i]][names]
    BY <1>1
<1>3. Found(visit, items, names) = FlattenSeq(seqs)
    BY DEF Found
<1> HIDE DEF seqs
<1>4. seqs \in Seq(Seq(S)) /\ Len(seqs) = m
    BY <1>1, <1>2, IsSequence
<1>5. /\ FlattenSeq(seqs) \in Seq(S)
      /\ Range(FlattenSeq(seqs)) = UNION {Range(seqs[i]) : i \in 1 .. m}
    BY <1>4, FlattenRange
<1>6. DOMAIN items = 1 .. m /\ \A i \in 1 .. m : Range(seqs[i]) = Range(visit[items[i]][names])
    BY <1>1, <1>2
<1>7. UNION {Range(seqs[i]) : i \in 1 .. m} = UNION {Range(visit[items[i]][names]) : i \in DOMAIN items}
    BY <1>6
<1>. QED BY <1>3, <1>5, <1>7 DEF IsFound

-----------------------------------------------------------------------------
(* Types.                                                                  *)

TypeRecords == {LiftType(ns, it) : ns \in Names, it \in Items}

IsTypeChain(c) ==
    /\ Last(c).kind \in {"class", "interface"} /\ Last(c).name # ""
    /\ \A i \in 1 .. Len(c) - 1 : HasBlock(c[i])

TypesFound(it) ==
    \A ns \in Names :
      /\ VisitTypes[it][ns] \in Seq(TypeRecords)
      /\ \A c \in Chains[it] : IsTypeChain(c) =>
           \E y \in Items : /\ y.kind = Last(c).kind
                            /\ LiftType(ns \o NamesIn(c), y) \in Range(VisitTypes[it][ns])

LEMMA TypesFoundStep ==
    ASSUME NEW it \in Items, \A i \in DOMAIN it.items : TypesFound(it.items[i])
    PROVE  TypesFound(it)
<1> SUFFICES ASSUME NEW ns \in Names
             PROVE  /\ VisitTypes[it][ns] \in Seq(TypeRecords)
                    /\ \A c \in Chains[it] : IsTypeChain(c) =>
                         \E y \in Items : /\ y.kind = Last(c).kind
                                          /\ LiftType(ns \o NamesIn(c), y) \in Range(VisitTypes[it][ns])
    BY DEF TypesFound
<1> DEFINE here == Append(ns, it.name)
           r == VisitTypes[it][ns]
<1>1. r = TypesBy(VisitTypes, it, ns)
    BY VisitTypesIs
<1>2. it.items \in Seq(Items) /\ it.name \in STRING
    BY ItemParts
<1>3. here \in Names /\ here = ns \o << it.name >>
    BY <1>2, NameAppended, NoNames
<1>4. ASSUME NEW c \in Chains[it], IsTypeChain(c), c # << it >> PROVE HasBlock(it)
  <2>1. PICK i, d :
            i \in DOMAIN it.items /\ d \in Chains[it.items[i]] /\ c = << it >> \o d /\ IsChainOf(d, it.items[i])
      BY <1>4, InChain
  <2>2. Len(c) = Len(d) + 1 /\ Len(d) >= 1 /\ Len(d) \in Nat /\ c[1] = it
      BY <2>1, OuterChain DEF IsChainOf
  <2>3. 1 \in 1 .. Len(c) - 1
      BY <2>2
  <2>. QED BY <1>4, <2>2, <2>3 DEF IsTypeChain
<1>5. CASE HasBlock(it)
  <2>1. it.kind = "namespace" /\ r = Found(VisitTypes, it.items, here)
      BY <1>1, <1>5 DEF TypesBy, HasBlock
  <2>2. \A i \in DOMAIN it.items : VisitTypes[it.items[i]][here] \in Seq(TypeRecords)
      BY <1>3 DEF TypesFound
  <2>3. /\ r \in Seq(TypeRecords)
        /\ Range(r) = UNION {Range(VisitTypes[it.items[i]][here]) : i \in DOMAIN it.items}
      BY <1>2, <2>1, <2>2, FoundParts DEF IsFound
  <2>4. ASSUME NEW c \in Chains[it], IsTypeChain(c)
        PROVE  \E y \in Items : y.kind = Last(c).kind /\ LiftType(ns \o NamesIn(c), y) \in Range(r)
    <3>1. c # << it >>
        BY <2>1, <2>4, OneName DEF IsTypeChain
    <3>2. PICK i, d :
            i \in DOMAIN it.items /\ d \in Chains[it.items[i]] /\ c = << it >> \o d /\ IsChainOf(d, it.items[i])
        BY <3>1, InChain
    <3>30. d \in Seq(Items) /\ Len(d) >= 1 /\ c = << it >> \o d
        BY <3>2 DEF IsChainOf
    <3>3. /\ Len(c) = Len(d) + 1 /\ Len(d) \in Nat
          /\ \A j \in 1 .. Len(d) : c[j + 1] = d[j]
          /\ Last(c) = Last(d) /\ NamesIn(c) = << it.name >> \o NamesIn(d)
      <4>1. Len(c) = Len(d) + 1 /\ Len(d) \in Nat
          BY <3>30, OuterChain
      <4>2. \A j \in 1 .. Len(d) : c[j + 1] = d[j]
          BY <3>30, OuterChain
      <4>3. Last(c) = Last(d)
          BY <3>30, OuterChain
      <4>4. NamesIn(c) = << it.name >> \o NamesIn(d)
          BY <3>30, OuterChain
      <4>. QED BY <4>1, <4>2, <4>3, <4>4
    <3>4. IsTypeChain(d)
      <4>1. \A j \in 1 .. Len(d) - 1 : j + 1 \in 1 .. Len(c) - 1 /\ j \in 1 .. Len(d)
          BY <3>30, <3>3
      <4>. QED BY <2>4, <3>3, <4>1 DEF IsTypeChain
    <3>5. PICK y \in Items : /\ y.kind = Last(d).kind
                             /\ LiftType(here \o NamesIn(d), y) \in Range(VisitTypes[it.items[i]][here])
        BY <1>3, <3>2, <3>4 DEF TypesFound
    <3>6. here \o NamesIn(d) = ns \o NamesIn(c)
      <4>1. NamesIn(d) \in Names
          BY <3>30, NamesAreNames
      <4>2. here \o NamesIn(d) = ns \o (<< it.name >> \o NamesIn(d))
          BY <1>2, <4>1, NameAppended
      <4>. QED BY <3>3, <4>2
    <3>7. LiftType(ns \o NamesIn(c), y) \in Range(r)
        BY <2>3, <3>2, <3>5, <3>6
    <3>. QED BY <3>3, <3>5, <3>7
  <2>. QED BY <2>3, <2>4
<1>6. CASE it.kind \in {"class", "interface"} /\ it.name # ""
  <2>1. r = << LiftType(here, it) >> /\ ~HasBlock(it)
      BY <1>1, <1>6 DEF TypesBy, HasBlock
  <2>2. LiftType(here, it) \in TypeRecords
      BY <1>3 DEF TypeRecords
  <2>3. r \in Seq(TypeRecords) /\ LiftType(here, it) \in Range(r)
    <3>1. r \in Seq(TypeRecords) /\ Len(r) = 1 /\ r[1] = LiftType(here, it)
        BY <2>1, <2>2, Single
    <3>2. 1 \in DOMAIN r
        BY <3>1
    <3>. QED BY <3>1, <3>2 DEF Range
  <2>4. ASSUME NEW c \in Chains[it], IsTypeChain(c)
        PROVE  \E y \in Items : y.kind = Last(c).kind /\ LiftType(ns \o NamesIn(c), y) \in Range(r)
    <3>1. c = << it >>
        BY <1>4, <2>1, <2>4
    <3>. QED BY <1>3, <2>3, <3>1, OneName
  <2>. QED BY <2>3, <2>4
<1>7. CASE ~HasBlock(it) /\ ~(it.kind \in {"class", "interface"} /\ it.name # "")
  <2>1. r = <<>>
      BY <1>1, <1>7 DEF TypesBy
  <2>2. ASSUME NEW c \in Chains[it] PROVE ~IsTypeChain(c)
    <3>1. c # << it >> => ~IsTypeChain(c)
        BY <1>4, <1>7
    <3>2. ~IsTypeChain(<< it >>)
        BY <1>7, OneName DEF IsTypeChain
    <3>. QED BY <3>1, <3>2
  <2>. QED BY <2>1, <2>2, EmptySeq
<1>. QED BY <1>5, <1>6, <1>7 DEF HasBlock

LEMMA TypesAreFound == \A it \in Items : TypesFound(it)
<1> DEFINE T == {it \in Items : TypesFound(it)}
<1>1. ASSUME NEW it \in Items, it.items \in Seq(Items \cap T) PROVE it \in T
    BY <1>1, TypesFoundStep
<1>. QED
  <2> HIDE DEF T
  <2>1. Items \subseteq T
      BY <1>1, ItemInduction
  <2>. QED BY <2>1 DEF T

LEMMA CollectedTypes ==
    ASSUME NEW items \in Seq(Items)
    PROVE  /\ CollectTypes(items) \in Seq(TypeRecords)
           /\ \A c \in TypesIn(items) : ~InDotted(c) =>
                \E y \in Items : /\ y.kind = Last(c).kind
                                 /\ LiftType(NamesIn(c), y) \in Range(CollectTypes(items))
<1>1. \A i \in DOMAIN items : items[i] \in Items /\ VisitTypes[items[i]][<<>>] \in Seq(TypeRecords)
    BY TypesAreFound, NoNames DEF TypesFound
<1>2. /\ CollectTypes(items) \in Seq(TypeRecords)
      /\ Range(CollectTypes(items)) = UNION {Range(VisitTypes[items[i]][<<>>]) : i \in DOMAIN items}
    BY <1>1, FoundParts DEF CollectTypes, IsFound
<1>3. ASSUME NEW c \in TypesIn(items), ~InDotted(c)
      PROVE  \E y \in Items : /\ y.kind = Last(c).kind
                              /\ LiftType(NamesIn(c), y) \in Range(CollectTypes(items))
  <2>1. PICK i \in DOMAIN items : c \in Chains[items[i]]
      BY <1>3 DEF TypesIn, ChainsOf
  <2>2. c \in Seq(Items) /\ items[i] \in Items /\ NamesIn(c) \in Names
      BY <1>1, <2>1, ChainsAreChains, NamesAreNames DEF IsChainOf
  <2>3. IsTypeChain(c)
    <3>1. \A k \in 1 .. Len(c) - 1 : k \in DOMAIN c
        BY <2>2
    <3>. QED BY <1>3, <3>1 DEF TypesIn, IsTypeChain, InDotted, HasBlock
  <2>4. PICK y \in Items : y.kind = Last(c).kind
                           /\ LiftType(<<>> \o NamesIn(c), y) \in Range(VisitTypes[items[i]][<<>>])
      BY <2>1, <2>2, <2>3, NoNames, TypesAreFound DEF TypesFound
  <2>5. <<>> \o NamesIn(c) = NamesIn(c)
      BY <2>2, NoNames
  <2>. QED BY <1>2, <2>1, <2>4, <2>5
<1>. QED BY <1>2, <1>3

-----------------------------------------------------------------------------
(* Symbols.  What the walk looks at: it goes into exported namespaces with *)
(* a block, and the contract leaves it to A.B { } itself.                  *)
IsEntered(it) ==
    HasBlock(it) /\ Has(it, "export") /\ ~Has(it, "string") /\ ~Has(it, "declare")

IsVisited(c) ==
    LET it == Last(c)
        n == Len(c)
        parent == IF n > 1 THEN c[n - 1] ELSE it
        reached(k) == \A i \in 1 .. k : IsEntered(c[i])
        public(x) == Has(x, "export") /\ ~Has(x, "declare")
    IN  /\ it.name # ""
        /\ CASE it.kind \in {"function", "class", "interface", "alias"} ->
                  reached(n - 1) /\ public(it)
             [] it.kind \in {"method", "constructor"} ->
                  /\ parent.kind = "class" /\ parent.name # "" /\ public(parent)
                  /\ reached(n - 2)
             [] it.kind = "name" ->
                  /\ reached(n - 2)
                  /\ ~Has(parent, "declare")
                  /\ parent.kind = "variables" => Has(parent, "export")
             [] OTHER -> FALSE

IsDotted(it) == it.kind = "namespace" /\ Has(it, "dotted")

LEMMA WalkedUpTo ==
    ASSUME NEW c, NEW k \in Int
    PROVE  (\A i \in 1 .. k : IsEntered(c[i])) <=>
             (\A i \in 1 .. k : IsOpen(c, i) /\ ~IsDotted(c[i]))
<1>1. ASSUME \A i \in 1 .. k : IsEntered(c[i])
      PROVE  \A i \in 1 .. k : IsOpen(c, i) /\ ~IsDotted(c[i])
    BY <1>1 DEF IsEntered, IsOpen, HasBlock, IsDotted
<1>2. ASSUME \A i \in 1 .. k : IsOpen(c, i) /\ ~IsDotted(c[i]), NEW i \in 1 .. k
      PROVE  IsEntered(c[i])
  <2>1. Has(c[i], "export")
    <3>1. CASE i = 1
        BY <1>2, <3>1 DEF IsOpen
    <3>2. CASE i # 1
      <4>1. i - 1 \in 1 .. k
          BY <3>2
      <4>2. ~Has(c[i - 1], "dotted")
          BY <1>2, <4>1 DEF IsOpen, IsDotted
      <4>. QED BY <1>2, <4>2 DEF IsOpen
    <3>. QED BY <3>1, <3>2
  <2>. QED BY <1>2, <2>1 DEF IsEntered, IsOpen, HasBlock, IsDotted
<1>. QED BY <1>1, <1>2

LEMMA NotDotted ==
    ASSUME NEW c \in Seq(Items), NEW k \in Int, k <= Len(c),
           \A i \in 1 .. Len(c) : i > k => c[i].kind # "namespace"
    PROVE  ~InDotted(c) <=> \A i \in 1 .. k : ~IsDotted(c[i])
<1>1. DOMAIN c = 1 .. Len(c) /\ Len(c) \in Nat
    OBVIOUS
<1>2. \A i \in 1 .. k : i \in 1 .. Len(c)
    BY <1>1
<1>3. \A i \in 1 .. Len(c) : i \in 1 .. k \/ i > k
    BY <1>1
<1>. QED BY <1>1, <1>2, <1>3 DEF InDotted, IsDotted

(* A name stands in a list, never in a namespace.                          *)
ListsNames(c) ==
    Len(c) > 1 /\ Last(c).kind = "name" => c[Len(c) - 1].kind # "namespace"

LEMMA NamesInLists == \A it \in Items : \A c \in Chains[it] : ListsNames(c)
<1> DEFINE T == {it \in Items : \A c \in Chains[it] : ListsNames(c)}
<1>1. ASSUME NEW it \in Items, it.items \in Seq(Items \cap T) PROVE it \in T
  <2> SUFFICES ASSUME NEW x \in Chains[it], Len(x) > 1, Last(x).kind = "name"
               PROVE  x[Len(x) - 1].kind # "namespace"
      BY DEF ListsNames
  <2>1. Len(<< it >>) = 1
      BY <1>1, OneName
  <2>2. PICK j, c :
            /\ j \in DOMAIN it.items /\ c \in Chains[it.items[j]]
            /\ x = << it >> \o c /\ it.items[j] \in Items /\ IsChainOf(c, it.items[j])
    <3>1. PICK s : s = << it >> /\ Len(s) = 1
        BY <2>1
    <3>2. x \in Seq(Items)
        BY <1>1, ChainsAreChains DEF IsChainOf
    <3>3. Len(x) # Len(s)
        BY <3>1, <3>2
    <3>. QED BY <1>1, <3>1, <3>3, InChain
  <2>3. c \in Seq(Items) /\ Len(c) >= 1 /\ c[1] = it.items[j]
      BY <2>2 DEF IsChainOf
  <2>4. PICK m \in Nat : m = Len(c)
      BY <2>3
  <2>5. /\ Len(x) = m + 1 /\ x[1] = it /\ Last(x) = Last(c)
        /\ \A i \in 1 .. m : x[i + 1] = c[i]
    <3>1. x = << it >> \o c
        BY <2>2
    <3>2. Len(x) = Len(c) + 1 /\ x[1] = it
        BY <1>1, <2>3, <3>1, OuterChain
    <3>3. Last(x) = Last(c)
        BY <1>1, <2>3, <3>1, OuterChain
    <3>4. \A i \in 1 .. Len(c) : x[i + 1] = c[i]
        BY <1>1, <2>3, <3>1, OuterChain
    <3>. QED BY <2>4, <3>2, <3>3, <3>4
  <2>6. CASE m = 1
    <3>1. Last(c) = it.items[j]
        BY <2>3, <2>4, <2>6 DEF Last
    <3>2. it.items[j].kind = "name"
        BY <2>5, <3>1
    <3>3. it.kind # "namespace"
        BY <2>2, <3>2, ItemParts DEF IsWellPlaced
    <3>. QED BY <2>5, <2>6, <3>3
  <2>7. CASE m # 1
    <3>1. m - 1 \in 1 .. m /\ m > 1
        BY <2>3, <2>4, <2>7
    <3>2. x[Len(x) - 1] = c[m - 1]
        BY <2>5, <3>1
    <3>3. ListsNames(c)
        BY <1>1, <2>2
    <3>. QED BY <2>4, <2>5, <3>1, <3>2, <3>3 DEF ListsNames
  <2>. QED BY <2>6, <2>7
<1>. QED
  <2> HIDE DEF T
  <2>1. Items \subseteq T
      BY <1>1, ItemInduction
  <2>. QED BY <2>1 DEF T

LEMMA WalkedIs ==
    ASSUME NEW it \in Items, it.kind \notin MemberKinds \cup {"name"}, NEW c \in Chains[it]
    PROVE  IsVisited(c) <=> IsVisible(c) /\ ~InDotted(c)
<1>1. c \in Seq(Items) /\ Len(c) >= 1 /\ c[1] = it
    BY ChainsAreChains DEF IsChainOf
<1>2. PICK n \in Nat : n = Len(c) /\ n >= 1
    BY <1>1
<1>3. Last(c) = c[n]
    BY <1>2 DEF Last
<1>4. Last(c).kind \in MemberKinds \cup {"name"} => n > 1
    BY <1>1, <1>2, <1>3
<1>5. CASE Last(c).kind \in {"function", "class", "interface", "alias"}
  <2>1. (\A i \in 1 .. n - 1 : IsEntered(c[i])) <=>
          (\A i \in 1 .. n - 1 : IsOpen(c, i) /\ ~IsDotted(c[i]))
      BY WalkedUpTo
  <2>2. ~InDotted(c) <=> \A i \in 1 .. n - 1 : ~IsDotted(c[i])
    <3>1. \A i \in 1 .. Len(c) : i > n - 1 => c[i].kind # "namespace"
        BY <1>2, <1>3, <1>5
    <3>2. PICK k \in Int : k = n - 1 /\ k <= Len(c)
      <4>1. n - 1 \in Int /\ n - 1 <= Len(c)
          BY <1>2
      <4>. QED BY <4>1
    <3>3. \A i \in 1 .. Len(c) : i > k => c[i].kind # "namespace"
        BY <3>1, <3>2
    <3>4. ~InDotted(c) <=> \A i \in 1 .. k : ~IsDotted(c[i])
        BY <1>1, <3>2, <3>3, NotDotted
    <3>. QED BY <3>2, <3>4
  <2>. QED BY <1>2, <1>5, <2>1, <2>2 DEF IsVisited, IsVisible
<1>6. CASE Last(c).kind \in {"method", "constructor"}
  <2>1. (\A i \in 1 .. n - 2 : IsEntered(c[i])) <=>
          (\A i \in 1 .. n - 2 : IsOpen(c, i) /\ ~IsDotted(c[i]))
      BY WalkedUpTo
  <2>2. c[n - 1].kind = "class" =>
          (~InDotted(c) <=> \A i \in 1 .. n - 2 : ~IsDotted(c[i]))
    <3> SUFFICES ASSUME c[n - 1].kind = "class"
                 PROVE  ~InDotted(c) <=> \A i \in 1 .. n - 2 : ~IsDotted(c[i])
        OBVIOUS
    <3>1. \A i \in 1 .. Len(c) : i > n - 2 => i = n - 1 \/ i = n
        BY <1>2
    <3>2. \A i \in 1 .. Len(c) : i > n - 2 => c[i].kind # "namespace"
        BY <1>3, <1>6, <3>1
    <3>3. PICK k \in Int : k = n - 2 /\ k <= Len(c)
      <4>1. n - 2 \in Int /\ n - 2 <= Len(c)
          BY <1>2
      <4>. QED BY <4>1
    <3>4. \A i \in 1 .. Len(c) : i > k => c[i].kind # "namespace"
        BY <3>2, <3>3
    <3>5. ~InDotted(c) <=> \A i \in 1 .. k : ~IsDotted(c[i])
        BY <1>1, <3>3, <3>4, NotDotted
    <3>. QED BY <3>3, <3>5
  <2>3. n > 1
      BY <1>4, <1>6 DEF MemberKinds
  <2>. QED BY <1>2, <1>6, <2>1, <2>2, <2>3 DEF IsVisited, IsVisible
<1>7. CASE Last(c).kind = "name"
  <2>1. (\A i \in 1 .. n - 2 : IsEntered(c[i])) <=>
          (\A i \in 1 .. n - 2 : IsOpen(c, i) /\ ~IsDotted(c[i]))
      BY WalkedUpTo
  <2>2. n > 1 /\ c[n - 1].kind # "namespace"
      BY <1>2, <1>4, <1>7, NamesInLists DEF ListsNames
  <2>3. ~InDotted(c) <=> \A i \in 1 .. n - 2 : ~IsDotted(c[i])
    <3>1. \A i \in 1 .. Len(c) : i > n - 2 => i = n - 1 \/ i = n
        BY <1>2
    <3>2. \A i \in 1 .. Len(c) : i > n - 2 => c[i].kind # "namespace"
        BY <1>3, <1>7, <2>2, <3>1
    <3>3. PICK k \in Int : k = n - 2 /\ k <= Len(c)
      <4>1. n - 2 \in Int /\ n - 2 <= Len(c)
          BY <1>2
      <4>. QED BY <4>1
    <3>4. \A i \in 1 .. Len(c) : i > k => c[i].kind # "namespace"
        BY <3>2, <3>3
    <3>5. ~InDotted(c) <=> \A i \in 1 .. k : ~IsDotted(c[i])
        BY <1>1, <3>3, <3>4, NotDotted
    <3>. QED BY <3>3, <3>5
  <2>. QED BY <1>2, <1>7, <2>1, <2>2, <2>3 DEF IsVisited, IsVisible
<1>8. CASE Last(c).kind \notin {"function", "class", "interface", "alias",
                                "method", "constructor", "name"}
    BY <1>8 DEF IsVisited, IsVisible
<1>. QED BY <1>5, <1>6, <1>7, <1>8

(* A sequence has the values f[i] for the i of J.                          *)
IsChosen(seq, f, J) == Range(seq) = {f[i] : i \in J}

(* The parts of a sequence that consist of an element, and the empty ones. *)
LEMMA ChosenRange ==
    ASSUME NEW S, NEW m \in Nat, NEW J \in SUBSET (1 .. m), NEW f, NEW seqs,
           \A i \in J : f[i] \in S,
           seqs = [i \in 1 .. m |-> seqs[i]],
           \A i \in 1 .. m : (i \in J => seqs[i] = << f[i] >>) /\ (i \notin J => seqs[i] = <<>>)
    PROVE  /\ FlattenSeq(seqs) \in Seq(S)
           /\ IsChosen(FlattenSeq(seqs), f, J)
<1>1. ASSUME NEW i \in 1 .. m
      PROVE  seqs[i] \in Seq(S) /\ Range(seqs[i]) = {f[j] : j \in J \cap {i}}
  <2>1. CASE i \in J
    <3>1. seqs[i] = << f[i] >> /\ f[i] \in S
        BY <2>1
    <3>2. Range(seqs[i]) = {f[i]}
        BY <3>1, OneElement
    <3>3. J \cap {i} = {i}
        BY <2>1
    <3>4. seqs[i] \in Seq(S)
        BY <3>1, Single
    <3>5. {f[j] : j \in J \cap {i}} = {f[i]}
        BY <3>3
    <3>. QED BY <3>2, <3>4, <3>5
  <2>2. CASE i \notin J
    <3>1. seqs[i] = <<>> /\ J \cap {i} = {}
        BY <2>2
    <3>2. Range(<<>>) = {}
        BY DEF Range
    <3>. QED BY <3>1, <3>2, EmptySeq
  <2>. QED BY <2>1, <2>2
<1>2. seqs \in Seq(Seq(S)) /\ Len(seqs) = m
    BY <1>1, IsSequence
<1>3. /\ FlattenSeq(seqs) \in Seq(S)
      /\ Range(FlattenSeq(seqs)) = UNION {Range(seqs[i]) : i \in 1 .. m}
    BY <1>2, FlattenRange
<1>4. UNION {Range(seqs[i]) : i \in 1 .. m} = {f[i] : i \in J}
    BY <1>1
<1>. QED BY <1>3, <1>4 DEF IsChosen

(* A class has one class among its bases at most, an interface none.       *)
LEMMA ClassBases ==
    ASSUME NEW ns, NEW y \in Items
    PROVE  LET type == LiftType(ns, y)
               classes == {b \in DOMAIN type.bases : type.bases[b].kind = "class"}
           IN  /\ type.qualifiedName = ns
               /\ Cardinality(classes) <= IF y.kind = "class" THEN 1 ELSE 0
<1> DEFINE type == LiftType(ns, y)
           bases == y.decl.bases
           classes == {b \in DOMAIN type.bases : type.bases[b].kind = "class"}
<1>1. type.qualifiedName = ns
    BY DEF LiftType
<1>2. /\ DOMAIN type.bases = DOMAIN bases
      /\ \A b \in DOMAIN bases : type.bases[b].kind = BaseKind(y.kind = "class", bases[b].kind)
    BY DEF LiftType, Models, Result, Leaf, Node
<1>3. \A b \in classes : y.kind = "class" /\ b \in DOMAIN bases /\ bases[b].kind = "extends"
    BY <1>2 DEF BaseKind
<1>4. \A b, c \in classes : b = c
  <2>1. IsWellPlaced(y)
      BY ItemParts
  <2>2. y.kind = "class" => \A i, j \in DOMAIN bases :
          bases[i].kind = "extends" /\ bases[j].kind = "extends" => i = j
      BY <2>1 DEF IsWellPlaced
  <2> HIDE DEF bases, classes
  <2>. QED BY <1>3, <2>2
<1> HIDE DEF classes
<1>5. CASE classes = {}
    BY <1>1, <1>5, FS_EmptySet DEF classes
<1>6. CASE classes # {}
  <2>1. PICK b \in classes : TRUE
      BY <1>6
  <2>2. classes = {b} /\ y.kind = "class"
      BY <1>3, <1>4, <2>1
  <2>3. Cardinality({b}) = 1
      BY FS_Singleton
  <2>. QED BY <1>1, <2>2, <2>3 DEF classes
<1>. QED BY <1>5, <1>6
-----------------------------------------------------------------------------
(* Symbols.                                                                *)

Visibilities == {"public", "protected", "private"}
SymbolKinds == ItemKinds \cup {"typealias", "variable"}
SymbolRecords ==
    [qualifiedName : Names, kind : SymbolKinds, enclosingClass : Names,
     isStatic : BOOLEAN, visibility : Visibilities]

Triple(s) == << s.qualifiedName, s.enclosingClass, s.visibility >>
Triples(symbols) == {Triple(s) : s \in Range(symbols)}

(* A chain as it is described under the names of what encloses it.         *)
IsCommon(c) == Last(c).kind = "name" /\ c[Len(c) - 1].kind = "commonjs"
DescribedUnder(prefix, c) ==
    << IF IsCommon(c) THEN QualifiedNameOf(c) ELSE prefix \o QualifiedNameOf(c),
       IF Last(c).kind \in MemberKinds THEN prefix \o NamesIn(Front(c)) ELSE <<>>,
       MemberVisibility(Last(c)) >>

SymbolsFound(it) ==
    it.kind \notin MemberKinds \cup {"name"} =>
      \A prefix \in Names :
        /\ VisitSymbols[it][prefix] \in Seq(SymbolRecords)
        /\ Triples(VisitSymbols[it][prefix]) =
             {DescribedUnder(prefix, c) : c \in {x \in Chains[it] : IsVisited(x)}}

LEMMA VisibilityIs == \A it \in Items :
    /\ MemberVisibility(it) \in Visibilities
    /\ it.kind \notin MemberKinds => MemberVisibility(it) = "public"
<1> SUFFICES ASSUME NEW it \in Items
             PROVE  /\ MemberVisibility(it) \in Visibilities
                    /\ it.kind \notin MemberKinds => MemberVisibility(it) = "public"
    OBVIOUS
<1>1. it.kind \notin MemberKinds => it.flags \cap {"private", "protected"} = {}
    BY ItemParts DEF IsWellPlaced
<1>. QED BY <1>1 DEF MemberVisibility, Has, Visibilities

LEMMA PlainIs ==
    ASSUME NEW q \in Names, NEW kind \in SymbolKinds
    PROVE  /\ Plain(q, kind) \in SymbolRecords
           /\ Triple(Plain(q, kind)) = << q, <<>>, "public" >>
<1>1. "public" \in Visibilities /\ FALSE \in BOOLEAN
    BY DEF Visibilities
<1>2. Symbol(q, kind, <<>>, FALSE, "public") \in SymbolRecords
    BY <1>1, NoNames DEF SymbolRecords, Symbol
<1>. QED BY <1>2 DEF Plain, Triple, Symbol

LEMMA OneSymbol ==
    ASSUME NEW s \in SymbolRecords
    PROVE  << s >> \in Seq(SymbolRecords) /\ Triples(<< s >>) = {Triple(s)}
<1>1. Range(<< s >>) = {s}
    BY OneElement
<1>. QED BY <1>1, Single DEF Triples

LEMMA NoSymbols == <<>> \in Seq(SymbolRecords) /\ Triples(<<>>) = {}
BY EmptySeq DEF Triples, Range

LEMMA EachIs ==
    ASSUME NEW items \in Seq(Items), NEW prefix \in Names, NEW kind \in SymbolKinds
    PROVE  /\ Each(items, prefix, kind) \in Seq(SymbolRecords)
           /\ Triples(Each(items, prefix, kind)) =
                {<< Append(prefix, items[i].name), <<>>, "public" >> :
                   i \in {j \in DOMAIN items : items[j].name # ""}}
<1>0. \A i \in DOMAIN items : items[i] \in Items
    OBVIOUS
<1> DEFINE J == {j \in DOMAIN items : items[j].name # ""}
           seqs == [i \in DOMAIN items |->
                      IF items[i].name = "" THEN <<>>
                      ELSE << Plain(Append(prefix, items[i].name), kind) >>]
           f == [i \in DOMAIN items |-> Plain(Append(prefix, items[i].name), kind)]
<1>1. PICK m \in Nat : DOMAIN items = 1 .. m
    OBVIOUS
<1>2. J \in SUBSET (1 .. m)
    BY <1>1
<1>3. \A i \in J : f[i] \in SymbolRecords /\ Triple(f[i]) = << Append(prefix, items[i].name), <<>>, "public" >>
  <2> SUFFICES ASSUME NEW i \in J
               PROVE  f[i] \in SymbolRecords /\ Triple(f[i]) = << Append(prefix, items[i].name), <<>>, "public" >>
      OBVIOUS
  <2>0. i \in DOMAIN items /\ items[i] \in Items
      BY <1>0
  <2>1. items[i].name \in STRING /\ f[i] = Plain(Append(prefix, items[i].name), kind)
    <3>1. items[i].name \in STRING
        BY <2>0, ItemParts
    <3>. QED BY <2>0, <3>1
  <2>2. Append(prefix, items[i].name) \in Names
      BY <2>1, NameAppended, NoNames
  <2>. QED BY <2>1, <2>2, PlainIs
<1>4. /\ seqs = [i \in 1 .. m |-> seqs[i]]
      /\ \A i \in 1 .. m : (i \in J => seqs[i] = << f[i] >>) /\ (i \notin J => seqs[i] = <<>>)
    BY <1>1
<1>5. Each(items, prefix, kind) = FlattenSeq(seqs)
    BY DEF Each
<1> HIDE DEF seqs, f, J
<1>50. \A i \in J : f[i] \in SymbolRecords
    BY <1>3
<1>6. /\ FlattenSeq(seqs) \in Seq(SymbolRecords)
      /\ IsChosen(FlattenSeq(seqs), f, J)
    BY <1>2, <1>4, <1>50, ChosenRange
<1>7. Triples(FlattenSeq(seqs)) = {<< Append(prefix, items[i].name), <<>>, "public" >> : i \in J}
  <2>1. Triples(FlattenSeq(seqs)) = {Triple(f[i]) : i \in J}
      BY <1>6 DEF Triples, IsChosen
  <2>. QED BY <1>3, <2>1
<1>. QED BY <1>5, <1>6, <1>7 DEF J

LEMMA ClassMembersAre ==
    ASSUME NEW items \in Seq(Items), NEW class \in Names
    PROVE  /\ ClassMembers(class, items) \in Seq(SymbolRecords)
           /\ Triples(ClassMembers(class, items)) =
                {<< Append(class, items[i].name), class, MemberVisibility(items[i]) >> :
                   i \in {j \in DOMAIN items : items[j].name # ""}}
<1>0. \A i \in DOMAIN items : items[i] \in Items
    OBVIOUS
<1> DEFINE J == {j \in DOMAIN items : items[j].name # ""}
           member(m) == Symbol(Append(class, m.name), m.kind, class,
                               m.kind = "method" /\ Has(m, "static"), MemberVisibility(m))
           seqs == [i \in DOMAIN items |->
                      LET m == items[i]
                      IN  IF m.name = "" THEN <<>>
                          ELSE << Symbol(Append(class, m.name), m.kind, class,
                                         m.kind = "method" /\ Has(m, "static"), MemberVisibility(m)) >>]
           f == [i \in DOMAIN items |-> member(items[i])]
<1>1. PICK m \in Nat : DOMAIN items = 1 .. m
    OBVIOUS
<1>2. J \in SUBSET (1 .. m)
    BY <1>1
<1>3. ASSUME NEW i \in J
      PROVE  /\ f[i] \in SymbolRecords
             /\ Triple(f[i]) = << Append(class, items[i].name), class, MemberVisibility(items[i]) >>
  <2>0. i \in DOMAIN items /\ items[i] \in Items
      BY <1>0
  <2>1. /\ items[i] \in Items /\ items[i].name \in STRING /\ items[i].kind \in SymbolKinds
        /\ f[i] = member(items[i])
    <3>1. items[i].name \in STRING /\ items[i].kind \in SymbolKinds
        BY <2>0, ItemParts DEF SymbolKinds
    <3>. QED BY <2>0, <3>1
  <2>2. Append(class, items[i].name) \in Names
      BY <2>1, NameAppended, NoNames
  <2>3. MemberVisibility(items[i]) \in Visibilities
      BY <2>1, VisibilityIs
  <2> DEFINE static == items[i].kind = "method" /\ Has(items[i], "static")
             q == Append(class, items[i].name)
             kind == items[i].kind
             visibility == MemberVisibility(items[i])
  <2>4. f[i] = Symbol(q, kind, class, static, visibility)
      BY <2>1
  <2>5. static \in BOOLEAN
      OBVIOUS
  <2>6. kind \in SymbolKinds
      BY <2>1
  <2> HIDE DEF static, q, kind, visibility
  <2>7. Symbol(q, kind, class, static, visibility) \in SymbolRecords
      BY <2>2, <2>3, <2>5, <2>6 DEF SymbolRecords, Symbol, q, visibility
  <2>8. Triple(Symbol(q, kind, class, static, visibility)) = << q, class, visibility >>
      BY DEF Triple, Symbol
  <2>. QED BY <2>4, <2>7, <2>8 DEF q, visibility
<1>4. /\ seqs = [i \in 1 .. m |-> seqs[i]]
      /\ \A i \in 1 .. m : (i \in J => seqs[i] = << f[i] >>) /\ (i \notin J => seqs[i] = <<>>)
    BY <1>1
<1>5. ClassMembers(class, items) = FlattenSeq(seqs)
    BY DEF ClassMembers
<1> HIDE DEF seqs, f, J
<1>50. \A i \in J : f[i] \in SymbolRecords
    BY <1>3
<1>6. /\ FlattenSeq(seqs) \in Seq(SymbolRecords)
      /\ IsChosen(FlattenSeq(seqs), f, J)
    BY <1>2, <1>4, <1>50, ChosenRange
<1>7. Triples(FlattenSeq(seqs)) =
        {<< Append(class, items[i].name), class, MemberVisibility(items[i]) >> : i \in J}
  <2>1. Triples(FlattenSeq(seqs)) = {Triple(f[i]) : i \in J}
      BY <1>6 DEF Triples, IsChosen
  <2>. QED BY <1>3, <2>1
<1>. QED BY <1>5, <1>6, <1>7 DEF J
IsOuter(x, it, c) ==
    /\ x \in Seq(Items) /\ Len(x) = Len(c) + 1 /\ Len(c) \in Nat /\ x[1] = it
    /\ \A i \in 1 .. Len(c) : x[i + 1] = c[i]
    /\ Len(c) >= 1 => Last(x) = Last(c)
    /\ NamesIn(x) = << it.name >> \o NamesIn(c)

LEMMA OuterParts ==
    ASSUME NEW it \in Items, NEW c \in Seq(Items), NEW x, x = << it >> \o c
    PROVE  IsOuter(x, it, c)
<1>1. x \in Seq(Items) /\ Len(x) = Len(c) + 1 /\ Len(c) \in Nat /\ x[1] = it
    BY OuterChain
<1>2. \A i \in 1 .. Len(c) : x[i + 1] = c[i]
    BY OuterChain
<1>3. Len(c) >= 1 => Last(x) = Last(c)
    BY OuterChain
<1>4. NamesIn(x) = << it.name >> \o NamesIn(c)
    BY OuterChain
<1>. QED BY <1>1, <1>2, <1>3, <1>4 DEF IsOuter

(* The outermost names of a chain.                                         *)
LEMMA OuterNames ==
    ASSUME NEW it \in Items, NEW c \in Seq(Items), NEW x, x = << it >> \o c,
           NEW k \in 0 .. Len(c)
    PROVE  /\ SubSeq(c, 1, k) \in Seq(Items)
           /\ NamesIn(SubSeq(x, 1, k + 1)) = << it.name >> \o NamesIn(SubSeq(c, 1, k))
           /\ NamesIn(SubSeq(c, 1, k)) \in Names
<1> DEFINE s == SubSeq(c, 1, k)
           y == << it >> \o s
           z == SubSeq(x, 1, k + 1)
<1>1. /\ x \in Seq(Items) /\ Len(x) = Len(c) + 1 /\ Len(c) \in Nat /\ x[1] = it
      /\ \A i \in 1 .. Len(c) : x[i + 1] = c[i]
    BY OuterChain
<1>2. s \in Seq(Items) /\ Len(s) = k /\ \A i \in 1 .. k : s[i] = c[i]
  <2>1. k \in 0 .. Len(c) /\ Len(c) \in Nat
      BY <1>1
  <2>. QED BY <2>1, SubSeqProperties
<1>3. z \in Seq(Items) /\ Len(z) = k + 1 /\ \A i \in 1 .. k + 1 : z[i] = x[i]
  <2>1. k + 1 \in 0 .. Len(x) /\ Len(x) \in Nat
      BY <1>1
  <2>. QED BY <1>1, <2>1, SubSeqProperties
<1>4. /\ y \in Seq(Items) /\ Len(y) = Len(s) + 1 /\ y[1] = it
      /\ \A i \in 1 .. Len(s) : y[i + 1] = s[i]
      /\ NamesIn(y) = << it.name >> \o NamesIn(s)
  <2>1. PICK w : w = y
      OBVIOUS
  <2> HIDE DEF s
  <2>2. w = << it >> \o s
      BY <2>1
  <2> HIDE DEF y
  <2>3. /\ w \in Seq(Items) /\ Len(w) = Len(s) + 1 /\ w[1] = it
        /\ \A i \in 1 .. Len(s) : w[i + 1] = s[i]
        /\ NamesIn(w) = << it.name >> \o NamesIn(s)
    <3>1. IsOuter(w, it, s)
        BY <1>2, <2>2, OuterParts
    <3>. QED BY <3>1 DEF IsOuter
  <2>. QED BY <2>1, <2>3
<1> HIDE DEF s, y, z
<1>5. ASSUME NEW i \in 1 .. k + 1 PROVE y[i] = z[i]
  <2>1. CASE i = 1
      BY <1>1, <1>3, <1>4, <2>1
  <2>2. CASE i # 1
    <3>1. i - 1 \in 1 .. k /\ (i - 1) + 1 = i /\ i - 1 \in 1 .. Len(c)
        BY <1>1, <2>2
    <3>. QED BY <1>1, <1>2, <1>3, <1>4, <3>1
  <2>. QED BY <2>1, <2>2
<1>6. y = z
  <2>1. k + 1 \in Nat
      BY <1>1
  <2>. QED BY <1>2, <1>3, <1>4, <1>5, <2>1, SeqEqual
<1>. QED BY <1>2, <1>4, <1>6, NamesAreNames DEF s, z

(* A chain that is described at all, and how.                              *)
LEMMA NamesOfChain ==
    ASSUME NEW c \in Seq(Items), Len(c) >= 1, Last(c).kind = "name" => Len(c) >= 2
    PROVE  /\ QualifiedNameOf(c) \in Names
           /\ NamesIn(Front(c)) \in Names
           /\ Last(c) \in Items
<1>1. Last(c) \in Items /\ Len(c) \in Nat
    BY DEF Last
<1>2. \A k \in 0 .. Len(c) : NamesIn(SubSeq(c, 1, k)) \in Names
  <2> SUFFICES ASSUME NEW k \in 0 .. Len(c) PROVE NamesIn(SubSeq(c, 1, k)) \in Names
      OBVIOUS
  <2>1. SubSeq(c, 1, k) \in Seq(Items)
      BY SubSeqProperties
  <2>. QED BY <2>1, NamesAreNames
<1>3. NamesIn(Front(c)) \in Names
    BY <1>1, <1>2 DEF Front
<1>4. CASE Last(c).kind # "name"
    BY <1>1, <1>3, <1>4, NamesAreNames DEF QualifiedNameOf
<1>5. CASE Last(c).kind = "name"
  <2>1. Len(c) - 2 \in 0 .. Len(c) /\ Last(c).name \in STRING
      BY <1>1, <1>5, ItemParts
  <2>2. Append(NamesIn(SubSeq(c, 1, Len(c) - 2)), Last(c).name) \in Names
      BY <1>2, <2>1, NameAppended, NoNames
  <2>3. << Last(c).name >> \in Names
      BY <2>1, Single DEF Names
  <2>. QED BY <1>1, <1>3, <1>5, <2>2, <2>3 DEF QualifiedNameOf
<1>. QED BY <1>1, <1>3, <1>4, <1>5

LEMMA DescribedOuter ==
    ASSUME NEW it \in Items, NEW c \in Seq(Items), Len(c) >= 1,
           Last(c).kind \in MemberKinds \cup {"name"} => Len(c) >= 2,
           NEW prefix \in Names
    PROVE  DescribedUnder(prefix, << it >> \o c) = DescribedUnder(Append(prefix, it.name), c)
<1>0. PICK x : x = << it >> \o c
    OBVIOUS
<1> DEFINE here == Append(prefix, it.name)
<1>1. /\ x \in Seq(Items) /\ Len(x) = Len(c) + 1 /\ Len(c) \in Nat /\ x[1] = it
      /\ Last(x) = Last(c)
      /\ NamesIn(x) = << it.name >> \o NamesIn(c)
      /\ \A i \in 1 .. Len(c) : x[i + 1] = c[i]
  <2>1. IsOuter(x, it, c)
      BY <1>0, OuterParts
  <2>. QED BY <2>1 DEF IsOuter
<1>2. it.name \in STRING
    BY ItemParts
<1>3. \A q \in Names : here \o q = prefix \o (<< it.name >> \o q)
    BY <1>2, NameAppended
<1>4. ASSUME NEW k \in 0 .. Len(c)
      PROVE  /\ NamesIn(SubSeq(x, 1, k + 1)) = << it.name >> \o NamesIn(SubSeq(c, 1, k))
             /\ NamesIn(SubSeq(c, 1, k)) \in Names
    BY <1>0, OuterNames
<1> HIDE DEF here
<1>5. NamesIn(Front(c)) \in Names /\ NamesIn(Front(x)) = << it.name >> \o NamesIn(Front(c))
  <2>1. Len(c) - 1 \in 0 .. Len(c) /\ (Len(c) - 1) + 1 = Len(x) - 1
      BY <1>1
  <2>. QED BY <1>4, <2>1 DEF Front
<1>6. IsCommon(x) <=> IsCommon(c)
  <2>1. CASE Last(c).kind = "name"
    <3>1. Len(c) - 1 \in 1 .. Len(c) /\ (Len(c) - 1) + 1 = Len(x) - 1
        BY <1>1, <2>1
    <3>. QED BY <1>1, <3>1 DEF IsCommon
  <2>. QED BY <1>1, <2>1 DEF IsCommon
<1>7. CASE Last(c).kind # "name"
  <2>1. QualifiedNameOf(x) = << it.name >> \o NamesIn(c) /\ QualifiedNameOf(c) = NamesIn(c)
      BY <1>1, <1>7 DEF QualifiedNameOf
  <2>2. here \o QualifiedNameOf(c) = prefix \o QualifiedNameOf(x)
      BY <1>3, <2>1, NamesAreNames
  <2>3. ~IsCommon(x) /\ ~IsCommon(c)
      BY <1>6, <1>7 DEF IsCommon
  <2>. QED BY <1>0, <1>1, <1>3, <1>5, <2>2, <2>3 DEF DescribedUnder, here
<1>8. CASE Last(c).kind = "name"
  <2>1. Last(c).kind \notin MemberKinds /\ Last(x).kind \notin MemberKinds
      BY <1>1, <1>8 DEF MemberKinds
  <2>2. CASE IsCommon(c)
    <3>1. QualifiedNameOf(c) = << Last(c).name >> /\ QualifiedNameOf(x) = << Last(c).name >>
        BY <1>1, <1>6, <2>2 DEF IsCommon, QualifiedNameOf
    <3>. QED BY <1>0, <1>1, <1>6, <2>1, <2>2, <3>1 DEF DescribedUnder
  <2>3. CASE ~IsCommon(c)
    <3> DEFINE q == NamesIn(SubSeq(c, 1, Len(c) - 2))
               name == Last(c).name
    <3>1. Len(c) - 2 \in 0 .. Len(c) /\ (Len(c) - 2) + 1 = Len(x) - 2 /\ name \in STRING
      <4>1. Last(c) \in Items
          BY <1>1 DEF Last
      <4>. QED BY <1>1, <1>8, <4>1, ItemParts
    <3>2. q \in Names /\ NamesIn(SubSeq(x, 1, Len(x) - 2)) = << it.name >> \o q
        BY <1>4, <3>1
    <3>3. QualifiedNameOf(c) = Append(q, name)
        BY <1>8, <2>3 DEF IsCommon, QualifiedNameOf
    <3>4. QualifiedNameOf(x) = Append(<< it.name >> \o q, name)
        BY <1>1, <1>6, <1>8, <2>3, <3>2 DEF IsCommon, QualifiedNameOf
    <3> HIDE DEF q, name
    <3>5. << it.name >> \o q \in Names /\ << name >> \in Names /\ << it.name >> \in Names
        BY <1>2, <3>1, <3>2, NameAppended, Single DEF Names
    <3>6. QualifiedNameOf(x) = (<< it.name >> \o q) \o << name >>
        BY <3>1, <3>4, <3>5, NameAppended, NoNames
    <3>7. QualifiedNameOf(c) = q \o << name >> /\ q \o << name >> \in Names
        BY <3>1, <3>2, <3>3, NameAppended, NoNames
    <3>8. QualifiedNameOf(x) = << it.name >> \o QualifiedNameOf(c)
        BY <3>2, <3>5, <3>6, <3>7, ConcatAssociative DEF Names
    <3>9. here \o QualifiedNameOf(c) = prefix \o QualifiedNameOf(x)
        BY <1>3, <3>7, <3>8
    <3>. QED BY <1>0, <1>1, <1>6, <2>1, <2>3, <3>9 DEF DescribedUnder, here
  <2>. QED BY <2>2, <2>3
<1>. QED BY <1>7, <1>8

(* What it takes to be walked.                                             *)
LEMMA WalkedKinds ==
    ASSUME NEW c
    PROVE  /\ Last(c).kind \in {"function", "class", "interface", "alias"} =>
                (IsVisited(c) <=> /\ Last(c).name # ""
                                  /\ \A i \in 1 .. Len(c) - 1 : IsEntered(c[i])
                                  /\ Has(Last(c), "export") /\ ~Has(Last(c), "declare"))
           /\ Last(c).kind \in {"method", "constructor"} /\ Len(c) > 1 =>
                (IsVisited(c) <=>
                   LET parent == c[Len(c) - 1]
                   IN  /\ Last(c).name # "" /\ \A i \in 1 .. Len(c) - 2 : IsEntered(c[i])
                       /\ parent.kind = "class" /\ parent.name # ""
                       /\ Has(parent, "export") /\ ~Has(parent, "declare"))
           /\ Last(c).kind = "name" /\ Len(c) > 1 =>
                (IsVisited(c) <=>
                   LET parent == c[Len(c) - 1]
                   IN  /\ Last(c).name # "" /\ \A i \in 1 .. Len(c) - 2 : IsEntered(c[i])
                       /\ ~Has(parent, "declare")
                       /\ parent.kind = "variables" => Has(parent, "export"))
<1>1. CASE Last(c).kind \in {"function", "class", "interface", "alias"}
    BY <1>1 DEF IsVisited
<1>2. CASE Last(c).kind \in {"method", "constructor"}
    BY <1>2 DEF IsVisited
<1>3. CASE Last(c).kind = "name"
    BY <1>3 DEF IsVisited
<1>. QED BY <1>1, <1>2, <1>3

(* A chain is walked in a namespace that is if it is by itself.            *)
LEMMA WalkedOuter ==
    ASSUME NEW it \in Items, NEW c \in Seq(Items), Len(c) >= 1,
           Last(c).kind \in MemberKinds \cup {"name"} => Len(c) >= 2
    PROVE  IsVisited(<< it >> \o c) <=> IsEntered(it) /\ IsVisited(c)
<1>0. PICK x : x = << it >> \o c
    OBVIOUS
<1> DEFINE m == Len(c)
           n == Len(x)
           ReachedX(k) == \A i \in 1 .. k : IsEntered(x[i])
           Reached(k) == \A i \in 1 .. k : IsEntered(c[i])
<1>1. /\ x \in Seq(Items) /\ n = m + 1 /\ m \in Nat /\ x[1] = it
      /\ Last(x) = Last(c)
      /\ \A i \in 1 .. m : x[i + 1] = c[i]
  <2>1. IsOuter(x, it, c)
      BY <1>0, OuterParts
  <2>. QED BY <2>1 DEF IsOuter
<1>2. ASSUME NEW k \in 0 .. m PROVE ReachedX(k + 1) <=> IsEntered(it) /\ Reached(k)
  <2>1. ASSUME ReachedX(k + 1) PROVE IsEntered(it) /\ Reached(k)
    <3>1. 1 \in 1 .. k + 1 /\ \A i \in 1 .. k : i + 1 \in 1 .. k + 1 /\ i \in 1 .. m
        BY <1>1
    <3>. QED BY <1>1, <2>1, <3>1
  <2>2. ASSUME IsEntered(it), Reached(k), NEW i \in 1 .. k + 1 PROVE IsEntered(x[i])
    <3>1. CASE i = 1
        BY <1>1, <2>2, <3>1
    <3>2. CASE i # 1
      <4>1. i - 1 \in 1 .. k /\ (i - 1) + 1 = i /\ i - 1 \in 1 .. m
          BY <1>1, <3>2
      <4>. QED BY <1>1, <2>2, <4>1
    <3>. QED BY <3>1, <3>2
  <2>. QED BY <2>1, <2>2
<1>3. Len(c) >= 2 => x[n - 1] = c[m - 1]
  <2>1. Len(c) >= 2 => m - 1 \in 1 .. m /\ (m - 1) + 1 = n - 1
      BY <1>1
  <2>. QED BY <1>1, <2>1
<1> DEFINE y == Last(c)
           parent == c[m - 1]
           public(z) == Has(z, "export") /\ ~Has(z, "declare")
<1>4. CASE y.kind \in {"function", "class", "interface", "alias"}
  <2>1. IsVisited(x) <=> y.name # "" /\ ReachedX(n - 1) /\ public(y)
      BY <1>1, <1>4, WalkedKinds
  <2>2. IsVisited(c) <=> y.name # "" /\ Reached(m - 1) /\ public(y)
      BY <1>4, WalkedKinds
  <2>3. m - 1 \in 0 .. m /\ n - 1 = (m - 1) + 1
      BY <1>1
  <2>4. ReachedX(n - 1) <=> IsEntered(it) /\ Reached(m - 1)
      BY <1>2, <2>3
  <2> HIDE DEF ReachedX, Reached, public, y
  <2>. QED BY <1>0, <2>1, <2>2, <2>4
<1>5. CASE y.kind \in {"method", "constructor"}
  <2>0. m >= 2 /\ n > 1 /\ m > 1
      BY <1>1, <1>5 DEF MemberKinds
  <2>1. IsVisited(x) <=> /\ y.name # "" /\ ReachedX(n - 2)
                         /\ parent.kind = "class" /\ parent.name # "" /\ public(parent)
      BY <1>1, <1>3, <1>5, <2>0, WalkedKinds
  <2>2. IsVisited(c) <=> /\ y.name # "" /\ Reached(m - 2)
                         /\ parent.kind = "class" /\ parent.name # "" /\ public(parent)
      BY <1>5, <2>0, WalkedKinds
  <2>3. m - 2 \in 0 .. m /\ n - 2 = (m - 2) + 1
      BY <1>1, <2>0
  <2>4. ReachedX(n - 2) <=> IsEntered(it) /\ Reached(m - 2)
      BY <1>2, <2>3
  <2> HIDE DEF ReachedX, Reached, public, y, parent
  <2>. QED BY <1>0, <2>1, <2>2, <2>4
<1>6. CASE y.kind = "name"
  <2>0. m >= 2 /\ n > 1 /\ m > 1
      BY <1>1, <1>6
  <2>1. IsVisited(x) <=> /\ y.name # "" /\ ReachedX(n - 2) /\ ~Has(parent, "declare")
                         /\ (parent.kind = "variables" => Has(parent, "export"))
      BY <1>1, <1>3, <1>6, <2>0, WalkedKinds
  <2>2. IsVisited(c) <=> /\ y.name # "" /\ Reached(m - 2) /\ ~Has(parent, "declare")
                         /\ (parent.kind = "variables" => Has(parent, "export"))
      BY <1>6, <2>0, WalkedKinds
  <2>3. m - 2 \in 0 .. m /\ n - 2 = (m - 2) + 1
      BY <1>1, <2>0
  <2>4. ReachedX(n - 2) <=> IsEntered(it) /\ Reached(m - 2)
      BY <1>2, <2>3
  <2> HIDE DEF ReachedX, Reached, y, parent
  <2>. QED BY <1>0, <2>1, <2>2, <2>4
<1>7. CASE y.kind \notin {"function", "class", "interface", "alias", "method", "constructor", "name"}
    BY <1>0, <1>1, <1>7 DEF IsVisited
<1>. QED BY <1>4, <1>5, <1>6, <1>7
(* A declaration by itself, and one with a member or a name in it.         *)
LEMMA AloneIs ==
    ASSUME NEW it \in Items, it.kind \notin MemberKinds \cup {"name"}, NEW prefix \in Names
    PROVE  /\ IsVisited(<< it >>) <=> /\ it.kind \in {"function", "class", "interface", "alias"}
                                      /\ it.name # "" /\ Has(it, "export") /\ ~Has(it, "declare")
           /\ DescribedUnder(prefix, << it >>) = << Append(prefix, it.name), <<>>, "public" >>
<1>1. PICK c : c = << it >>
    OBVIOUS
<1>2. Last(c) = it /\ Len(c) = 1 /\ NamesIn(c) = << it.name >>
    BY <1>1, OneName
<1>3. it.kind # "name" /\ it.kind \notin {"method", "constructor"}
    BY DEF MemberKinds
<1>4. IsVisited(c) <=> /\ it.kind \in {"function", "class", "interface", "alias"}
                       /\ it.name # "" /\ Has(it, "export") /\ ~Has(it, "declare")
  <2>1. CASE it.kind \in {"function", "class", "interface", "alias"}
    <3>1. \A i \in 1 .. Len(c) - 1 : IsEntered(c[i])
        BY <1>2
    <3>. QED BY <1>2, <2>1, <3>1, WalkedKinds
  <2>2. CASE it.kind \notin {"function", "class", "interface", "alias"}
      BY <1>2, <1>3, <2>2 DEF IsVisited
  <2>. QED BY <2>1, <2>2
<1>5. DescribedUnder(prefix, c) = << prefix \o << it.name >>, <<>>, "public" >>
  <2>1. QualifiedNameOf(c) = << it.name >> /\ ~IsCommon(c)
      BY <1>2, <1>3 DEF QualifiedNameOf, IsCommon
  <2>2. MemberVisibility(it) = "public"
      BY VisibilityIs
  <2>. QED BY <1>2, <2>1, <2>2 DEF DescribedUnder
<1>6. prefix \o << it.name >> = Append(prefix, it.name)
    BY ItemParts, NameAppended, NoNames
<1>. QED BY <1>1, <1>4, <1>5, <1>6

LEMMA ShallowChains ==
    ASSUME NEW it \in Items, \A i \in DOMAIN it.items : it.items[i].items = <<>>
    PROVE  Chains[it] = {<< it >>} \cup {<< it >> \o << it.items[i] >> : i \in DOMAIN it.items}
<1>1. ASSUME NEW i \in DOMAIN it.items PROVE Chains[it.items[i]] = {<< it.items[i] >>}
  <2>1. it.items[i] \in Items /\ DOMAIN it.items[i].items = {}
      BY ItemParts
  <2>2. \A x \in Chains[it.items[i]] : x = << it.items[i] >>
      BY <2>1, ChainCases
  <2>3. << it.items[i] >> \in Chains[it.items[i]]
      BY <2>1, ChainCases
  <2>. QED BY <2>2, <2>3
<1>2. ASSUME NEW x \in Chains[it], x # << it >>
      PROVE  x \in {<< it >> \o << it.items[i] >> : i \in DOMAIN it.items}
  <2>1. PICK i, c : i \in DOMAIN it.items /\ c \in Chains[it.items[i]] /\ x = << it >> \o c
      BY <1>2, ChainCases
  <2>. QED BY <1>1, <2>1
<1>3. ASSUME NEW i \in DOMAIN it.items PROVE << it >> \o << it.items[i] >> \in Chains[it]
    BY <1>1, ChainCases
<1>4. << it >> \in Chains[it]
    BY ChainCases
<1>. QED BY <1>2, <1>3, <1>4

LEMMA InsideIs ==
    ASSUME NEW it \in Items, NEW m \in Items, m.kind \in MemberKinds \cup {"name"},
           NEW prefix \in Names, NEW x, x = << it >> \o << m >>
    PROVE  /\ m.kind \in MemberKinds =>
                /\ IsVisited(x) <=> /\ m.name # "" /\ it.kind = "class" /\ it.name # ""
                                    /\ Has(it, "export") /\ ~Has(it, "declare")
                /\ DescribedUnder(prefix, x) =
                     << Append(Append(prefix, it.name), m.name), Append(prefix, it.name),
                        MemberVisibility(m) >>
           /\ m.kind = "name" =>
                /\ IsVisited(x) <=> /\ m.name # "" /\ ~Has(it, "declare")
                                    /\ it.kind = "variables" => Has(it, "export")
                /\ DescribedUnder(prefix, x) =
                     << IF it.kind = "commonjs" THEN Append(<<>>, m.name) ELSE Append(prefix, m.name),
                        <<>>, "public" >>
<1>0. PICK c : c = << m >>
    OBVIOUS
<1>1. c \in Seq(Items) /\ Last(c) = m /\ Len(c) = 1 /\ NamesIn(c) = << m.name >>
    BY <1>0, OneName, Single
<1>2. /\ x \in Seq(Items) /\ Len(x) = 2 /\ x[1] = it /\ Last(x) = m
      /\ NamesIn(x) = << it.name >> \o << m.name >>
  <2>1. IsOuter(x, it, c)
      BY <1>0, <1>1, OuterParts
  <2>. QED BY <1>1, <2>1 DEF IsOuter
<1>20. Len(x) > 1 /\ Len(x) - 1 = 1 /\ Len(x) - 2 = 0 /\ x[Len(x) - 1] = it
    BY <1>2
<1>3. it.name \in STRING /\ m.name \in STRING
    BY ItemParts
<1>4. NamesIn(<<>>) = <<>>
    BY DEF NamesIn
<1>5. SubSeq(x, 1, 0) = <<>> /\ SubSeq(c, 1, 0) = <<>>
    BY <1>1, <1>2, SubSeqProperties
<1>6. NamesIn(Front(x)) = << it.name >>
  <2>1. 0 \in 0 .. Len(c)
      BY <1>1
  <2>2. NamesIn(SubSeq(x, 1, 0 + 1)) = << it.name >> \o NamesIn(SubSeq(c, 1, 0))
      BY <1>0, <1>1, <2>1, OuterNames
  <2>4. SubSeq(x, 1, 0 + 1) = Front(x)
      BY <1>20 DEF Front
  <2>3. << it.name >> \o <<>> = << it.name >>
      BY <1>3, NameAppended, Single, NoNames DEF Names
  <2>. QED BY <1>4, <1>5, <2>2, <2>3, <2>4
<1>7. prefix \o << it.name >> = Append(prefix, it.name) /\ Append(prefix, it.name) \in Names
    BY <1>3, NameAppended, NoNames
<1>8. CASE m.kind \in MemberKinds
  <2>1. m.kind # "name" /\ m.kind \in {"method", "constructor"}
      BY <1>8 DEF MemberKinds
  <2>2. IsVisited(x) <=> /\ m.name # "" /\ it.kind = "class" /\ it.name # ""
                         /\ Has(it, "export") /\ ~Has(it, "declare")
    <3>1. \A i \in 1 .. Len(x) - 2 : IsEntered(x[i])
        BY <1>2
    <3>. QED BY <1>2, <1>20, <2>1, <3>1, WalkedKinds
  <2>3. QualifiedNameOf(x) = << it.name >> \o << m.name >> /\ ~IsCommon(x)
      BY <1>2, <2>1 DEF QualifiedNameOf, IsCommon
  <2>4. prefix \o (<< it.name >> \o << m.name >>) = Append(Append(prefix, it.name), m.name)
    <3>1. << m.name >> \in Names
        BY <1>3, Single DEF Names
    <3>2. Append(prefix, it.name) \o << m.name >> = prefix \o (<< it.name >> \o << m.name >>)
        BY <1>3, <3>1, NameAppended
    <3>3. Append(prefix, it.name) \o << m.name >> = Append(Append(prefix, it.name), m.name)
        BY <1>3, <1>7, NameAppended, NoNames
    <3>. QED BY <3>2, <3>3
  <2>5. DescribedUnder(prefix, x) =
          << Append(Append(prefix, it.name), m.name), Append(prefix, it.name), MemberVisibility(m) >>
      BY <1>2, <1>6, <1>7, <1>8, <2>3, <2>4 DEF DescribedUnder
  <2>. QED BY <2>1, <2>2, <2>5
<1>9. CASE m.kind = "name"
  <2>1. m.kind \notin MemberKinds
      BY <1>9 DEF MemberKinds
  <2>2. IsVisited(x) <=> /\ m.name # "" /\ ~Has(it, "declare")
                         /\ it.kind = "variables" => Has(it, "export")
    <3>1. \A i \in 1 .. Len(x) - 2 : IsEntered(x[i])
        BY <1>2
    <3>. QED BY <1>2, <1>20, <1>9, <3>1, WalkedKinds
  <2>3. Append(<<>>, m.name) = << m.name >> /\ prefix \o << m.name >> = Append(prefix, m.name)
    <3>1. Append(<<>>, m.name) = <<>> \o << m.name >>
        BY <1>3, NameAppended, NoNames
    <3>2. << m.name >> \in Names
        BY <1>3, Single DEF Names
    <3>3. prefix \o << m.name >> = Append(prefix, m.name)
        BY <1>3, NameAppended, NoNames
    <3>. QED BY <3>1, <3>2, <3>3, NoNames
  <2>4. IsCommon(x) <=> it.kind = "commonjs"
      BY <1>2, <1>9 DEF IsCommon
  <2>5. QualifiedNameOf(x) = << m.name >>
      BY <1>2, <1>20, <1>4, <1>5, <1>9, <2>3 DEF QualifiedNameOf
  <2>6. MemberVisibility(m) = "public"
      BY <2>1, VisibilityIs
  <2>. QED BY <1>2, <2>1, <2>2, <2>3, <2>4, <2>5, <2>6 DEF DescribedUnder
<1>. QED BY <1>8, <1>9
(* What is visible of a declaration that holds no others but members or    *)
(* names.                                                                  *)
LEMMA ShallowDescribed ==
    ASSUME NEW it \in Items, it.kind \notin MemberKinds \cup {"name"}, NEW prefix \in Names,
           \A i \in DOMAIN it.items :
             it.items[i].items = <<>> /\ it.items[i].kind \in MemberKinds \cup {"name"}
    PROVE  {DescribedUnder(prefix, c) : c \in {x \in Chains[it] : IsVisited(x)}} =
             {<< Append(prefix, it.name), <<>>, "public" >> :
                c \in {x \in {<< it >>} : IsVisited(x)}}
             \cup {DescribedUnder(prefix, << it >> \o << it.items[i] >>) :
                     i \in {j \in DOMAIN it.items : IsVisited(<< it >> \o << it.items[j] >>)}}
<1>1. Chains[it] = {<< it >>} \cup {<< it >> \o << it.items[i] >> : i \in DOMAIN it.items}
    BY ShallowChains
<1>2. DescribedUnder(prefix, << it >>) = << Append(prefix, it.name), <<>>, "public" >>
    BY AloneIs
<1>. QED BY <1>1, <1>2

LEMMA InsideWalked ==
    ASSUME NEW it \in Items, NEW prefix \in Names, NEW i \in DOMAIN it.items,
           NEW kinds, kinds = MemberKinds \/ kinds = {"name"}, it.items[i].kind \in kinds
    PROVE  LET m == it.items[i]
               x == << it >> \o << m >>
           IN  /\ kinds = MemberKinds =>
                    /\ IsVisited(x) <=> /\ m.name # "" /\ it.kind = "class" /\ it.name # ""
                                        /\ Has(it, "export") /\ ~Has(it, "declare")
                    /\ DescribedUnder(prefix, x) =
                         << Append(Append(prefix, it.name), m.name), Append(prefix, it.name),
                            MemberVisibility(m) >>
               /\ kinds = {"name"} =>
                    /\ IsVisited(x) <=> /\ m.name # "" /\ ~Has(it, "declare")
                                        /\ it.kind = "variables" => Has(it, "export")
                    /\ DescribedUnder(prefix, x) =
                         << IF it.kind = "commonjs" THEN Append(<<>>, m.name)
                            ELSE Append(prefix, m.name), <<>>, "public" >>
<1>1. PICK m : m = it.items[i]
    OBVIOUS
<1>2. m \in Items /\ m.kind \in MemberKinds \cup {"name"}
    BY <1>1, ItemParts
<1>3. PICK x : x = << it >> \o << m >>
    OBVIOUS
<1>4. CASE kinds = MemberKinds
  <2>1. m.kind \in MemberKinds /\ kinds # {"name"}
      BY <1>1, <1>4 DEF MemberKinds
  <2>2. IsVisited(x) <=> /\ m.name # "" /\ it.kind = "class" /\ it.name # ""
                         /\ Has(it, "export") /\ ~Has(it, "declare")
      BY <1>2, <1>3, <2>1, InsideIs
  <2>3. DescribedUnder(prefix, x) =
          << Append(Append(prefix, it.name), m.name), Append(prefix, it.name), MemberVisibility(m) >>
      BY <1>2, <1>3, <2>1, InsideIs
  <2>. QED BY <1>1, <1>3, <2>1, <2>2, <2>3
<1>5. CASE kinds = {"name"}
  <2>1. m.kind = "name" /\ kinds # MemberKinds
      BY <1>1, <1>5 DEF MemberKinds
  <2>2. IsVisited(x) <=> /\ m.name # "" /\ ~Has(it, "declare")
                         /\ it.kind = "variables" => Has(it, "export")
      BY <1>2, <1>3, <2>1, InsideIs
  <2>3. DescribedUnder(prefix, x) =
          << IF it.kind = "commonjs" THEN Append(<<>>, m.name) ELSE Append(prefix, m.name),
             <<>>, "public" >>
      BY <1>2, <1>3, <2>1, InsideIs
  <2>. QED BY <1>1, <1>3, <2>1, <2>2, <2>3
<1>. QED BY <1>4, <1>5

(* A function, an interface, an alias.                                     *)
LEMMA PlainSymbols ==
    ASSUME NEW it \in Items, it.kind \in PlainKinds, NEW prefix \in Names
    PROVE  /\ VisitSymbols[it][prefix] \in Seq(SymbolRecords)
           /\ Triples(VisitSymbols[it][prefix]) =
                {DescribedUnder(prefix, c) : c \in {x \in Chains[it] : IsVisited(x)}}
<1> DEFINE r == VisitSymbols[it][prefix]
           here == Append(prefix, it.name)
           all == {DescribedUnder(prefix, c) : c \in {x \in Chains[it] : IsVisited(x)}}
           seen == Has(it, "export") /\ it.name # "" /\ ~Has(it, "declare")
<1>1. r = SymbolsBy(VisitSymbols, it, prefix)
    BY VisitSymbolsIs
<1>2. it.kind \notin MemberKinds \cup {"name"} /\ it.items = <<>> /\ it.name \in STRING
      /\ it.kind \in {"function", "class", "interface", "alias"}
    BY ItemParts DEF IsWellPlaced, PlainKinds, MemberKinds
<1>3. all = {<< here, <<>>, "public" >> : c \in {x \in {<< it >>} : IsVisited(x)}}
  <2>1. DOMAIN it.items = {}
      BY <1>2
  <2>2. all = {<< here, <<>>, "public" >> : c \in {x \in {<< it >>} : IsVisited(x)}}
              \cup {DescribedUnder(prefix, << it >> \o << it.items[i] >>) :
                      i \in {j \in DOMAIN it.items : IsVisited(<< it >> \o << it.items[j] >>)}}
      BY <1>2, <2>1, ShallowDescribed
  <2> HIDE DEF all, here
  <2>. QED BY <2>1, <2>2
<1>4. IsVisited(<< it >>) <=> seen
    BY <1>2, AloneIs
<1>5. here \in Names
    BY <1>2, NameAppended, NoNames
<1>6. CASE seen
  <2>1. PICK kind \in SymbolKinds : r = << Plain(here, kind) >>
    <3>1. r = << Plain(here, IF it.kind = "alias" THEN "typealias" ELSE it.kind) >>
        BY <1>1, <1>6 DEF SymbolsBy, PlainKinds, HasBlock
    <3>2. (IF it.kind = "alias" THEN "typealias" ELSE it.kind) \in SymbolKinds
        BY ItemParts DEF SymbolKinds
    <3>. QED BY <3>1, <3>2
  <2>2. PICK s : s = Plain(here, kind)
      OBVIOUS
  <2>3. s \in SymbolRecords /\ Triple(s) = << here, <<>>, "public" >>
      BY <1>5, <2>2, PlainIs
  <2>4. r = << s >>
      BY <2>1, <2>2
  <2>5. all = {<< here, <<>>, "public" >>}
      BY <1>3, <1>4, <1>6
  <2> HIDE DEF r, all, here
  <2>6. r \in Seq(SymbolRecords) /\ Triples(r) = all
      BY <2>3, <2>4, <2>5, OneSymbol
  <2>. QED BY <2>6 DEF r, all
<1>7. CASE ~seen
  <2>1. r = <<>>
      BY <1>1, <1>7 DEF SymbolsBy, HasBlock, PlainKinds
  <2>2. all = {}
      BY <1>3, <1>4, <1>7
  <2>. QED BY <2>1, <2>2, NoSymbols
<1>. QED BY <1>6, <1>7

(* A class with its members.                                               *)
LEMMA ClassSymbols ==
    ASSUME NEW it \in Items, it.kind = "class", NEW prefix \in Names
    PROVE  /\ VisitSymbols[it][prefix] \in Seq(SymbolRecords)
           /\ Triples(VisitSymbols[it][prefix]) =
                {DescribedUnder(prefix, c) : c \in {x \in Chains[it] : IsVisited(x)}}
<1> DEFINE r == VisitSymbols[it][prefix]
           here == Append(prefix, it.name)
           all == {DescribedUnder(prefix, c) : c \in {x \in Chains[it] : IsVisited(x)}}
           seen == Has(it, "export") /\ it.name # "" /\ ~Has(it, "declare")
           X(i) == << it >> \o << it.items[i] >>
           inside == {DescribedUnder(prefix, X(i)) : i \in {j \in DOMAIN it.items : IsVisited(X(j))}}
           members == {<< Append(here, it.items[i].name), here, MemberVisibility(it.items[i]) >> :
                         i \in {j \in DOMAIN it.items : it.items[j].name # ""}}
<1>1. r = SymbolsBy(VisitSymbols, it, prefix)
    BY VisitSymbolsIs
<1>2. /\ it.kind \notin MemberKinds \cup {"name"} /\ it.items \in Seq(Items) /\ it.name \in STRING
      /\ \A i \in DOMAIN it.items :
           it.items[i].items = <<>> /\ it.items[i].kind \in MemberKinds \cup {"name"}
           /\ it.items[i].kind \in MemberKinds
  <2>1. it.items \in Seq(Items) /\ it.name \in STRING /\ IsWellPlaced(it)
        /\ \A i \in DOMAIN it.items : it.items[i] \in Items
      BY ItemParts
  <2>2. \A i \in DOMAIN it.items : it.items[i].kind \in MemberKinds
      BY <2>1 DEF IsWellPlaced
  <2>3. \A i \in DOMAIN it.items : it.items[i].items = <<>>
    <3>1. \A i \in DOMAIN it.items : IsWellPlaced(it.items[i])
        BY <2>1, ItemParts
    <3>. QED BY <2>2, <3>1 DEF IsWellPlaced
  <2>. QED BY <2>1, <2>2, <2>3 DEF MemberKinds
<1>3. all = {<< here, <<>>, "public" >> : c \in {x \in {<< it >>} : IsVisited(x)}} \cup inside
    BY <1>2, ShallowDescribed
<1>4. IsVisited(<< it >>) <=> seen
    BY <1>2, AloneIs
<1>5. here \in Names
    BY <1>2, NameAppended, NoNames
<1>6. ASSUME NEW i \in DOMAIN it.items
      PROVE  /\ IsVisited(X(i)) <=> it.items[i].name # "" /\ seen
             /\ DescribedUnder(prefix, X(i)) =
                  << Append(here, it.items[i].name), here, MemberVisibility(it.items[i]) >>
  <2>1. PICK kinds : kinds = MemberKinds /\ it.items[i].kind \in kinds
      BY <1>2
  <2>. QED BY <2>1, InsideWalked
<1> HIDE DEF X
<1>7. CASE seen
  <2>1. r = << Plain(here, "class") >> \o ClassMembers(here, it.items)
      BY <1>1, <1>7 DEF SymbolsBy, PlainKinds, HasBlock
  <2>2. PICK s : s = Plain(here, "class")
      OBVIOUS
  <2>3. s \in SymbolRecords /\ Triple(s) = << here, <<>>, "public" >>
    <3>1. "class" \in SymbolKinds
        BY DEF SymbolKinds, ItemKinds
    <3>. QED BY <1>5, <2>2, <3>1, PlainIs
  <2>4. PICK t : t = ClassMembers(here, it.items)
      OBVIOUS
  <2>5. t \in Seq(SymbolRecords) /\ Triples(t) = members
      BY <1>2, <1>5, <2>4, ClassMembersAre
  <2>6. inside = members
      BY <1>6, <1>7
  <2>7. all = {<< here, <<>>, "public" >>} \cup members
      BY <1>3, <1>4, <1>7, <2>6
  <2> HIDE DEF r, all, here, members, inside
  <2>8. << s >> \in Seq(SymbolRecords) /\ Triples(<< s >>) = {Triple(s)}
      BY <2>3, OneSymbol
  <2>9. r = << s >> \o t
      BY <2>1, <2>2, <2>4 DEF here
  <2>10. r \in Seq(SymbolRecords) /\ Range(r) = Range(<< s >>) \cup Range(t)
    <3>1. PICK o : o = << s >>
        OBVIOUS
    <3>2. o \o t \in Seq(SymbolRecords) /\ Range(o \o t) = Range(o) \cup Range(t)
        BY <2>5, <2>8, <3>1, ConcatRange, ConcatProperties
    <3>. QED BY <2>9, <3>1, <3>2
  <2>11. Triples(r) = Triples(<< s >>) \cup Triples(t)
      BY <2>10 DEF Triples
  <2>12. r \in Seq(SymbolRecords) /\ Triples(r) = all
      BY <2>3, <2>5, <2>7, <2>8, <2>10, <2>11
  <2>. QED BY <2>12 DEF r, all
<1>8. CASE ~seen
  <2>1. r = <<>>
      BY <1>1, <1>8 DEF SymbolsBy, HasBlock, PlainKinds
  <2>2. all = {}
      BY <1>3, <1>4, <1>6, <1>8
  <2>. QED BY <2>1, <2>2, NoSymbols
<1>. QED BY <1>7, <1>8
(* The names of a list.                                                    *)
LEMMA ListSymbols ==
    ASSUME NEW it \in Items, it.kind \in ListKinds, NEW prefix \in Names
    PROVE  /\ VisitSymbols[it][prefix] \in Seq(SymbolRecords)
           /\ Triples(VisitSymbols[it][prefix]) =
                {DescribedUnder(prefix, c) : c \in {x \in Chains[it] : IsVisited(x)}}
<1> DEFINE r == VisitSymbols[it][prefix]
           all == {DescribedUnder(prefix, c) : c \in {x \in Chains[it] : IsVisited(x)}}
           seen == ~Has(it, "declare") /\ (it.kind = "variables" => Has(it, "export"))
           under == IF it.kind = "commonjs" THEN <<>> ELSE prefix
           X(i) == << it >> \o << it.items[i] >>
           inside == {DescribedUnder(prefix, X(i)) : i \in {j \in DOMAIN it.items : IsVisited(X(j))}}
           each == {<< Append(under, it.items[i].name), <<>>, "public" >> :
                      i \in {j \in DOMAIN it.items : it.items[j].name # ""}}
<1>1. r = SymbolsBy(VisitSymbols, it, prefix)
    BY VisitSymbolsIs
<1>2. /\ it.kind \notin MemberKinds \cup {"name"} /\ it.items \in Seq(Items)
      /\ it.kind \notin {"function", "class", "interface", "alias"}
      /\ \A i \in DOMAIN it.items :
           it.items[i].items = <<>> /\ it.items[i].kind \in MemberKinds \cup {"name"}
           /\ it.items[i].kind = "name"
  <2>1. it.items \in Seq(Items) /\ IsWellPlaced(it)
        /\ \A i \in DOMAIN it.items : it.items[i] \in Items
      BY ItemParts
  <2>2. \A i \in DOMAIN it.items : it.items[i].kind = "name"
      BY <2>1 DEF IsWellPlaced
  <2>3. \A i \in DOMAIN it.items : it.items[i].items = <<>>
    <3>1. \A i \in DOMAIN it.items : IsWellPlaced(it.items[i])
        BY <2>1, ItemParts
    <3>. QED BY <2>2, <3>1 DEF IsWellPlaced
  <2>. QED BY <2>1, <2>2, <2>3 DEF MemberKinds, ListKinds
<1>3. all = inside
  <2>1. all = {<< Append(prefix, it.name), <<>>, "public" >> : c \in {x \in {<< it >>} : IsVisited(x)}}
              \cup inside
      BY <1>2, ShallowDescribed
  <2>2. ~IsVisited(<< it >>)
      BY <1>2, AloneIs
  <2> HIDE DEF all, inside
  <2>. QED BY <2>1, <2>2
<1>4. under \in Names
    BY NoNames
<1>5. ASSUME NEW i \in DOMAIN it.items
      PROVE  /\ IsVisited(X(i)) <=> it.items[i].name # "" /\ seen
             /\ DescribedUnder(prefix, X(i)) = << Append(under, it.items[i].name), <<>>, "public" >>
  <2>1. PICK kinds : kinds = {"name"} /\ it.items[i].kind \in kinds
      BY <1>2
  <2>2. /\ IsVisited(X(i)) <=> /\ it.items[i].name # "" /\ ~Has(it, "declare")
                               /\ it.kind = "variables" => Has(it, "export")
        /\ DescribedUnder(prefix, X(i)) =
             << IF it.kind = "commonjs" THEN Append(<<>>, it.items[i].name)
                ELSE Append(prefix, it.items[i].name), <<>>, "public" >>
      BY <2>1, InsideWalked
  <2>. QED BY <2>2
<1> HIDE DEF X
<1>6. CASE seen
  <2>1. PICK kind \in SymbolKinds : r = Each(it.items, under, kind)
    <3>1. "variable" \in SymbolKinds /\ "function" \in SymbolKinds
        BY DEF SymbolKinds, ItemKinds, PlainKinds
    <3>2. CASE it.kind = "variables"
      <4>1. r = Each(it.items, under, "variable")
          BY <1>1, <1>6, <3>2 DEF SymbolsBy, HasBlock, PlainKinds
      <4>. QED BY <3>1, <4>1
    <3>3. CASE it.kind = "exportlist"
      <4>1. r = Each(it.items, under, "function")
          BY <1>1, <1>6, <3>3 DEF SymbolsBy, HasBlock, PlainKinds
      <4>. QED BY <3>1, <4>1
    <3>4. CASE it.kind = "commonjs"
      <4>1. r = Each(it.items, under, "function")
          BY <1>1, <1>6, <3>4 DEF SymbolsBy, HasBlock, PlainKinds
      <4>. QED BY <3>1, <4>1
    <3>. QED BY <3>2, <3>3, <3>4 DEF ListKinds
  <2>2. r \in Seq(SymbolRecords) /\ Triples(r) = each
    <3>1. PICK p : p = under
        OBVIOUS
    <3>2. p \in Names
        BY <1>4, <3>1
    <3>3. r = Each(it.items, p, kind)
        BY <2>1, <3>1
    <3>4. each = {<< Append(p, it.items[i].name), <<>>, "public" >> :
                    i \in {j \in DOMAIN it.items : it.items[j].name # ""}}
        BY <3>1
    <3> HIDE DEF r, each, under
    <3>5. r \in Seq(SymbolRecords)
        BY <1>2, <3>2, <3>3, EachIs
    <3>6. Triples(Each(it.items, p, kind)) =
            {<< Append(p, it.items[i].name), <<>>, "public" >> :
               i \in {j \in DOMAIN it.items : it.items[j].name # ""}}
        BY <1>2, <3>2, EachIs
    <3>. QED BY <3>3, <3>4, <3>5, <3>6
  <2>3. inside = each
      BY <1>5, <1>6
  <2>. QED BY <1>3, <2>2, <2>3
<1>7. CASE ~seen
  <2>1. r = <<>>
      BY <1>1, <1>7 DEF SymbolsBy, HasBlock, PlainKinds, ListKinds
  <2>2. all = {}
      BY <1>3, <1>5, <1>7
  <2>. QED BY <2>1, <2>2, NoSymbols
<1>. QED BY <1>6, <1>7

(* A namespace hands on what is walked in it, if it is walked into.        *)
LEMMA NamespaceSymbols ==
    ASSUME NEW it \in Items, it.kind = "namespace", NEW prefix \in Names,
           \A i \in DOMAIN it.items : SymbolsFound(it.items[i])
    PROVE  /\ VisitSymbols[it][prefix] \in Seq(SymbolRecords)
           /\ Triples(VisitSymbols[it][prefix]) =
                {DescribedUnder(prefix, c) : c \in {x \in Chains[it] : IsVisited(x)}}
<1> DEFINE r == VisitSymbols[it][prefix]
           here == Append(prefix, it.name)
           all == {DescribedUnder(prefix, c) : c \in {x \in Chains[it] : IsVisited(x)}}
           Within(i) == {DescribedUnder(here, c) : c \in {x \in Chains[it.items[i]] : IsVisited(x)}}
<1>1. r = SymbolsBy(VisitSymbols, it, prefix)
    BY VisitSymbolsIs
<1>2. /\ it.kind \notin MemberKinds \cup {"name"} /\ it.name \in STRING
      /\ it.items \in Seq(Items)
      /\ \A i \in DOMAIN it.items :
           it.items[i] \in Items /\ it.items[i].kind \notin MemberKinds \cup {"name"}
  <2>1. it.items \in Seq(Items) /\ IsWellPlaced(it) /\ it.name \in STRING
        /\ \A i \in DOMAIN it.items : it.items[i] \in Items
      BY ItemParts
  <2>2. \A i \in DOMAIN it.items : it.items[i].kind \notin MemberKinds \cup {"name"}
      BY <2>1 DEF IsWellPlaced
  <2>. QED BY <2>1, <2>2 DEF MemberKinds
<1>3. here \in Names
    BY <1>2, NameAppended, NoNames
<1>4. ~IsVisited(<< it >>)
    BY <1>2, AloneIs
<1>5. ASSUME NEW i \in DOMAIN it.items, NEW c \in Chains[it.items[i]], NEW x, x = << it >> \o c
      PROVE  /\ IsVisited(x) <=> IsEntered(it) /\ IsVisited(c)
             /\ DescribedUnder(prefix, x) = DescribedUnder(here, c)
             /\ x \in Chains[it]
  <2>1. it.items[i] \in Items
      BY <1>2
  <2>2. c \in Seq(Items) /\ Len(c) >= 1 /\ c[1] = it.items[i]
      BY <2>1, ChainsAreChains DEF IsChainOf
  <2>3. Last(c).kind \in MemberKinds \cup {"name"} => Len(c) >= 2
    <3>1. CASE Len(c) = 1
      <4>1. Last(c) = it.items[i]
          BY <2>2, <3>1 DEF Last
      <4>. QED BY <1>2, <4>1
    <3>2. CASE Len(c) # 1
      <4>1. PICK k \in Nat : k = Len(c)
          BY <2>2
      <4>2. k >= 2
          BY <2>2, <3>2, <4>1
      <4>. QED BY <4>1, <4>2
    <3>. QED BY <3>1, <3>2
  <2>4. x \in Chains[it]
      BY <1>5, ChainCases
  <2>5. IsVisited(x) <=> IsEntered(it) /\ IsVisited(c)
      BY <1>5, <2>2, <2>3, WalkedOuter
  <2>6. DescribedUnder(prefix, x) = DescribedUnder(here, c)
      BY <1>5, <2>2, <2>3, DescribedOuter
  <2>. QED BY <2>4, <2>5, <2>6
<1>6. CASE IsEntered(it)
  <2>1. r = Found(VisitSymbols, it.items, here)
      BY <1>1, <1>6 DEF IsEntered, SymbolsBy, HasBlock, PlainKinds
  <2>2. ASSUME NEW i \in DOMAIN it.items
        PROVE  /\ VisitSymbols[it.items[i]][here] \in Seq(SymbolRecords)
               /\ Triples(VisitSymbols[it.items[i]][here]) = Within(i)
      BY <1>2, <1>3 DEF SymbolsFound
  <2>3. /\ r \in Seq(SymbolRecords)
        /\ Range(r) = UNION {Range(VisitSymbols[it.items[i]][here]) : i \in DOMAIN it.items}
    <3> HIDE DEF r, here
    <3>1. \A i \in DOMAIN it.items : VisitSymbols[it.items[i]][here] \in Seq(SymbolRecords)
        BY <2>2
    <3>2. r \in Seq(SymbolRecords) /\ IsFound(r, VisitSymbols, it.items, here)
        BY <1>2, <2>1, <3>1, FoundParts
    <3>. QED BY <3>2 DEF IsFound
  <2>4. Triples(r) = UNION {Triples(VisitSymbols[it.items[i]][here]) : i \in DOMAIN it.items}
    <3> HIDE DEF r, here
    <3>. QED BY <2>3 DEF Triples
  <2>5. Triples(r) = UNION {Within(i) : i \in DOMAIN it.items}
    <3> HIDE DEF r, here, Within
    <3>. QED BY <2>2, <2>4
  <2>6. ASSUME NEW d \in all PROVE d \in UNION {Within(i) : i \in DOMAIN it.items}
    <3>1. PICK x \in Chains[it] : IsVisited(x) /\ d = DescribedUnder(prefix, x)
        BY <2>6
    <3>2. PICK i, c : i \in DOMAIN it.items /\ c \in Chains[it.items[i]] /\ x = << it >> \o c
        BY <1>4, <3>1, ChainCases
    <3>3. IsVisited(c) /\ d = DescribedUnder(here, c)
        BY <1>5, <3>1, <3>2
    <3>. QED BY <3>2, <3>3
  <2>7. ASSUME NEW i \in DOMAIN it.items, NEW d \in Within(i) PROVE d \in all
    <3>1. PICK c \in Chains[it.items[i]] : IsVisited(c) /\ d = DescribedUnder(here, c)
        BY <2>7
    <3>2. PICK x : x = << it >> \o c
        OBVIOUS
    <3>3. IsVisited(x) /\ d = DescribedUnder(prefix, x) /\ x \in Chains[it]
        BY <1>5, <1>6, <3>1, <3>2
    <3>. QED BY <3>3
  <2> HIDE DEF r, all, Within, here
  <2>8. r \in Seq(SymbolRecords) /\ Triples(r) = all
      BY <2>3, <2>5, <2>6, <2>7
  <2>. QED BY <2>8 DEF r, all
<1>7. CASE ~IsEntered(it)
  <2>1. r = <<>>
      BY <1>1, <1>7 DEF IsEntered, SymbolsBy, HasBlock, PlainKinds
  <2>2. all = {}
    <3> SUFFICES ASSUME NEW x \in Chains[it], IsVisited(x) PROVE FALSE
        OBVIOUS
    <3>1. PICK i, c : i \in DOMAIN it.items /\ c \in Chains[it.items[i]] /\ x = << it >> \o c
        BY <1>4, ChainCases
    <3>. QED BY <1>5, <1>7, <3>1
  <2>. QED BY <2>1, <2>2, NoSymbols
<1>. QED BY <1>6, <1>7

LEMMA SymbolsAreFound == \A it \in Items : SymbolsFound(it)
<1> DEFINE T == {it \in Items : SymbolsFound(it)}
<1>1. ASSUME NEW it \in Items, it.items \in Seq(Items \cap T) PROVE it \in T
  <2>1. \A i \in DOMAIN it.items : SymbolsFound(it.items[i])
      BY <1>1
  <2>2. \/ it.kind \in PlainKinds \/ it.kind = "class" \/ it.kind \in ListKinds
        \/ it.kind = "namespace" \/ it.kind \in MemberKinds \cup {"name"}
      BY ItemParts DEF ItemKinds
  <2>3. CASE it.kind \in PlainKinds
      BY <2>3, PlainSymbols DEF SymbolsFound
  <2>4. CASE it.kind = "class"
      BY <2>4, ClassSymbols DEF SymbolsFound
  <2>5. CASE it.kind \in ListKinds
      BY <2>5, ListSymbols DEF SymbolsFound
  <2>6. CASE it.kind = "namespace"
      BY <2>1, <2>6, NamespaceSymbols DEF SymbolsFound
  <2>7. CASE it.kind \in MemberKinds \cup {"name"}
      BY <2>7 DEF SymbolsFound
  <2>. QED BY <2>2, <2>3, <2>4, <2>5, <2>6, <2>7
<1>. QED
  <2> HIDE DEF T
  <2>1. Items \subseteq T
      BY <1>1, ItemInduction
  <2>. QED BY <2>1 DEF T

(* Under no names a chain is described as it is.                           *)
LEMMA DescribedAlone ==
    ASSUME NEW it \in Items, it.kind \notin MemberKinds \cup {"name"}, NEW c \in Chains[it]
    PROVE  DescribedUnder(<<>>, c) = Described(c)
<1>1. c \in Seq(Items) /\ Len(c) >= 1 /\ c[1] = it
    BY ChainsAreChains DEF IsChainOf
<1>2. Last(c).kind = "name" => Len(c) >= 2
  <2>1. CASE Len(c) = 1
    <3>1. Last(c) = it
        BY <1>1, <2>1 DEF Last
    <3>. QED BY <3>1
  <2>2. CASE Len(c) # 1
    <3>1. PICK k \in Nat : k = Len(c)
        BY <1>1
    <3>2. k >= 2
        BY <1>1, <2>2, <3>1
    <3>. QED BY <3>1, <3>2
  <2>. QED BY <2>1, <2>2
<1>3. QualifiedNameOf(c) \in Names /\ NamesIn(Front(c)) \in Names
    BY <1>1, <1>2, NamesOfChain
<1>4. <<>> \o QualifiedNameOf(c) = QualifiedNameOf(c) /\ <<>> \o NamesIn(Front(c)) = NamesIn(Front(c))
    BY <1>3, NoNames
<1>. QED BY <1>4 DEF DescribedUnder, Described, MemberKinds, MemberVisibility

(* extractSymbols (index.mjs:1036), with extractFromStatement and the      *)
(* walks into classes and export lists under it, finds in any list of      *)
(* statements the symbols that are visible outside and not in a namespace  *)
(* A.B { }, which the walk does not go into (995) although it is to        *)
(* recurse into exported namespaces (730): such a declaration is found,    *)
(* under its qualified name and with its class and visibility, if and only *)
(* if all that must be exported around it is, and nothing else is found.   *)
THEOREM SymbolsAreExported ==
    ASSUME NEW items \in Statements
    PROVE  /\ Symbols(items) \in Seq(SymbolRecords)
           /\ Triples(Symbols(items)) =
                {Described(c) : c \in {x \in Exported(items) : ~InDotted(x)}}
<1>1. /\ items \in Seq(Items)
      /\ \A i \in DOMAIN items : items[i] \in Items /\ items[i].kind \notin MemberKinds \cup {"name"}
    BY DEF Statements
<1>2. \A i \in DOMAIN items :
        /\ VisitSymbols[items[i]][<<>>] \in Seq(SymbolRecords)
        /\ Triples(VisitSymbols[items[i]][<<>>]) =
             {DescribedUnder(<<>>, c) : c \in {x \in Chains[items[i]] : IsVisited(x)}}
    BY <1>1, SymbolsAreFound, NoNames DEF SymbolsFound
<1>3. /\ Symbols(items) \in Seq(SymbolRecords)
      /\ Range(Symbols(items)) = UNION {Range(VisitSymbols[items[i]][<<>>]) : i \in DOMAIN items}
  <2>1. Symbols(items) \in Seq(SymbolRecords) /\ IsFound(Symbols(items), VisitSymbols, items, <<>>)
      BY <1>1, <1>2, FoundParts DEF Symbols
  <2>. QED BY <2>1 DEF IsFound
<1>4. Triples(Symbols(items)) = UNION {Triples(VisitSymbols[items[i]][<<>>]) : i \in DOMAIN items}
    BY <1>3 DEF Triples
<1>5. \A i \in DOMAIN items :
        Triples(VisitSymbols[items[i]][<<>>]) =
          {Described(c) : c \in {x \in Chains[items[i]] : IsVisited(x)}}
  <2> SUFFICES ASSUME NEW i \in DOMAIN items
               PROVE  Triples(VisitSymbols[items[i]][<<>>]) =
                        {Described(c) : c \in {x \in Chains[items[i]] : IsVisited(x)}}
      OBVIOUS
  <2>1. \A c \in Chains[items[i]] : DescribedUnder(<<>>, c) = Described(c)
      BY <1>1, DescribedAlone
  <2>. QED BY <1>2, <2>1
<1>6. \A i \in DOMAIN items : \A c \in Chains[items[i]] :
        IsVisited(c) <=> IsVisible(c) /\ ~InDotted(c)
    BY <1>1, WalkedIs
<1>7. {Described(c) : c \in {x \in Exported(items) : ~InDotted(x)}} =
        UNION {{Described(c) : c \in {x \in Chains[items[i]] : IsVisited(x)}} : i \in DOMAIN items}
    BY <1>6 DEF Exported, ChainsOf
<1>. QED BY <1>3, <1>4, <1>5, <1>7

-----------------------------------------------------------------------------
(* Functions.                                                              *)

BodyEntries == [qname : Names, item : Items]

LEMMA BodyIs ==
    ASSUME NEW m \in Items, NEW name \in Names
    PROVE  (IF Has(m, "body") THEN << Entry(name, m) >> ELSE <<>>) \in Seq(BodyEntries)
<1>1. Entry(name, m) \in BodyEntries
    BY DEF Entry, BodyEntries
<1>2. << Entry(name, m) >> \in Seq(BodyEntries)
    BY <1>1, Single
<1>. QED BY <1>2, EmptySeq

BodiesFound(it) == \A ns \in Names : VisitBodies[it][ns] \in Seq(BodyEntries)

LEMMA BodiesAreFound == \A it \in Items : BodiesFound(it)
<1> DEFINE T == {it \in Items : BodiesFound(it)}
<1>1. ASSUME NEW it \in Items, it.items \in Seq(Items \cap T) PROVE it \in T
  <2> SUFFICES ASSUME NEW ns \in Names PROVE VisitBodies[it][ns] \in Seq(BodyEntries)
      BY DEF BodiesFound
  <2> DEFINE r == VisitBodies[it][ns]
             here == Append(ns, it.name)
  <2>1. r = BodiesBy(VisitBodies, it, ns)
      BY VisitBodiesIs
  <2>2. it.items \in Seq(Items) /\ it.name \in STRING /\ \A i \in DOMAIN it.items : it.items[i] \in Items
      BY ItemParts
  <2>3. here \in Names
      BY <2>2, NameAppended, NoNames
  <2>4. CASE HasBlock(it)
    <3>1. r = Found(VisitBodies, it.items, here)
        BY <2>1, <2>4 DEF BodiesBy, HasBlock
    <3>2. \A i \in DOMAIN it.items : VisitBodies[it.items[i]][here] \in Seq(BodyEntries)
        BY <1>1, <2>3 DEF BodiesFound
    <3>3. Found(VisitBodies, it.items, here) \in Seq(BodyEntries)
      <4> HIDE DEF here
      <4>. QED BY <2>2, <3>2, FoundParts
    <3>. QED BY <3>1, <3>3
  <2>5. CASE it.kind = "function" /\ it.name # ""
    <3>1. r = IF Has(it, "body") THEN << Entry(here, it) >> ELSE <<>>
        BY <2>1, <2>5 DEF BodiesBy, HasBlock
    <3> HIDE DEF r, here
    <3>2. r \in Seq(BodyEntries)
        BY <2>3, <3>1, BodyIs
    <3>. QED BY <3>2 DEF r
  <2>6. CASE it.kind = "class" /\ it.name # ""
    <3> DEFINE seqs == [i \in DOMAIN it.items |->
                         LET m == it.items[i]
                         IN  IF m.kind = "method"
                             THEN IF Has(m, "body") THEN << Entry(Append(here, m.name), m) >> ELSE <<>>
                             ELSE <<>>]
    <3>1. r = FlattenSeq(seqs)
        BY <2>1, <2>6 DEF BodiesBy, HasBlock
    <3>2. PICK k \in Nat : DOMAIN it.items = 1 .. k
        BY <2>2
    <3>3. ASSUME NEW i \in DOMAIN it.items PROVE seqs[i] \in Seq(BodyEntries)
      <4>1. PICK m : m = it.items[i]
          OBVIOUS
      <4>2. m \in Items /\ m.name \in STRING
          BY <2>2, <4>1, ItemParts
      <4>3. PICK name : name = Append(here, m.name)
          OBVIOUS
      <4>4. name \in Names
          BY <2>3, <4>2, <4>3, NameAppended, NoNames
      <4>5. seqs[i] = IF m.kind = "method"
                      THEN IF Has(m, "body") THEN << Entry(name, m) >> ELSE <<>>
                      ELSE <<>>
          BY <4>1, <4>3
      <4>6. (IF Has(m, "body") THEN << Entry(name, m) >> ELSE <<>>) \in Seq(BodyEntries)
          BY <4>2, <4>4, BodyIs
      <4> HIDE DEF seqs
      <4>. QED BY <4>5, <4>6, EmptySeq
    <3>4. seqs = [i \in 1 .. k |-> seqs[i]]
        BY <3>2
    <3> HIDE DEF seqs
    <3>5. seqs \in Seq(Seq(BodyEntries))
        BY <3>2, <3>3, <3>4, IsSequence
    <3>. QED BY <3>1, <3>5, FlattenSeqType
  <2>7. CASE /\ ~HasBlock(it) /\ ~(it.kind = "function" /\ it.name # "")
             /\ ~(it.kind = "class" /\ it.name # "")
    <3>1. r = <<>>
        BY <2>1, <2>7 DEF BodiesBy
    <3>. QED BY <3>1, EmptySeq
  <2>. QED BY <2>4, <2>5, <2>6, <2>7
<1>. QED
  <2> HIDE DEF T
  <2>1. Items \subseteq T
      BY <1>1, ItemInduction
  <2>. QED BY <2>1 DEF T

LEMMA BodiesAre ==
    ASSUME NEW items \in Seq(Items)
    PROVE  Bodies(items) \in Seq(BodyEntries)
<1>1. \A i \in DOMAIN items : VisitBodies[items[i]][<<>>] \in Seq(BodyEntries)
    BY BodiesAreFound, NoNames DEF BodiesFound
<1>. QED BY <1>1, FoundParts DEF Bodies

(* A body put into the map is in it, and so are those of other names.      *)
LEMMA MapPutKeeps ==
    ASSUME NEW map \in Seq(BodyEntries), NEW e \in BodyEntries
    PROVE  /\ MapPut(map, e) \in Seq(BodyEntries)
           /\ e \in Range(MapPut(map, e))
           /\ \A x \in Range(map) : x.qname # e.qname => x \in Range(MapPut(map, e))
<1> DEFINE I == {i \in 1 .. Len(map) : map[i].qname = e.qname}
           s == IF I # {} THEN Min(I) ELSE 0
           put == MapPut(map, e)
<1>1. put = IF s = 0 THEN Append(map, e) ELSE [map EXCEPT ![s] = e]
    BY DEF MapPut, SelectInSeq
<1>2. Len(map) \in Nat /\ DOMAIN map = 1 .. Len(map)
    OBVIOUS
<1>3. I \in SUBSET Nat
    BY <1>2
<1>4. CASE I = {}
  <2>1. put = Append(map, e)
      BY <1>1, <1>4
  <2>2. /\ put \in Seq(BodyEntries) /\ Len(put) = Len(map) + 1
        /\ put[Len(map) + 1] = e /\ \A i \in 1 .. Len(map) : put[i] = map[i]
    <3> HIDE DEF put
    <3>. QED BY <2>1, AppendProperties
  <2> HIDE DEF put, I, s
  <2>3. Len(map) + 1 \in DOMAIN put /\ \A i \in 1 .. Len(map) : i \in DOMAIN put
      BY <1>2, <2>2
  <2>4. e \in Range(put) /\ \A x \in Range(map) : x \in Range(put)
      BY <1>2, <2>2, <2>3 DEF Range
  <2>. QED BY <2>2, <2>4 DEF put
<1>5. CASE I # {}
  <2>1. PICK i : i = Min(I)
      OBVIOUS
  <2>2. i \in I
    <3> HIDE DEF I
    <3>. QED BY <1>3, <1>5, <2>1, MinIsLeast
  <2>3. i \in 1 .. Len(map) /\ i # 0 /\ map[i].qname = e.qname
      BY <1>2, <2>2
  <2>4. put = [map EXCEPT ![i] = e]
      BY <1>1, <1>5, <2>1, <2>3
  <2> HIDE DEF put, I, s
  <2>5. /\ put \in Seq(BodyEntries) /\ DOMAIN put = DOMAIN map /\ put[i] = e
        /\ \A j \in DOMAIN map : j # i => put[j] = map[j]
      BY <1>2, <2>3, <2>4
  <2>6. e \in Range(put)
      BY <1>2, <2>3, <2>5 DEF Range
  <2>7. ASSUME NEW x \in Range(map), x.qname # e.qname PROVE x \in Range(put)
    <3>1. PICK j \in DOMAIN map : x = map[j]
        BY DEF Range
    <3>2. j # i
        BY <2>3, <2>7, <3>1
    <3>. QED BY <2>5, <3>1, <3>2 DEF Range
  <2>. QED BY <2>5, <2>6, <2>7 DEF put
<1>. QED BY <1>4, <1>5

IsCollected(f, bodies, N) ==
    /\ f = [n \in 0 .. N |-> f[n]]
    /\ \A n \in 0 .. N : f[n] = IF n = 0 THEN <<>> ELSE MapPut(f[n - 1], bodies[n])

LEMMA CollectedExists ==
    ASSUME NEW bodies, NEW N \in Nat
    PROVE  \E f : IsCollected(f, bodies, N)
<1> DEFINE T == {k \in Nat : \E f : IsCollected(f, bodies, k)}
<1>1. 0 \in T
  <2>1. IsCollected([n \in 0 .. 0 |-> <<>>], bodies, 0)
      BY DEF IsCollected
  <2>. QED BY <2>1
<1>2. ASSUME NEW k \in Nat, k \in T PROVE k + 1 \in T
  <2>1. PICK f : IsCollected(f, bodies, k)
      BY <1>2
  <2> DEFINE g == [n \in 0 .. k + 1 |-> IF n = k + 1 THEN MapPut(f[k], bodies[n]) ELSE f[n]]
  <2>2. ASSUME NEW n \in 0 .. k + 1
        PROVE  g[n] = IF n = 0 THEN <<>> ELSE MapPut(g[n - 1], bodies[n])
    <3>1. CASE n = k + 1
        BY <3>1
    <3>2. CASE n \in 0 .. k
      <4>1. f[n] = IF n = 0 THEN <<>> ELSE MapPut(f[n - 1], bodies[n])
          BY <2>1, <3>2 DEF IsCollected
      <4>2. g[n] = f[n] /\ (n # 0 => g[n - 1] = f[n - 1])
          BY <3>2
      <4>. QED BY <4>1, <4>2
    <3>. QED BY <3>1, <3>2
  <2>3. g = [n \in 0 .. k + 1 |-> g[n]]
      OBVIOUS
  <2>4. IsCollected(g, bodies, k + 1)
    <3> HIDE DEF g
    <3>. QED BY <2>2, <2>3 DEF IsCollected
  <2>. QED BY <2>4
<1>3. Nat \subseteq T
  <2> HIDE DEF T
  <2>. QED BY <1>1, <1>2, Reaches
<1>. QED BY <1>3

(* The last body of each name is kept.                                     *)
LEMMA LastIsKept ==
    ASSUME NEW bodies \in Seq(BodyEntries), NEW f, IsCollected(f, bodies, Len(bodies))
    PROVE  /\ f[Len(bodies)] \in Seq(BodyEntries)
           /\ \A j \in DOMAIN bodies :
                (\A k \in DOMAIN bodies : k > j => bodies[k].qname # bodies[j].qname)
                  => bodies[j] \in Range(f[Len(bodies)])
<1> DEFINE Kept(n) ==
             /\ f[n] \in Seq(BodyEntries)
             /\ \A j \in 1 .. n :
                  (\A k \in 1 .. n : k > j => bodies[k].qname # bodies[j].qname)
                    => bodies[j] \in Range(f[n])
           T == {n \in Nat : n <= Len(bodies) => Kept(n)}
<1>1. Len(bodies) \in Nat /\ DOMAIN bodies = 1 .. Len(bodies)
      /\ \A i \in 1 .. Len(bodies) : bodies[i] \in BodyEntries
    OBVIOUS
<1>2. 0 \in T
  <2>1. f[0] = <<>>
      BY <1>1 DEF IsCollected
  <2>2. f[0] \in Seq(BodyEntries)
      BY <2>1, EmptySeq
  <2>3. \A j \in 1 .. 0 : FALSE
      OBVIOUS
  <2>4. Kept(0)
      BY <2>2, <2>3
  <2>. QED BY <2>4
<1>3. ASSUME NEW n \in Nat, n \in T PROVE n + 1 \in T
  <2> SUFFICES ASSUME n + 1 <= Len(bodies) PROVE Kept(n + 1)
      OBVIOUS
  <2>1. n + 1 \in 1 .. Len(bodies) /\ n + 1 \in 0 .. Len(bodies) /\ n <= Len(bodies)
        /\ (n + 1) - 1 = n /\ n + 1 # 0
      BY <1>1
  <2>2. PICK e : e = bodies[n + 1]
      OBVIOUS
  <2>3. f[n + 1] = MapPut(f[n], e) /\ e \in BodyEntries
      BY <1>1, <2>1, <2>2 DEF IsCollected
  <2>4. Kept(n)
      BY <1>3, <2>1
  <2>5. /\ f[n + 1] \in Seq(BodyEntries) /\ e \in Range(f[n + 1])
        /\ \A x \in Range(f[n]) : x.qname # e.qname => x \in Range(f[n + 1])
    <3>1. PICK map : map = f[n]
        OBVIOUS
    <3>2. map \in Seq(BodyEntries)
        BY <2>4, <3>1
    <3>3. PICK put : put = MapPut(map, e)
        OBVIOUS
    <3>4. put \in Seq(BodyEntries) /\ e \in Range(put)
          /\ \A x \in Range(map) : x.qname # e.qname => x \in Range(put)
        BY <2>3, <3>2, <3>3, MapPutKeeps
    <3>. QED BY <2>3, <3>1, <3>3, <3>4
  <2>6. ASSUME NEW j \in 1 .. n + 1,
               \A k \in 1 .. n + 1 : k > j => bodies[k].qname # bodies[j].qname
        PROVE  bodies[j] \in Range(f[n + 1])
    <3>1. CASE j = n + 1
        BY <2>2, <2>5, <3>1
    <3>2. CASE j # n + 1
      <4>1. j \in 1 .. n /\ n + 1 > j /\ n + 1 \in 1 .. n + 1
            /\ \A k \in 1 .. n : k \in 1 .. n + 1
          BY <3>2
      <4>2. bodies[j] \in Range(f[n])
          BY <2>4, <2>6, <4>1
      <4>3. bodies[j].qname # e.qname
          BY <2>2, <2>6, <4>1
      <4>. QED BY <2>5, <4>2, <4>3
    <3>. QED BY <3>1, <3>2
  <2>. QED BY <2>5, <2>6
<1>4. Nat \subseteq T
  <2> HIDE DEF T
  <2>. QED BY <1>2, <1>3, Reaches
<1>5. Kept(Len(bodies))
    BY <1>1, <1>4
<1>. QED BY <1>1, <1>5

LEMMA CollectedFunctions ==
    ASSUME NEW items \in Seq(Items)
    PROVE  /\ CollectFunctions(items) \in Seq(BodyEntries)
           /\ \A j \in DOMAIN Bodies(items) :
                (\A k \in DOMAIN Bodies(items) :
                   k > j => Bodies(items)[k].qname # Bodies(items)[j].qname)
                  => Bodies(items)[j] \in Range(CollectFunctions(items))
<1>1. PICK bodies : bodies = Bodies(items)
    OBVIOUS
<1>2. bodies \in Seq(BodyEntries) /\ Len(bodies) \in Nat
    BY <1>1, BodiesAre
<1> DEFINE N == Len(bodies)
           Q(f) == f = [n \in 0 .. N |-> IF n = 0 THEN <<>> ELSE MapPut(f[n - 1], bodies[n])]
           collected == CHOOSE f : Q(f)
<1>3. CollectFunctions(items) = collected[N]
    BY <1>1 DEF CollectFunctions
<1>4. PICK f : IsCollected(f, bodies, N)
    BY <1>2, CollectedExists
<1>5. Q(f)
    BY <1>4 DEF IsCollected
<1>6. Q(collected)
  <2> HIDE DEF Q
  <2>. QED BY <1>5
<1>7. IsCollected(collected, bodies, N)
  <2> HIDE DEF collected
  <2>. QED BY <1>6 DEF IsCollected
<1> HIDE DEF collected
<1>8. /\ collected[N] \in Seq(BodyEntries)
      /\ \A j \in DOMAIN bodies :
           (\A k \in DOMAIN bodies : k > j => bodies[k].qname # bodies[j].qname)
             => bodies[j] \in Range(collected[N])
    BY <1>2, <1>7, LastIsKept
<1>. QED BY <1>1, <1>3, <1>8

=============================================================================
