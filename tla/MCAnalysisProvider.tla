-------------------------- MODULE MCAnalysisProvider --------------------------
(***************************************************************************)
(* A small instance of AnalysisProvider: two source files, functions made  *)
(* of all small expressions in five contexts, declarations nested two      *)
(* deep, four calls.                                                       *)
(***************************************************************************)
EXTENDS Faithful

MCFiles == {"a.ts", "b.ts"}
MCSourceFiles == << "a.ts", "b.ts" >>

(* Expressions.                                                            *)
X == Leaf("Identifier", "x")
Y == Leaf("Identifier", "y")
Num(text) == Leaf("Numeric", text)
Bin(op, l, r) == Node("Binary", op, << l, r >>)
CallOf(f, args) == Node("Call", "", << Leaf("Identifier", f) >> \o args)
Incremented(n) == Node("Postfix", "++", << n >>)
Member == Node("Property", "p", << X >>)
Cell(i) == Node("Element", "", << Leaf("Identifier", "a"), i >>)
Awaited == Leaf("Await", "")

SmallExprs == { X, Num("2"), CallOf("g", << X >>), Incremented(Y) }
Operations ==
    {Bin(op, l, r) : op \in {"+", "-", "<", "===", "&&", "||", ">>", ">>>", "??"},
                     l \in { X, Incremented(Y) }, r \in { Y, CallOf("g", <<>>) }}
    \cup {Node("Prefix", op, << X >>) : op \in {"-", "!", "++", "--", "+"}}
    \cup { Node("Postfix", "--", << X >>), Node("Paren", "", << Bin("-", Y, X) >>),
           Node("TypeOnly", "", << Member >>), Node("OptionalProperty", "p", << X >>),
           Node("Conditional", "", << X, Incremented(Y), CallOf("g", <<>>) >>),
           Node("Call", "", << Node("Paren", "", << Awaited >>) >>),
           CallOf("g", << Incremented(X), Bin("+", X, Num("0x1E")) >>),
           CallOf("g", << Awaited >>), Awaited, Leaf("Arrow", "") }

Targets == { X, Member, Cell(X), Cell(Incremented(X)) }
Assignments ==
    {Bin(op, t, r) : op \in {"=", "+=", ">>="}, t \in Targets,
                     r \in { Y, CallOf("g", <<>>) }}
    \cup {Bin("=", t, Bin(op, t, r)) : op \in {"-", "<", ">>>", "&&"}, t \in Targets,
                     r \in { Num("1"), X }}
    \cup { Bin("=", X, Bin("-", Y, X)), Bin("=", X, Bin("-", Num("1"), X)) }

AllExprs == SmallExprs \cup Operations \cup Assignments

(* Statements.                                                             *)
Ex(e) == Node("Expression", "", << e >>)
Ret(e) == Node("Return", "", << e >>)
Block(stmts) == Node("Block", "", stmts)
Var(name, init) == Node("Declaration", name, << Absent, init >>)
Vars(decls) == Node("Variable", "", decls)
Break == Leaf("Break", "")
Continue == Leaf("Continue", "")
If(c, t, e) == Node("If", "", << c, t, e >>)

I == Leaf("Identifier", "i")
Contexts == {"return", "statement", "condition", "increment", "loop"}
BodyOf(context, e) ==
    CASE context = "return" -> << Ret(e) >>
      [] context = "statement" -> << Ex(e), Vars(<< Var("i", X) >>), Ret(I) >>
      [] context = "condition" ->
           << If(e, Block(<< Ex(Incremented(Y)) >>),
                 If(Y, Ex(CallOf("h", << Y >>)), Ret(X))), Ret(Y) >>
      [] context = "increment" ->
           << Node("For", "", << Vars(<< Var("i", Num("0")) >>),
                Bin("<", I, Num("2")), e,
                Block(<< If(Bin("===", I, Num("1")), Continue, Absent),
                         Ex(Incremented(I)), Ex(CallOf("h", << I >>)) >>) >>),
              Ret(I) >>
      [] context = "loop" ->
           << Node("While", "", << e, Block(<< Ex(CallOf("h", << X >>)),
                If(Y, Break, Ex(Incremented(Y))) >>) >>) >>

Param(name, default) == Node("Parameter", name, << Leaf("Number", ""), default >>)
TwoParams == << Param("x", Absent), Param("y", Absent) >>
NoDecl == [params |-> <<>>, ret |-> Absent, typeParams |-> <<>>, flags |-> {},
           body |-> <<>>, fields |-> <<>>, bases |-> <<>>]
Fn(params, ret, flags, body) ==
    [NoDecl EXCEPT !.params = params, !.ret = ret, !.flags = flags, !.body = body]
Function(name, decl) == Item("function", name, {"export", "body"}, <<>>, decl)

Simply(kind, name, flags, items) == Item(kind, name, flags, items, NoDecl)

Small(context, e) ==
    << Function("f", Fn(TwoParams, Leaf("Number", ""), {}, BodyOf(context, e))) >>

(* Whatever is not an expression: types, parameters, statements.           *)
Odd ==
    { Fn(<< Param("x", Num("1")), Param("y", CallOf("g", <<>>)) >>, Absent, {},
          << Ret(Bin("+", X, Y)) >>),
       Fn(<< Leaf("Pattern", "") >>, Absent, {}, <<>>),
       Fn(TwoParams, Leaf("Union", ""), {}, << Ret(X) >>),
       Fn(TwoParams, Node("Array", "", << Leaf("Tuple", "") >>), {}, << Ret(X) >>),
       Fn(TwoParams, Leaf("Reference", "T"), {"async"}, << Ret(X) >>),
       Fn(TwoParams, Node("Reference", "Box", << Leaf("Union", "") >>), {}, << Ret(X) >>),
       Fn(TwoParams, Node("Array", "", << Node("Reference", "Box", << Leaf("Number", "") >>) >>),
          {}, << Ret(Leaf("Arrow", "")) >>),
       Fn(TwoParams, Absent, {}, << Block(<< Ret(X) >>) >>),
       Fn(TwoParams, Absent, {}, << Vars(<< Var("i", X), Var("j", Y) >>) >>),
       Fn(TwoParams, Absent, {}, << Vars(<< Leaf("Pattern", "") >>), Ret(X) >>),
       Fn(TwoParams, Absent, {}, << If(X, Leaf("Throw", ""), Absent), Ret(Y) >>),
       Fn(TwoParams, Absent, {}, << Node("For", "", << Incremented(Y), Absent, Absent,
          Block(<< If(Bin("<", Y, Num("2")), Ex(Incremented(Y)), Break) >>) >>), Ret(Y) >>),
       Fn(TwoParams, Absent, {}, << Node("While", "", << X, Leaf("Switch", "") >>) >>),
       [Fn(TwoParams, Absent, {}, << Ret(Absent) >>) EXCEPT !.typeParams =
          << Node("TypeParameter", "T", << Node("Intersection", "",
               << Leaf("Reference", "A"), Leaf("Reference", "B") >>), Absent >>) >>],
       [Fn(TwoParams, Absent, {}, << Ret(Absent) >>) EXCEPT !.typeParams =
          << Node("TypeParameter", "T", << Absent, Leaf("Union", "") >>) >>] }

(* Declarations.                                                           *)
Returns(e) == Fn(TwoParams, Absent, {}, << Ret(e) >>)
Method(name, flags, e) == Item("method", name, flags, <<>>, Returns(e))
Class(name, flags, items) ==
    Item("class", name, flags, items,
      [NoDecl EXCEPT !.fields = << Node("field", "n", << Leaf("Union", "") >>) >>,
                     !.bases = << Leaf("extends", "B"), Leaf("implements", "I") >>])
Interface(name, flags) ==
    Item("interface", name, flags, <<>>,
      [NoDecl EXCEPT
         !.typeParams = << Node("TypeParameter", "T", << Leaf("Number", ""), Absent >>) >>,
         !.bases = << Leaf("extends", "J"), Leaf("extends", "K") >>])
Name(name) == Simply("name", name, {}, <<>>)

Inside(flags) ==
    << Function("f", Returns(X)),
       Class("C", flags, << Method("m", {"body"}, X), Method("m", {"body", "private"}, Y),
                            Simply("constructor", "constructor", {"body"}, <<>>),
                            Method("s", {"static"}, X) >>),
       Interface("I", {"export"}), Simply("alias", "T", {"export", "declare"}, <<>>),
       Simply("variables", "", flags, << Name("v"), Name("") >>),
       Simply("exportlist", "", {}, << Name("e"), Name("f") >>),
       Simply("commonjs", "", {}, << Name("q"), Name("") >>) >>

Namespaces ==
    { Simply("namespace", "N", {"export"}, Inside({"export"})),
      Simply("namespace", "N", {}, Inside({"export"})),
      Simply("namespace", "N", {"export", "declare"}, Inside({"export"})),
      Simply("namespace", "N", {"export", "string"}, Inside({"export"})),
      Simply("namespace", "A", {"export", "dotted"},
             << Simply("namespace", "N", {"export"}, Inside({"export"})) >>),
      Simply("namespace", "A", {"export"},
             << Simply("namespace", "N", {}, Inside({"export"})),
                Simply("namespace", "M", {"export"}, Inside({})) >>) }

Unnamed == Item("function", "", {"export", "body"}, <<>>, Returns(X))
Anonymous == Class("", {"export"}, << Method("m", {"body"}, X) >>)
Twice == << Function("f", Returns(X)), Function("g", Returns(Y)), Function("f", Returns(Y)) >>

Holding(items) == [broken |-> FALSE, items |-> items]
Broken(items) == [broken |-> TRUE, items |-> items]
Both(a, b) == [f \in MCFiles |-> IF f = "a.ts" THEN a ELSE b]

DeclarationContents ==
    {Both(Holding(<< ns, Unnamed, Anonymous >> \o Twice), Holding(Inside({"export"}))) : ns \in Namespaces}
    \cup { Both(Broken(Twice), Holding(<<>>)) }

Lifts ==
    {Small(c, e) : c \in Contexts, e \in AllExprs}
    \cup {<< Function("f", decl) >> : decl \in Odd}

All == Request("transpile", MCSourceFiles, {})
MCJobs ==
    {<< Both(Holding(items), Holding(<<>>)), Request("transpile", << "a.ts" >>, {}) >>
       : items \in Lifts}
    \cup (DeclarationContents \X { NoRequest, All,
            Request("transpile", << "a.ts" >>, { << "f" >> }),
            Request("transpile", MCSourceFiles, { << "N", "C", "m" >>, << "g" >> }) })

MCContents == {job[1][f] : job \in MCJobs, f \in MCFiles}

(* Calls.                                                                  *)
Token(name, module) == [isCall |-> TRUE, name |-> name, module |-> module]
MCTokens ==
    [f \in MCFiles |->
       IF f = "a.ts"
       THEN << Token(<< "readFileSync" >>, << "fs" >>), [isCall |-> FALSE,
               name |-> << "x" >>, module |-> <<>>], Token(<< "Array", "push" >>, <<>>) >>
       ELSE << Token(<<>>, <<>>), Token(<< "m" >>, << "os" >>),
               Token(<< "eval" >>, <<>>) >>]
MCDeclared == { << "C", "m" >>, << "eval" >> }

MCCells ==
    { (At("x", -1) :> 1) @@ (At("y", -1) :> 0) @@ (At("x", -2) :> 2),
      (At("x", -1) :> -1) @@ (At("y", -1) :> 2) @@ (At("a", 1) :> 3),
      (At("x", -1) :> 0) @@ (At("x", -2) :> 5) @@ (At("a", 0) :> 1) }

=============================================================================
