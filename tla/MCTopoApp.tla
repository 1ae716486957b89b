------------------------------ MODULE MCTopoApp ------------------------------
(***************************************************************************)
(* A small instance of TopoApp: two functions, one of them anonymous, four *)
(* names, two registrations, flows of up to two stages.                    *)
(***************************************************************************)
EXTENDS TopoApp

MCNames == {"a", "b", "void", "$x"}
MCOddNames == {"$x"}
MCFns == {"f", "g"}
MCFnName == [f |-> "a", g |-> ""]
MCOverrides == {"", "void", "$x"}

Pair == RecordType(<< <<"id", ScalarType("int")>>, <<"ok", ScalarType("bool")>> >>)
Nested == RecordType(<< <<"p", Pair>>, <<"n", ScalarType("str")>> >>)
Twice == RecordType(<< <<"id", ScalarType("int")>>, <<"id", ScalarType("str")>> >>)

MCSignatures ==
    { << NoType, Pair >>, << Pair, Nested >>,
      << Twice, ScalarType("int") >>, << ScalarType("int"), NoType >> }

MCNamespaces == {"a", "$x"}
MCFlowNames == {"a", "$x"}

F == <<"f">>
G == <<"g">>
FG == <<"f", "g">>
MCStageLists ==
    { <<>>, << F >>, << G, F >>, << F, FG >>, << FG, G >>, << FG, FG >>, << F, <<>> >> }

Source(base, defines, pure) ==
    [base |-> base, content |-> [defines |-> defines, pure |-> pure]]
MCSources ==
    { << Source("x.ts", {"a"}, TRUE), Source("y.ts", {"void"}, TRUE) >>,
      << Source("x.ts", {"a", "void"}, FALSE), Source("x.ts", {"a"}, TRUE) >>,
      << Source("x.ts", {"a", "$x", "void"}, TRUE), Source("y.ts", {}, FALSE) >> }

Exec(root, layout, config, sfx) ==
    { << File(root, layout, config, sfx, t), TRUE >> : t \in {"topo", "topo-check"} }
Plain(root, layout, config, sfx) ==
    { << File(root, layout, config, sfx, t), FALSE >> : t \in {"topo", "topo-check"} }

World(windows, binDir, path) ==
    [windows |-> windows, binDir |-> binDir, path |-> path]

Pinned == Exec("pinned", "parent", "Release", "") \cup Exec("bin", "flat", "", "")
Installed ==
    Exec("bin", "flat", "", ".exe") \cup Plain("bin", "flat", "", "")
    \cup Plain("opt", "flat", "", ".cmd") \cup Exec("build", "nested", "", ".exe")
Trees ==
    Exec("build", "nested", "", "") \cup Exec("build-asan", "nested", "", ".exe")
    \cup Exec("build-no-llvm", "nested", "", "")
MCDisks == {Installed, Trees}
MCHosts ==
    { << World(FALSE, "pinned", << "bin" >>), Pinned >>,
      << World(FALSE, "", << "", "bin" >>), Installed >>,
      << World(TRUE, "", << "opt", "bin" >>), Trees >> }

MCConfigs == << "Release" >>
MCPathExt == << ".exe", ".cmd" >>

=============================================================================
