------------------------------ MODULE Toolchain ------------------------------
(***************************************************************************)
(* Where the runtime finds the two binaries it calls, `topo` and           *)
(* `topo-check`: src/runtime/topo/_toolchain.mjs.                          *)
(*                                                                         *)
(* A path is a record: the directory it is searched under, the layout of   *)
(* the tool below that directory, the suffix and the tool.  The disk is    *)
(* the set of regular files with their execute bit.  A world is the part   *)
(* of the environment a process does not change while it runs: platform,   *)
(* TOPO_BIN_DIR ("" when it is unset or empty) and PATH.                   *)
(***************************************************************************)
EXTENDS Naturals, Sequences, SequencesExt

CONSTANTS
    Configs,    \* the multi-config subdirectories, in probe order
    PathExt     \* the suffixes PATHEXT names, in order

ASSUME ToolchainAssumption ==
    /\ Configs \in Seq(STRING)
    /\ PathExt \in Seq(STRING)

File(root, layout, config, sfx, tool) ==
    [root |-> root, layout |-> layout, config |-> config, sfx |-> sfx,
     tool |-> tool]

NoFile == File("", "", "", "", "")

(* Windows decides by suffix, POSIX by the execute bit; both need a file.  *)
IsExecutable(world, disk, f) ==
    IF world.windows
    THEN /\ \E x \in BOOLEAN : <<f, x>> \in disk
         /\ Contains(PathExt, f.sfx)
    ELSE <<f, TRUE>> \in disk

SuffixesOf(world) == IF world.windows THEN <<"", ".exe">> ELSE <<"">>

(* The places below a base directory, in probe order, for one suffix.      *)
Placed(base, tool, sfx) ==
    << File(base, "nested", "", sfx, tool), File(base, "flat", "", sfx, tool) >>
    \o FlattenSeq([i \in 1 .. Len(Configs) |->
         << File(base, "nested", Configs[i], sfx, tool),
            File(base, "flat", Configs[i], sfx, tool),
            File(base, "parent", Configs[i], sfx, tool) >>])

Candidates(world, base, tool) ==
    FlattenSeq([i \in 1 .. Len(SuffixesOf(world)) |->
                  Placed(base, tool, SuffixesOf(world)[i])])

(* The bare name in every directory of PATH; empty entries are skipped.    *)
OnPath(world, tool) ==
    LET tried == <<"">> \o IF world.windows THEN PathExt ELSE <<>>
        in(dir) == [j \in 1 .. Len(tried) |-> File(dir, "flat", "", tried[j], tool)]
    IN  FlattenSeq([i \in 1 .. Len(world.path) |->
          IF world.path[i] = "" THEN <<>> ELSE in(world.path[i])])

(* Mutant: TOPO_BIN_DIR is only searched first.                            *)
SearchOrderLenient(world, tool) ==
    (IF world.binDir # "" THEN Candidates(world, world.binDir, tool) ELSE <<>>)
    \o OnPath(world, tool) \o Candidates(world, "build", tool)
    \o Candidates(world, "build-asan", tool)

(* TOPO_BIN_DIR is strict: when it is set nothing else is searched.        *)
SearchOrder(world, tool) ==
    IF world.binDir # ""
    THEN Candidates(world, world.binDir, tool)
    ELSE OnPath(world, tool) \o Candidates(world, "build", tool)
                             \o Candidates(world, "build-asan", tool)

(* The first executable hit; NoFile stands for the error that is thrown.   *)
Find(world, disk, tool) ==
    LET order == SearchOrder(world, tool)
        i == SelectInSeq(order, LAMBDA f : IsExecutable(world, disk, f))
    IN  IF i = 0 THEN NoFile ELSE order[i]

=============================================================================
