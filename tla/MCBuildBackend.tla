--------------------------- MODULE MCBuildBackend ---------------------------
(* Values of the constants for checking BuildBackend with TLC. *)
EXTENDS BuildBackend

MCProjects == {"shop", "blog"}
MCFiles == {"a.ts", "b.ts"}
MCDests == {"a.ts", "b.ts"}
MCNames == {"f", "g"}

\* f is private, ordinary and staged; g is public and external.
Declaration(host) ==
    [entries |-> {[name |-> "f", visibility |-> "private"],
                  [name |-> "g", visibility |-> "public"]},
     functions |-> {[name |-> "f", external |-> FALSE], [name |-> "g", external |-> TRUE]},
     blocks |-> {[name |-> "f", stages |-> {0, 1}], [name |-> "g", stages |-> {0}]},
     host |-> host]

InA == Declaration({[file |-> "a.ts", name |-> "f"], [file |-> "b.ts", name |-> "g"]})
InBoth == Declaration({[file |-> f, name |-> "f"] : f \in MCFiles})
Nothing == Declaration({[file |-> "b.ts", name |-> "g"]})

Req(p, d, noVerify, warnOnly, out) ==
    [project |-> p, decl |-> d, noVerify |-> noVerify, warnOnly |-> warnOnly, out |-> out]

Plain(p, d) == Req(p, d, TRUE, FALSE, TRUE)

ModesFor(some) == [x \in Range(Passes) |-> IF x \in DOMAIN some THEN some[x] ELSE {"off"}]
Same == [f \in MCFiles |-> f]

\* One build: what the checks may find.
Verifying ==
    [builds |-> 1, overlap |-> FALSE, findings |-> 2, kills |-> 0, slips |-> 0, dest |-> Same,
     modes |-> ModesFor(<<>>),
     requests |-> {Req("shop", InA, n, w, FALSE) : n \in BOOLEAN, w \in BOOLEAN}]

\* Three passes, with and without something to do.
Transforming ==
    [builds |-> 1, overlap |-> FALSE, findings |-> 0, kills |-> 1, slips |-> 0, dest |-> Same,
     modes |-> [x \in Range(Passes) |-> Modes],
     requests |-> {Plain("shop", d) : d \in {InA, Nothing}}
                    \cup {Req("shop", InA, FALSE, FALSE, FALSE)}]

\* Builds of one project, one after the other, with two passes each.
Rebuilding(builds, slips) ==
    [builds |-> builds, overlap |-> FALSE, findings |-> 0, kills |-> 1, slips |-> slips,
     dest |-> Same,
     modes |-> ModesFor("visibility" :> {"force"} @@ "stage_assert" :> {"auto"}),
     requests |-> {Plain("shop", InA)}]

\* Two builds of two projects, or of one, one after the other or at once.
Neighbours(overlap, modes, requests, kills, slips) ==
    [builds |-> 2, overlap |-> overlap, findings |-> 0, kills |-> kills, slips |-> slips,
     dest |-> Same, modes |-> ModesFor("containment_guard" :> modes), requests |-> requests]
Alike == {Plain("shop", InA), Plain("blog", InA)}
Unlike == {Plain("shop", InA), Plain("blog", Nothing)}
Own == {Plain("shop", InA)}

\* Two files, which may have one destination, as sources outside the project may.
Writing(dest, kills, slips) ==
    [builds |-> 2, overlap |-> FALSE, findings |-> 0, kills |-> kills, slips |-> slips,
     dest |-> dest, modes |-> ModesFor("containment_guard" :> {"auto"}),
     requests |-> {Plain("shop", InBoth)}]

MCWorlds ==
    {Verifying, Transforming, Rebuilding(2, 0), Rebuilding(1, 1),
     Neighbours(FALSE, {"auto"}, Alike, 1, 0), Neighbours(FALSE, {"force"}, Unlike, 1, 1),
     Neighbours(TRUE, {"force"}, Alike, 1, 0), Neighbours(TRUE, {"force"}, Own, 0, 1),
     Writing(Same, 0, 1), Writing([f \in MCFiles |-> "a.ts"], 1, 0)}
=============================================================================
