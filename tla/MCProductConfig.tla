--------------------------- MODULE MCProductConfig ---------------------------
(* Values of the constants for checking ProductConfig with TLC. *)
EXTENDS ProductConfig

CONSTANTS p1, p2

MCProcs == {p1, p2}
MCNames == {"a", "f", "b", "build", "x"}
MCSections == {"build"}

\* Three keys, one of them below another, and a build key.
a == <<"a">>
af == <<"a", "f">>
b == <<"b">>
build == <<"build", "x">>

Field(s) == [q \in {<<"f">>} |-> s]
PolicyFor(impact, readLevel) == [impact |-> impact, readLevel |-> readLevel, tags |-> {}]

MCBuiltIn == [k \in {b} |-> Scalar("one")]
MCInjected == [k \in {} |-> Scalar("one")]
MCPolicies == [k \in {a} |-> PolicyFor(1, 0)]
MCDeclarations == [p \in MCProcs |-> IF p = p1 THEN {<<af, PolicyFor(0, 1)>>} ELSE {}]
MCLevels == [p \in MCProcs |-> IF p = p1 THEN {0, 1} ELSE {0}]

\* The first process sets scalars, an array, a record and a key below it, the
\* second, without a credential, a scalar at a and a big integer; each also tries one of the things that are refused.
MCWrites == [p \in MCProcs |->
    IF p = p1
    THEN {<<a, Scalar("one")>>, <<a, Scalar("list")>>, <<a, Field("one")>>,
          <<af, Scalar("two")>>, <<a, Scalar("date")>>}
    ELSE {<<a, Scalar("two")>>, <<b, Scalar("big")>>, <<build, Scalar("one")>>}]
RecordWrites == [p \in MCProcs |-> {<<a, Field("one")>>}]
MCBlocks == [p \in MCProcs |-> IF p = p1 THEN {[k \in {af} |-> "one"]} ELSE {}]
MCEdits == {[k \in {build} |-> "date"]}
=============================================================================
