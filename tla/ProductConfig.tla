---------------------------- MODULE ProductConfig ----------------------------
(***************************************************************************)
(* runtime/topo/_config_model.mjs and config.mjs: a product's runtime      *)
(* configuration.  Three layers carry values: b, embedded in the artifact; *)
(* a, the external file topo-app.toml; c, injected in code.  A process     *)
(* reads the file once, when it builds its ProductConfig; set changes its  *)
(* own layer a and then rewrites the whole file.  Several processes, and   *)
(* the user's editor, may share the file.                                  *)
(*                                                                         *)
(* A key is the sequence of its dotted names.  A value maps the paths of   *)
(* its leaves to scalars: a scalar is the value with the empty path only,  *)
(* anything else is a record.  A document (what a TOML text decodes to)    *)
(* maps full paths to scalars, so nesting (_splitNested), emission         *)
(* (_emitToml) and reading (_loadToml, _flattenNested) are operators on    *)
(* sets of paths.  The alphabetical order of the names is left open.       *)
(***************************************************************************)
EXTENDS Naturals, FiniteSets, SequencesExt

CONSTANTS
    Procs,          \* processes that build a ProductConfig on the file
    Names,          \* the parts of dotted keys
    BuildSections,  \* BUILD_TOOLCHAIN_SECTIONS
    BuiltIn,        \* layer b as the constructor gets it
    Injected,       \* layer c
    Policies,       \* the policies the constructor gets
    Declarations,   \* the <<key, policy>> pairs each process may declare
    Writes,         \* the <<key, value>> pairs each process may set
    Levels,         \* the credential levels each process presents
    Blocks,         \* the documents each process may embed
    Edits           \* documents the user may save as the file

VARIABLES
    live,      \* the process has built its ProductConfig
    ext,       \* its layer a, in memory
    inl,       \* its layer b
    policies,  \* its declared policies
    writing,   \* the document it is writing: the file is open and truncated
    file       \* topo-app.toml

vars == <<live, ext, inl, policies, writing, file>>

-----------------------------------------------------------------------------
(* Values, layers and documents. *)

\* The classes of scalars the code tells apart: plain ones, arrays, integers
\* that a number cannot hold and what reading makes of them, and dates.
Scalars == {"one", "two", "list", "big", "rounded", "date"}

\* Array and Date objects take a further property silently, where another
\* scalar throws.
Objects == {"list", "date"}

Keys == Seq(Names) \ {<<>>}
IsValue(v) == DOMAIN v \subseteq Seq(Names) /\ v \in [DOMAIN v -> Scalars]
IsLayer(l) ==
    /\ l = [k \in DOMAIN l |-> l[k]]
    /\ DOMAIN l \subseteq Keys
    /\ \A k \in DOMAIN l : IsValue(l[k])
IsDocument(d) == DOMAIN d \subseteq Keys /\ d \in [DOMAIN d -> Scalars]

\* ConfigImpact, a read level and the tags of an item.
Policy == [impact : {0, 1}, readLevel : Nat, tags : SUBSET STRING]
IsPolicies(f) ==
    /\ f = [k \in DOMAIN f |-> f[k]]
    /\ IsFiniteSet(DOMAIN f)
    /\ \A k \in DOMAIN f : f[k] \in Policy

\* What the constants stand for: a program cannot pass anything else.
ASSUME ConfigAssumption ==
    /\ IsLayer(BuiltIn) /\ IsLayer(Injected)
    /\ IsPolicies(Policies)
    /\ \A p \in Procs :
        /\ \A w \in Writes[p] : w[1] \in Keys /\ IsValue(w[2])
        /\ \A kp \in Declarations[p] : kp[1] \in Keys /\ kp[2] \in Policy
        /\ \A d \in Blocks[p] : IsDocument(d)
    /\ \A d \in Edits : IsDocument(d)

Scalar(s) == [q \in {<<>>} |-> s]
IsRecord(v) == DOMAIN v # {<<>>}
NoDocument == [q \in {} |-> "one"]

\* stdlibTypeOf: every type but Date has a bridge, at any depth.
Bridged(v) == \A q \in DOMAIN v : v[q] # "date"

\* rejectIfBuildConfigKey: the first name of the key is a build section.
IsBuildKey(k) == Head(k) \in BuildSections

-----------------------------------------------------------------------------
(* Writing a layer as text and reading it back. *)

\* Mutant: a key hides its own leaves.
ShadowedByItself(l, k, q) ==
    \E k2 \in DOMAIN l : IsPrefix(k, k2) /\ IsPrefix(k2, k \o q)

\* A longer key that lies on the way to a leaf of k replaces it.
Shadowed(l, k, q) ==
    \E k2 \in DOMAIN l : IsStrictPrefix(k, k2) /\ IsPrefix(k2, k \o q)

Visible(l) == {kq \in UNION {{k} \X DOMAIN l[k] : k \in DOMAIN l} :
                  ~Shadowed(l, kq[1], kq[2])}

\* _splitNested: keys in order, each set inside what shorter keys put there.
\* The record values of the layer are part of the nesting, not copied.
Nested(l) ==
    LET leaves == Visible(l)
    IN  [path \in {kq[1] \o kq[2] : kq \in leaves} |->
            LET leaf == CHOOSE kq \in leaves : kq[1] \o kq[2] = path
            IN  l[leaf[1]][leaf[2]]]

\* Setting k throws: its path leads through a scalar that is no object.
Blocked(tree, k) ==
    \E path \in DOMAIN tree : IsStrictPrefix(path, k) /\ tree[path] \notin Objects

Splits(l) == LET tree == Nested(l) IN \A k \in DOMAIN l : ~Blocked(tree, k)

\* The keys that are set before the first one that throws.  Which unrelated
\* keys come first is a matter of their spelling.
SetBeforeThrow(l) ==
    LET tree == Nested(l)
    IN  {S \in SUBSET DOMAIN l :
            \A k \in S : /\ ~Blocked(tree, k)
                         /\ \A k2 \in DOMAIN l : IsPrefix(k2, k) => k2 \in S}

\* What nesting the keys in S does to the layer itself: a longer key is set
\* inside the record that memory holds for a shorter one.
Aliased(l, S) ==
    LET tree == Nested(Restrict(l, S))
        Below(k) == {SubSeq(path, Len(k) + 1, Len(path)) :
                        path \in {path \in DOMAIN tree : IsPrefix(k, path)}}
    IN  [k \in DOMAIN l |-> IF k \in S /\ IsRecord(l[k])
                            THEN [q \in Below(k) |-> tree[k \o q]]
                            ELSE l[k]]

\* _emitToml: properties of an array are not written.
Emitted(tree) ==
    {path \in DOMAIN tree : \A up \in DOMAIN tree : ~IsStrictPrefix(up, path)}

\* _tomlScalar throws on a Date.
Emits(l) == LET tree == Nested(l) IN \A path \in Emitted(tree) : tree[path] # "date"

\* _parseTomlValue reads what was written: an integer becomes a number.
ReadScalar(s) == IF s = "big" THEN "rounded" ELSE s

\* serializeExternal and restoreInlinedToml: the document of the text.
Document(l) ==
    LET tree == Nested(l) IN [path \in Emitted(tree) |-> ReadScalar(tree[path])]

\* Mutant: the recursion loses the prefix.
FlattenWithoutPrefix(d) ==
    [k \in {Tail(path) : path \in DOMAIN d} |-> Scalar("one")]

\* _flattenNested: inline tables are never branded, so every table is descended
\* into and every leaf becomes a key of its own.
Flatten(d) == [path \in DOMAIN d |-> Scalar(d[path])]

\* The file: no file, a text, or a text that does not parse.
Text(d) == [state |-> "text", doc |-> d]
Absent  == [state |-> "absent", doc |-> NoDocument]
Garbled == [state |-> "garbled", doc |-> NoDocument]

Truncated == Text(NoDocument)

\* The constructor: a file that does not exist is an empty layer.
Load(f) == Flatten(f.doc)

-----------------------------------------------------------------------------
(* Reading. *)

Layers(p) == <<inl[p], ext[p], Injected>>

AllKeys(p) == UNION {DOMAIN Layers(p)[i] : i \in 1 .. 3}

\* The most explicit layer that carries the key.
Layer(p, k) ==
    CHOOSE i \in 1 .. 3 :
        /\ k \in DOMAIN Layers(p)[i]
        /\ \A j \in 1 .. 3 : k \in DOMAIN Layers(p)[j] => j <= i

\* resolve; it throws for a build key.
Resolve(p, k) == [value |-> Layers(p)[Layer(p, k)][k], layer |-> Layer(p, k)]

DefaultPolicy == [impact |-> 0, readLevel |-> 0, tags |-> {}]

PolicyOf(p, k) == IF k \in DOMAIN policies[p] THEN policies[p][k] ELSE DefaultPolicy

\* REQUIRED_CREDENTIAL_LEVEL: LOW asks for 0, HIGH for 1.
RequiredLevel(p, k) == PolicyOf(p, k).impact

\* Mutant: only the external layer is looked at.
MaxReadLevelOfFile(p) ==
    LET levels == {0} \cup {PolicyOf(p, k).readLevel : k \in DOMAIN ext[p]}
    IN  CHOOSE top \in levels : \A other \in levels : other <= top

\* The highest read level any item of any layer asks for.
MaxReadLevel(p) ==
    LET levels == {0} \cup {PolicyOf(p, k).readLevel : k \in AllKeys(p)}
    IN  CHOOSE top \in levels : \A other \in levels : other <= top

\* Tags scope the search, the level decides what is visible.
Query(p, tags, level) ==
    {k \in AllKeys(p) : /\ level >= PolicyOf(p, k).readLevel
                        /\ tags \subseteq PolicyOf(p, k).tags}

\* One build key or one Date among the rows makes the whole browse throw.
BrowseThrows(p, tags, level) ==
    \E k \in Query(p, tags, level) :
        IsBuildKey(k) \/ ~Bridged(Resolve(p, k).value)

Browse(p, tags, level) ==
    {[key |-> k, effective |-> Resolve(p, k).value, layer |-> Resolve(p, k).layer,
      hasDefault |-> k \in DOMAIN inl[p],
      requiredWriteLevel |-> RequiredLevel(p, k),
      requiredReadLevel |-> PolicyOf(p, k).readLevel] : k \in Query(p, tags, level)}

-----------------------------------------------------------------------------
(* A process. *)

Init ==
    /\ live = [p \in Procs |-> FALSE]
    /\ ext = [p \in Procs |-> NoDocument]
    /\ inl = [p \in Procs |-> BuiltIn]
    /\ policies = [p \in Procs |-> Policies]
    /\ writing = [p \in Procs |-> {}]
    /\ file = Absent

Idle(p) == live[p] /\ writing[p] = {}

\* new ProductConfig: what the file holds is taken as it is, without the guard
\* and the type gate that set applies.  A text that does not parse throws.
Open(p) ==
    /\ ~live[p]
    /\ file.state # "garbled"
    /\ live' = [live EXCEPT ![p] = TRUE]
    /\ ext' = [ext EXCEPT ![p] = Load(file)]
    /\ UNCHANGED <<inl, policies, writing, file>>

\* Mutant: the write gate is left out.
AcceptsAnyLevel(p, k, v, level) == ~IsBuildKey(k) /\ Bridged(v)

\* set's three gates, in their order.
Accepts(p, k, v, level) ==
    /\ ~IsBuildKey(k)
    /\ Bridged(v)
    /\ level >= RequiredLevel(p, k)

\* A refused set throws before anything is changed.
Refuse(p, k, v, level) ==
    /\ ~Accepts(p, k, v, level)
    /\ UNCHANGED <<ext, writing, file>>

\* The value set's caller finds in the layer before it is written out.
Assign(l, k, v) == [k2 \in DOMAIN l \cup {k} |-> IF k2 = k THEN v ELSE l[k2]]

\* Serialising threw: the file is as it was, the layer keeps the new value.
SplitThrows(p, l) ==
    /\ ~Splits(l)
    /\ \E S \in SetBeforeThrow(l) : ext' = [ext EXCEPT ![p] = Aliased(l, S)]
    /\ UNCHANGED <<writing, file>>

EmitThrows(p, l) ==
    /\ Splits(l)
    /\ ~Emits(l)
    /\ ext' = [ext EXCEPT ![p] = Aliased(l, DOMAIN l)]
    /\ UNCHANGED <<writing, file>>

\* Mutant: the layer is serialised before the new value is in it.
OpenFileTooEarly(p, l) ==
    /\ Splits(l)
    /\ Emits(l)
    /\ ext' = [ext EXCEPT ![p] = Aliased(l, DOMAIN l)]
    /\ \/ /\ writing' = [writing EXCEPT ![p] = {Document(ext[p])}]
          /\ file' = Truncated
       \/ UNCHANGED <<writing, file>>

\* writeFileSync opens and truncates the file, or fails to.
OpenFile(p, l) ==
    /\ Splits(l)
    /\ Emits(l)
    /\ ext' = [ext EXCEPT ![p] = Aliased(l, DOMAIN l)]
    /\ \/ /\ writing' = [writing EXCEPT ![p] = {Document(l)}]
          /\ file' = Truncated
       \/ UNCHANGED <<writing, file>>

\* ProductConfig.set, up to the open file.
Set(p, k, v, level) ==
    /\ Idle(p)
    /\ \/ Refuse(p, k, v, level)
       \/ /\ Accepts(p, k, v, level)
          /\ LET l == Assign(ext[p], k, v)
             IN  SplitThrows(p, l) \/ EmitThrows(p, l) \/ OpenFile(p, l)
    /\ UNCHANGED <<live, inl, policies>>

\* The text is written from the start of the file: over the longer text of a
\* process that wrote since, it leaves a tail.
FinishWrite(p) ==
    /\ \E d \in writing[p] :
        \/ file' = Text(d)
        \/ file # Truncated /\ file' = Garbled
    /\ writing' = [writing EXCEPT ![p] = {}]
    /\ UNCHANGED <<live, ext, inl, policies>>

\* A write that is cut short leaves some of the lines, or half a line.
Torn(d) ==
    {file, Garbled} \cup {Text(Restrict(d, S)) : S \in SUBSET DOMAIN d}

FailWrite(p) ==
    /\ \E d \in writing[p] : file' \in Torn(d)
    /\ writing' = [writing EXCEPT ![p] = {}]
    /\ UNCHANGED <<live, ext, inl, policies>>

\* The process ends: its memory is gone, its write is cut short.
Stop(p) ==
    /\ live[p]
    /\ IF writing[p] = {} THEN file' = file ELSE \E d \in writing[p] : file' \in Torn(d)
    /\ live' = [live EXCEPT ![p] = FALSE]
    /\ ext' = [ext EXCEPT ![p] = NoDocument]
    /\ inl' = [inl EXCEPT ![p] = BuiltIn]
    /\ policies' = [policies EXCEPT ![p] = Policies]
    /\ writing' = [writing EXCEPT ![p] = {}]

\* ConfigStore.declare
Declare(p, k, policy) ==
    /\ Idle(p)
    /\ ~IsBuildKey(k)
    /\ policies' = [policies EXCEPT ![p] = Assign(policies[p], k, policy)]
    /\ UNCHANGED <<live, ext, inl, writing, file>>

\* declareInlinedToml and installInlined: all keys are looked at first.
DeclareInlined(p, d) ==
    /\ Idle(p)
    /\ \A k \in DOMAIN d : ~IsBuildKey(k)
    /\ inl' = [inl EXCEPT ![p] = Flatten(d)]
    /\ UNCHANGED <<live, ext, policies, writing, file>>

\* restoreInlinedToml returns text, and nests the layer to do so; it throws
\* on a layer that does not nest, with some of its keys set.
RestoreInlined(p) ==
    /\ Idle(p)
    /\ \E S \in IF Splits(inl[p]) THEN {DOMAIN inl[p]} ELSE SetBeforeThrow(inl[p]) :
         inl' = [inl EXCEPT ![p] = Aliased(inl[p], S)]
    /\ UNCHANGED <<live, ext, policies, writing, file>>

\* The user saves the file in an editor.
Edit(d) ==
    /\ file' = Text(d)
    /\ UNCHANGED <<live, ext, inl, policies, writing>>

Next ==
    \/ \E p \in Procs :
        \/ Open(p) \/ FinishWrite(p) \/ FailWrite(p) \/ Stop(p) \/ RestoreInlined(p)
        \/ \E w \in Writes[p], level \in Levels[p] : Set(p, w[1], w[2], level)
        \/ \E kp \in Declarations[p] : Declare(p, kp[1], kp[2])
        \/ \E d \in Blocks[p] : DeclareInlined(p, d)
    \/ \E d \in Edits : Edit(d)

Spec == Init /\ [][Next]_vars

-----------------------------------------------------------------------------
(* Properties. *)

\* The types of all variables.
TypeOK ==
    /\ live \in [Procs -> BOOLEAN]
    /\ \A p \in Procs :
        /\ IsLayer(ext[p])
        /\ IsLayer(inl[p])
        /\ IsPolicies(policies[p])
        /\ \A d \in writing[p] : IsDocument(d)
    /\ file.state \in {"text", "absent", "garbled"}
    /\ IsDocument(file.doc)

\* A layer whose values come back as they are: no records (their fields become
\* keys), no integer beyond a number, no key below an array.
RoundTrips(l) ==
    \A k \in DOMAIN l :
        /\ l[k] # Scalar("big")
        /\ ~IsRecord(l[k])
        /\ \A k2 \in DOMAIN l : ~IsStrictPrefix(k2, k)

\* What a successful set wrote is what the next process loads, for exactly the
\* layers that round-trip: FinishWrite closes a set on a file nobody touched
\* since it was truncated.
SavedIsLoaded ==
    [][\A p \in Procs :
        FinishWrite(p) /\ file = Truncated
            => (Load(file') = ext'[p] <=> RoundTrips(ext[p]))]_vars

\* The comment of config.mjs (22-24): reader and writer are a matched pair, so
\* what a successful set wrote is what the next process loads.
EncodeDecodeIsIdentity ==
    [][\A p \in Procs :
        FinishWrite(p) /\ file = Truncated
            => Load(file') = ext'[p]]_vars

\* A step of a running process gives k another value in its layer a.
Changes(p, k) ==
    /\ live[p] /\ live'[p]
    /\ k \in DOMAIN ext[p]
    /\ ext'[p][k] # ext[p][k]

\* A set of that very item, at the level its impact asks for.
Deliberate(p, k) ==
    \E w \in Writes[p], level \in Levels[p] :
        /\ w[1] = k
        /\ level >= RequiredLevel(p, k)
        /\ Set(p, k, w[2], level)

\* A guarded scalar changes only by a deliberate set of that item.
GuardHolds ==
    [][\A p \in Procs : \A k \in (IF live[p] THEN DOMAIN ext[p] ELSE {}) :
        RequiredLevel(p, k) > 0 /\ ~IsRecord(ext[p][k]) /\ Changes(p, k)
            => Deliberate(p, k)]_vars

\* The comment on the write gate (_config_model.mjs:450-455): a guarded item of
\* any type changes only by a deliberate set of that item.
GuardedItemsChangeDeliberately ==
    [][\A p \in Procs : \A k \in (IF live[p] THEN DOMAIN ext[p] ELSE {}) :
        RequiredLevel(p, k) > 0 /\ Changes(p, k) => Deliberate(p, k)]_vars

\* An embedded block of scalars is recoverable: the text restoreInlinedToml
\* returns decodes to the layer it was made of.
EmbeddedIsRecoverable ==
    \A p \in Procs :
        RoundTrips(inl[p]) /\ (\A k \in DOMAIN inl[p] : Bridged(inl[p][k]))
            => /\ Splits(inl[p]) /\ Emits(inl[p])
               /\ Flatten(Document(inl[p])) = inl[p]

\* At the highest read level a browse that does not throw has a row for every
\* key of every layer: no level at which a fragment stays invisible.
BrowseIsComplete ==
    \A p \in Procs :
        live[p] /\ ~BrowseThrows(p, {}, MaxReadLevel(p))
            => {row.key : row \in Browse(p, {}, MaxReadLevel(p))} = AllKeys(p)

=============================================================================
