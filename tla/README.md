# A verification project for topo-lang-typescript

TLA+ models of the TypeScript backend of Topo, checked with TLC and proved about with
TLAPS. The models are translated from the source. Where a comment or a header says
something else, a run of its own shows the difference or, where there is none, the section
*What the code says and does not do* names it.

## The system

| Part | Source | State | Operations | Hard because |
| --- | --- | --- | --- | --- |
| Debug adapter | `topo-debug/adapter.mjs` | the await `run()` is suspended at, pause listener and timers, stdout, CDP socket, child process | spawn, connect, set a breakpoint, resume past other pauses, extract variables, hold, resume, wait for the exit | events of five sources (socket, child, timers, stdin, stdout) interleave at every await |
| Configuration model | `runtime/topo/_config_model.mjs` | the layers b (inlined), a (external), c (injected), policies | set, read, query, browse, declare | layers shadow each other, three orthogonal gates |
| Configuration bridge | `runtime/topo/config.mjs` | the model, and `topo-app.toml` | load, set and save, embed and restore | writes may fail half way, several instances share a file, values must survive a round trip |
| Logic graph | `runtime/topo/app.mjs`, `_graph.mjs`, `_emit.mjs`, `_readback.mjs`, `_reflect.mjs` | handlers, functions, one flow | handler, flow, emit, read back | duplicate names, equality up to order |
| Framework check | `runtime/topo/check.mjs`, `_toolchain.mjs` | a temporary project | check, find a tool | name collisions, search order |
| Build backend | `topo-build/main.cpp` | source files, request files, sidecars | six checks, three transforms, source-map sidecar | rewrites in place, shared temporary names, partial failure |
| Analysis provider and L2 analyzer | `topo-check/analysis/` | the language server bridge | start, analyse, fall back to L1 | answers that come late or not at all |
| AST symbol extractor client | `topo-check/analysis/extract/` | a child process | extract, probe | availability probed once, silent failure later |
| Extractor tool | `topo-check/extractor/index.mjs` | none | lift TypeScript syntax to Topo's AST | many forms of syntax, refusals must not become wrong code |
| Plugin, init template, runner stub, profile fixtures, launchers, CMake | `topo-lang/`, `topo-init/`, `topo-check/runner/`, `topo-profile/` | none | registration, constant text | nothing to model |

How they meet: the `topo debug` CLI starts the debug adapter and talks to it over stdin
and stdout; the adapter starts Node and talks to its inspector over a WebSocket.
`topo-build` starts the build backend with a request file; the backend links the analysis
provider and starts Node transforms from topo-v8. `topo-check` uses the analysis provider,
which starts the extractor tool and a language server. A product links the runtime
framework: `app.mjs` emits a `.topo`, `check.mjs` hands it to `topo-check`, `config.mjs`
keeps the product's configuration. topo-core, topo-v8, the language server, Node's
inspector and V8 are outside this repository.

### What makes each part correct

- *Debug adapter*: the wire holds one snapshot of a target that is held while it is read;
  no pause is missed; every end that `run()` foresees kills the target it leaves and comes
  between two variables;
  nobody but the control plane releases the target; it ends.
- *Configuration*: the value read is that of the most explicit layer; a refused write
  changes nothing; what was saved is what is loaded; no item is visible below its tier and
  none is invisible at the highest.
- *Logic graph*: emitting and reading back gives an equivalent graph; every edge names a
  registered handler; a call that throws changes nothing.
- *Framework check*: a pass is about the graph and all sources that were given; the tool
  that runs is the one the lookup's policy prefers; no call leaves the directory and
  returns as if nothing had happened.
- *Build backend*: a file is rewritten only by the passes asked for, each sidecar tells
  what its pass did, a forced pass that fails fails the build.
- *Analysis*: an L2 verdict is claimed only for files that were analysed; a failing tool is
  not taken for a clean result.
- *Extractor*: a form it cannot lift is reported (the code drops some, which are named one
  by one); what it lifts means what it meant; the caller has everything it asked for or
  nothing.

## The plan

1. `DebugAdapter` with `ExtractSession` (what the CLI sees) and `DebugAdapterProofs` of
   both. **Done.**
2. `ProductConfig`: layers, gates, the file, failing writes, several processes; runs for
   the round trip a comment promises and for the write gate. **Done**, with
   `ProductConfigProofs` of every property of its passing run. Left: the dev-internal
   catalogue.
3. `BuildBackend`: checks, passes, request files and sidecars, builds in sequence and at
   once. **Done**, with `BuildBackendProofs` of every property of its passing run.
4. `LogicGraph` and `Toolchain` as operators, `TopoApp` over them: every order of
   registering, declaring, emitting, reading back and checking, on a disk that changes.
   **Done**, with `LogicGraphProofs` and `TopoAppProofs` of every property of its passing run.
5. `AnalysisProvider` with `Catalog`: the extractor's client, the symbols it gives, the
   language server with its retries and its loss. **Done**, with `AnalysisProviderProofs`
   of every safety property of its passing run but `LiftIsFaithful`.
6. `Lift`, `Declarations` and `Extractor`: the extractor tool, checked against `Meaning`
   (what a program does) and `Faithful` (what a lifted function owes), proved against
   `Contract` in `ContractProofs`. **Done.**
7. What remains with TLC is named at the end of *Proofs*.

## Modules

| Module | What it is |
| --- | --- |
| `DebugAdapter` | the adapter, and from how it uses them the target, inspector, socket and control plane |
| `ExtractSession` | the abstract session of the `topo debug` CLI: phases, records, exit code |
| `MCDebugAdapter` | the module TLC runs |
| `DebugAdapterProofs` | theorems about `DebugAdapter`: its invariants; it implements `ExtractSession`, releases on command only, orphans nobody |
| `ProductConfig` | layers, gates and file of the product configuration, for several processes |
| `MCProductConfig` | its keys, values, policies and programs for TLC |
| `ProductConfigProofs` | theorems about the properties of `ProductConfig` |
| `BuildBackend` | the build backend's processes and the file system they share |
| `MCBuildBackend` | the worlds TLC puts them in |
| `BuildBackendProofs` | theorems about `BuildBackend`: the gate, the requests, whose outputs are whose; then types, sidecars, and what a forced pass leaves |
| `LogicGraph` | types, handlers, edges, graphs; emission, read-back, snapshot and semantic key |
| `Toolchain` | the lookup of `topo` and `topo-check` |
| `TopoApp` | a program that registers, declares, round-trips and checks, over those two |
| `MCTopoApp` | its functions, names, signatures, flows, sources and disks for TLC |
| `SequenceLemmas` | lemmas on `Min`, induction, `FlattenSeq`, ranges, prefixes, sequences given by their elements |
| `LogicGraphProofs` | theorems about the operators of `LogicGraph`: what a type and a graph become on their way through the text |
| `TopoAppProofs` | theorems about the properties of `TopoApp` |
| `Syntax` | the trees of the TypeScript compiler: nodes up to a height, declarations up to a depth |
| `Lift` | statements, expressions and types of TypeScript to nodes of the transpile model |
| `Declarations` | the walks over a file's declarations: functions, types, exported symbols |
| `Extractor` | the extractor process, over `Declarations` |
| `Contract` | what must be recorded as unsupported, and which types and symbols found, worked out from the trees alone; and what of it is dropped in silence |
| `ContractProofs` | theorems: the lift and the walks do what `Contract` says, for every tree |
| `Meaning`, `Faithful` | a reference interpreter; what a lifted function owes its source |
| `Catalog` | the whitelist, the unsafe catalog, the classification of a call |
| `AnalysisProvider` | a whole `topo-check` of TypeScript sources, or one lift, over `Extractor` |
| `AnalysisProviderProofs` | theorems about the properties of `AnalysisProvider` |
| `MCAnalysisProvider` | its files, their declarations and bodies, tokens and jobs for TLC |

### DebugAdapter

The adapter is one async function. `pc` names the await it is suspended at (`Pcs`; the
awaits of `cdp.send` carry the name of the command). An action is one event-loop task
together with everything `run()` does up to its next await: a message of the socket
(`PausedArrives`, `LaunchReply`, `ReleaseReply`, `ProbeReply`, `ExtractReply`,
`FinalReply`, `ErrorReply`), its close event (`CloseArrives`), the callback of an awaited
write (`BytesDrained`, `LayoutDrained`), a line or the end of stdin (`ReadLine`,
`ReadEof`), the child's exit (`ChildExits`), a timer (`BannerTimeout`, `PauseTimeout`,
`ExitTimeout`), and the end of a process whose event loop has nothing left to wait for
(`LoopDrains`). `Turn` is the body of the breakpoint loop; it is part of whichever task
resolves the pause promise last.

| Variable | Code |
| --- | --- |
| `pc`, `var` | the suspension point of `run()`, the index in `args.vars` |
| `listener`, `paused` | the current `waitForPaused` promise: armed with its timer, or resolved with its params |
| `deadline` | `overallDeadline` against `Date.now()` |
| `meta` | the probe's answer, represented by the pause it was given in |
| `out`, `flushed` | what was passed to `process.stdout.write`, and what the pipe has taken |
| `ws`, `request`, `answer`, `inbox` | the socket as the event loop sees it, the one command under way, its reply, and messages not yet delivered |
| `target`, `site`, `pauseNo`, `bpSet`, `banner` | the Node child: what it does, where and at which pause it stands, the breakpoint it holds |
| `sigterm`, `exitSeen` | `child.kill` was called, the child's exit event was delivered |
| `stdin`, `stdinEnded` | unread lines of the control plane |
| `exitCode` | the code passed to `process.exit` |

Abstracted: the arguments' text (`ParseArgs` may end with any code its checks can give),
frame bytes and layout JSON (a record keeps its kind, its variable and the pause its
content comes from), the probe's result (the classes the code tells apart), URLs (whether
a pause matches, matches by line in an anonymous script, or does not), and all messages
on stderr. Time is a choice: an armed timer may fire at any moment.

What the environment may do is taken from how the code uses it and from what V8 and Node
document: an announced pause may overtake the reply to the resume that caused it; with a
debugger attached a finished target waits for the disconnect; closing a socket loses what
was under way to the inspector but delivers what is already on its way to the adapter
first; a target that loses its debugger runs on; a signal may kill the target at any
time. Whether a write to stdout is awaited asynchronously depends on the platform (on
Linux pipes are synchronous, on Windows they are not): both happen in the model.

### ExtractSession

Phases launch, seek, emit, hold, release, done; the number of records on the wire; the
exit code. A session ends between variables, never while it holds, with a code of the
phase it gave up in. `DebugAdapter` implements it under the mapping `Phase`,
`emitted <- Len(out)`, `code <- exitCode`.

### ProductConfig

The a, b and c layers of each process, the file they share, and the user's editor.

| Variable | Code |
| --- | --- |
| `live` | the process has constructed its `ProductConfig` |
| `ext`, `inl` | `LayeredConfig.external` (a) and `.inlined` (b); c (`Injected`) never changes |
| `policies` | `ConfigStore._policies` |
| `writing` | between the truncation of `writeFileSync` and its end: the document under way |
| `file` | `topo-app.toml`, as what its text decodes to |

An action is one synchronous call of a process: the constructor (`Open`), `set` up to the
opened file (`Set`: refused, thrown by `_splitNested`, thrown by `_tomlScalar`, not opened,
or opened), the end of the write (`FinishWrite`, `FailWrite`), `declare`, `declareInlinedToml`,
`restoreInlinedToml` (which may throw, after it has changed records that memory holds, as `set`
may), and the end of the process (`Stop`); `Edit` is the user. Only
`writeFileSync` is not atomic between processes, hence its two steps. Reads (`Resolve`,
`Query`, `Browse`) change nothing and are operators.

Keys and values are sets of paths. A key is the sequence of its dotted names; a value maps
relative paths to scalars, so that a scalar is the value with the empty path only and a
record is any other. Nesting a layer is then a question of prefixes: a longer key replaces
what lies below it in a shorter one (`Shadowed`), it throws below a plain scalar
(`Blocked`), it is lost below an array (`Emitted`), and because the record objects are
shared it changes the record that memory holds (`Aliased`). Reading a file gives each leaf
a key of its own (`Flatten`) and an integer beyond 2^53 another value (`ReadScalar`).

Abstracted: the text of scalars and names, and hence which of two unrelated keys is
nested first (left open, it matters only when a later one throws); tags carry no meaning
but are kept in `Query`. A text cut in the middle of a line is `Garbled`: no process loads
it. In the code some such lines parse and give a wrong value. A value nested deeper than
one level, and a config without a path, do not occur in the runs.

### BuildBackend

The backend is a sequential program; what makes it hard is the disk. Builds are numbered in
the order they start, in one world: one after the other or at once, in one project or two.

| Variable | Code |
| --- | --- |
| `world` | what surrounds the builds: see *Bounds* |
| `build[b].pc`, `at` | where `main` stands, and at which check or pass |
| `errors`, `warnings`, `printed` | `totalErrors`, `totalWarnings`, and the diagnostics on stderr |
| `mode`, `ok`, `rows`, `todo`, `written` | `isForce`, `transformOk`, the results with `transformed`, those still to write, those counted in `writtenCount` |
| `handle` | the `std::ofstream` that is open |
| `seen` | what the Node tool read of its request |
| `log` | what stderr says of each pass |
| `slips` | a history: which operations on files failed in this build with nobody looking |
| `fs` | what each path holds: requests, outputs, sidecars, and the sidecars' `.tmp` |

A step is one use of the disk or one decision between two: a check (`Check`), the gate
after them, the decision to skip, to refuse or to open the request (`Skip`, `Refuse`,
`OpenRequest`), the end of that write, the tool's reading and its answer, each output's
truncation and its write, and the sidecar's write and rename. The code writes the three
passes out one after the other; they differ in what they look for (`Declared`), in names
and in texts, so they are one operator `Transform` at three places. `Abort` is an exception
nobody catches, `Kill` the end of a process at any step.

Streams are not checked in this program: a file that cannot be opened is not written, a
write may end short, a removal may fail, and the code goes on. `Open`, `Close` and `Unlink`
each have that second outcome (`MaySlip`, at most `world.slips` times), for the requests
(549-552, 825-828, 1137-1140), the outputs (595-597) and the sidecars (667-672, where the
rename is tried all the same) alike. What it leads to is in the properties, by name:

- a build that could not open its request hands the tool whatever request stands there, and
  writes what comes of it: `OwnRewrites` and `ForcedIsApplied` except that build's outputs
  of that pass, and nothing else;
- an output that could not be opened or written counts as written: `ForcedIsApplied` and
  `SidecarIsBacked` except that output, and nothing else;
- a sidecar's temporary file that could not be opened or written is renamed, be it torn or
  an older build's: `SidecarsAreWhole` excepts the sidecar of that name, while
  `SidecarIsBacked` holds also of an older build's record that gets its place this way;
- a request that could not be removed is left: `RequestsAreRemoved` excepts it.

A file that a process has open keeps being that file when its path is removed or renamed:
`handle` follows the file (`BecomeAndRename`), and closing writes over what another process
may have written meanwhile (`Flush`). That is what two builds on one fixed name do to each
other. `Topo.toml` is read as each step begins, so a mode is any that the world allows.

Abstracted: what a check finds (any severities), the texts, which action a name is mapped to
(a pass knows the files it touches), sources that are added or removed during a build, and the order of a tool's answer (any).

### LogicGraph and Toolchain

A type is a record with either the name of a scalar or a sequence of fields. `Spelled` is
`TypeRef.topo`; the .topo text is a sequence of declarations (`EmitTopo`), of which
`ReadTopo` makes a graph again the way `_readback.mjs` does: what its patterns do not match
is skipped, a record is taken apart at its commas. Of a name only two things matter:
whether `\w+` matches it (`OddNames` are those it does not) and whether it is `void`, the
name the parser's dump gives to the end of a flow. `SemanticKey` compares handlers and
edges as bags, types by their spelling; `Snapshot` is what a user sees.

`Descriptors` is what a program can pass as a schema: a scalar or a record whose fields
have names. A name is one token and none of the separators `,` and `:`; `Field` would
accept a name with one inside, and such a record is taken apart elsewhere.

A disk is a set of executables, each with a root (a directory on PATH, TOPO_BIN_DIR, or a
build tree), a place in it, and a suffix; `Find` is the search of `_toolchain.mjs` in the
order it is written, on POSIX and on Windows, the empty entry of a PATH included.

### TopoApp

| Variable | Code |
| --- | --- |
| `graph`, `fns` | `App._graph`, `App._fns` |
| `threw` | did the last call of the API throw |
| `call` | the `roundtrip()` or `check()` under way: its step, the text it emitted, its sources, what was copied (`staged`), the tool that was found, what that said |
| `dirs` | temporary directories that exist |
| `world`, `disk` | platform, TOPO_BIN_DIR and PATH; the executables |
| `changes`, `unclean` | how often the disk changed; how often a call was killed, or its `rmSync` threw |

`RegisterHandler` is `App.handler`, `DeclareFlow` is `App.flow`: each either throws and
changes nothing, or changes graph and functions at once. `RoundTrip` and `Check` begin a
call; its steps are `CopySource`, `StagingFails` (any file operation may throw), `Resolve`
(the lookup), `RunTool` (`spawnSync`: by now the tool may be gone, may refuse, may die after
printing), `RemoveDir` (the `finally`) or `RemovalFails` (its `rmSync` throws, and that
error replaces what was on its way), `Return` and `Consume`. `DiskChanges` and `Kill`
come between any two of them. `Resolve` makes one step of the lookup's many looks at the disk,
so a disk that changes between two of them is not seen. The parser and the checker are outside this repository:
the one gives back the text's declarations, the other passes when every handler is defined
in a staged source and none breaks purity.

Where code and promise differ, the properties say exactly for which inputs, so that the
rest is checked too: `RoundTripIsFaithful` (a name that `\w+` does not match, a handler
called `void`), `EqualKeysHideNesting` (records in records), `PassCoversEverySource` (two
sources of one base name).

### The extractor and its interpreter

Syntax trees and model nodes have one shape: a kind, a text, children. `Nodes` is the set of
the well-formed trees up to `MaxHeight`, by recursion over the height; the lifts and walks
are recursive functions over it (`LiftExpr`, `LiftStmt`, `VisitBodies`, ...), each with one
operator (`ExprBy`, `StmtBy`, `BodiesBy`, ...) for one level. `Lift` returns for
each source node the model node and the notes `FnLift.unsupported` collects. `Declarations`
finds functions and types in namespaces, classes and variable statements, and the symbols
the completeness check asks for. `Extractor` is the process: it reads its request until
stdin is closed, then each file (`ToolWorks`), and answers once; files may vanish and the
process may be killed at any step, with half an answer written.

`Meaning` runs both trees: JavaScript's way for source nodes, by their discriminators for
model nodes. It yields how a body ended, its value, the variables and array cells it left,
and its calls in order. `IsFaithful` asks that a function of fidelity `source` yields the
same from every start.

`Contract` says what the tool owes, from the trees. A construct `IsInexpressible` if the
answer has no node that means the same; that is asked of every node of a function, whether
the lift looks at it or not. `IsRecorded` says of a lifted function that notes and a lower
fidelity go together, that there are some only if it is `async` or something in it is
inexpressible, and that an inexpressible construct is noted, with these exceptions:

- it stands where the lift does not look (`SeenLinks`): in the callee of a call, which goes
  over as text (304), in a parameter's default (690), in the type arguments of a reference
  (104);
- it is of one of four kinds (`IsOverlooked`): `>>>` becomes `>>` (146), `o?.p` becomes
  `o.p` (308), a parameter loses its default, a reference its type arguments.

`LiftIsFaithful` says that a function of fidelity `source` means what its source means, but
for those kinds and one more (`IsQuietlyLost`): `t = t op v` becomes one compound update, which
loses an effect if `t` has one (`a[i++] = a[i++] - v`). The promise `index.mjs` opens with
has no exceptions at all; it is `NothingIsDroppedSilently`, which run `lift_promise` refutes.

`Contract` also says which types and which exported symbols a file has. `namespace A.B { }`
is `A` with `B` in it, so what is in there counts. None of the three walks goes in, since
the body of `A` is then no block (466, 607, 995). `TypesAreComplete` and
`SymbolsAreExactOrSaid` except what is `InDotted`; without the exception it is
`NamespacesAreWalked`, which run `lift_namespaces` refutes.

### Catalog and AnalysisProvider

| Variable | Code |
| --- | --- |
| `content`, `present`, `tool`, `faults` | of `Extractor`: the files, which of them can be read, the process, how many faults happened |
| `client` | `runTool`: start, write, close, read to the end; the request and the answer |
| `installed` | is the tool's launcher on PATH |
| `l1` | the symbol extractor that was chosen, the answers so far, was the user warned |
| `server` | the language server: off, up, down |
| `l2` | the deep check: its file, tries, token; the call sites, the files without tokens, what was said |

A behaviour is one check, or one request of a transpile driver (which is not in this
repository; only what it asks is modelled). `Probe` and `Choose` are
`createSymbolExtractor`, `AskTool` and `TakeSymbols` run the tool for each file, `AskRegex`
stands for topo-v8's extractor. Then `StartServer`, and for each file `OpenDocument`,
`GetTokens` with its retries, for each token `Hover` and `Classify`, `CloseDocument`, and
`EndL2`. `ServerDies` and the tool's faults come between any two steps.

`Catalog` holds both classifications and the whitelist with its prefix rule. `LevelsAgree`
compares the three tables with each other.

`SymbolsAreExactOrSaid` and `L2IsHonest` name what the code hides: an extraction that fails
after the probe succeeded counts as a file without symbols, and a server that is lost in the
middle of a file hides the calls of that file.

## Runs

| Run | Expect | What it shows |
| --- | --- | --- |
| `adapter_safety` | pass | all invariants, `ResumeNeedsGo`, the refinement of `ExtractSession`, and `SearchEnds` and `EndsOrWaits` under `Fairness` |
| `adapter_usage_code` | violation | the pause timer beats the reply: unhandled rejection, exit code 1, live target |
| `adapter_ok_code` | violation | exit code 0 after half a wire |
| `adapter_release` | violation | the released target is stopped again |
| `config_safety` | pass | for which layers exactly a saved file loads as what was saved; guarded scalars; embedded blocks; the top read tier |
| `config_round_trip` | violation | a saved record is loaded as one key per field |
| `config_guard` | violation | a set below a guarded record changes it without its level |
| `build_safety` | pass | printed errors fail the build; forced passes are applied; sidecars are whole and backed; requests are a build's own and are removed; each but for the failures nobody looks at |
| `app_safety` | pass | edges resolve; what a round trip keeps; what a pass of `check` covers; the lookup's policy; no directory is left without an error |
| `analysis` | pass | all or nothing; what is noted as unsupported; lifted functions mean what their source means; types and symbols are complete but for the namespaces `A.B`; L2 is honest; tables agree; a check ends |
| `lift_promise` | violation | something inexpressible in a function of fidelity `source` without a note |
| `lift_namespaces` | violation | symbols and types of a namespace `A.B` are in no answer |

*Bounds.* `NumVars = 2`: one variable that is followed by another and one that is last.
`Epochs` numbers pauses modulo 3: a record of the pause before or
after the hit would carry another number, and a run may pause for ever. `MaxLines = 1`:
at most one unread line on stdin; the code reads them one by one, so more lines only
repeat `ReadLine`. Nothing else is bounded.

For the configuration: two processes, one that sets a scalar, an array, a record and a key
below it and presents either level, and one without a credential that sets another key, so
that conflicts of prefixes, of types and of processes all occur. Each also tries a value or
a key that is refused. The editor may save a file with a build key that holds a date, which
is everything the gates of `set` would refuse. One policy is declared at run time and one
block embedded. No counter is bounded: the states are finite. Deadlock is checked: the editor
can always save.

For the build backend, ten worlds, each as small as what it is for: one build that runs
the checks (at most two findings, so that one can be a promoted warning beside another) with
every combination of noVerify and warnOnly; one build with three passes in every mode, with
and without targets or an output directory; two builds of one project with two passes, and
one of them with a failure that goes unnoticed; builds of two projects in sequence, with a
kill, and with a kill and such a failure; builds at once, of two projects with a kill, and
of one project with such a failure; two builds that write two files, with such a failure
where each has a destination of its own, and with a kill where both have one (sources
outside the project fall back to their base name). One unnoticed failure is enough for each
exception of the properties, and one failure and one kill for a request that is left and
then found. Builds end for good, so deadlock is not checked.

For the program: two functions (one anonymous), four names (an ordinary pair, `void`, and
one the read-back does not match), four signatures (flat, nested, one refused for a
field that occurs twice, one without an out type), two registrations, flows of up to two stages with fans and an empty stage:
a second handler of a name, a second name of a function, and a flow before either all
occur. Three lists of two sources: disjoint, with one base name, with an impure one.
`MaxChanges = 1`: one change of the disk, one kill, or one removal that fails, at any step. Two disks and three
hosts: a pinned directory, an installed tool beside a build tree, and Windows without an
installed tool.

For the analysis: two files, whose contents are declarations up to two deep, and bodies with
every small expression in five contexts (returned, as a statement, as a condition, as the
increment of a `for` with `continue`, as the condition of a `while` with `break`) and every
statement form. `MaxFaults = 2`: two failures, of any kind, at any
steps. `MaxRetries = 3` is the code's. `MaxHeight = 9` is more than the height of any tree in
the files; the proofs hold for every height. `Width = 4` tells a signed from an unsigned shift;
`Fuel = 3` rounds tell `break` from `continue`. References have type
arguments, parameters defaults, calls callees that are not names, and one content has an
exported `namespace A.N { }`. A check and a lift end, so deadlock is not
checked; that they do is `CheckEnds`.

*Builds that overlap* (`world.overlap`) are excluded where a property needs it: then a
tool may read the request of another project and its output lands in this one. `RequestsAreRemoved`,
`PrintedErrorsFail`, the first half of `ForcedIsApplied` and, between projects, `SidecarsAreWhole`
hold all the same. What a sidecar means is `SidecarIsBacked`: its files were written by
then, but a later pass, which starts again from the pristine sources, may have
replaced them.

*What the code says and does not do.* Seven runs each refute a comment. Three more comments
that the models do not bear out have no run of their own:

- `main.cpp` 437, 708 and 987 say that mode auto runs a pass if something is declared for
  it. It counts the host symbols that carry a declared name (484, 491-494 and the like), so
  a declaration whose function the sources do not hold is passed over: `Runs` uses `Targets`,
  not `Declared`;
- `main.cpp:613-614` says of the sidecars that a failure logs to stderr. A failed open or a
  short write does not, and the rename follows (667-672);
- `index.mjs:504-506` says that `Box<number>` goes through `typeFromNode`, which keeps `Box`
  (104-107). It is one of the losses `lift_promise` is about.

*Two processes on one file* have no merge: `SavedIsLoaded` says that after a write that
nobody disturbed the file is the writer's whole layer, so another process's keys of the
meantime are gone. The code promises nothing else.

*Fairness.* `Fairness` assumes that the event loop runs tasks that are ready, that timers
fire, that the reader of stdout reads, and that the inspector of a connected target
answers. It assumes nothing of the target's code (it may loop for ever or never reach the
breakpoint), of the control plane (it may never speak) or of signals. Terminating is the
only state without a successor; it stutters as `Terminated`, so deadlock is checked.

For the analysis, three weak fairness conditions: the client, the tool and the provider,
each a sequential process that nothing but a kill stops, take their next step when they
have one. Nothing is assumed of faults, of the files, or of the language server: it may
never have tokens, which is what the retries are for.

*What is left when the adapter does not end* (`EndsOrWaits`): it waits for the control
plane, or for the reply to a command sent on a closed socket while the target lives on:
`cdp.send` has no timeout.

Every property of a passing run has a mutant: a definition of the model changed the way a
bug would change the code, under which TLC finds that property violated. They stand next
to the definitions they replace.

## Proofs

`DebugAdapterProofs` proves, for every `NumVars`, `Epochs` and `MaxLines` (positive
naturals, `ConstantsAssumption`):

- `TypeCorrect`: `Spec => []TypeOK`;
- `Invariance`: `Spec => []IInv`;
- `WireCorrect`, `NothingMissed`, `HitIsHeld`, `EndsCleanly`: the safety properties
  `WireIsOneSnapshot`, `NoPauseMissed`, `TargetHeldAtHit`, `EndsBetweenVariables`.

The argument. None of the four is inductive alone: that two replies carry the same pause
holds because the target was held between them, which holds because no command that
releases it was under way, which holds because at most one command is, and because the
pause that ended the search was the current one when it was examined. `IInv` names these
parts: `OutAtPc` (what is written at each await), `OneCommand`, `SocketState`,
`StoppedUntilAsked` (the target stands until a command releases it), `PausesAreCurrent`
(a pause not yet examined is the one the target is in, and somebody listens),
`ListensWhileRunning` and `AnswersAreOfTheHit`. The step proof has one case per action;
`ExitKeeps` covers every way to end, `TurnKeeps` the loop body, `WriteBytesKeeps` and its
two companions the frames, `TailFacts` and `AppendFacts` the inbox.

Also in `DebugAdapterProofs`, from `Invariance`:

- `Refinement`: `Spec => ImplementsSession`. `SessionStep` maps each action to a step of
  the session or to a stutter. It needs `ClosedSocket` besides `IInv`: a socket whose close
  event was delivered delivers nothing more, and no command of the launch or of the search
  is under way on it (else the event loop could drain with code 0 out of those phases).
- `ReleasedByControlPlane`: `Spec => ResumeNeedsGo`. `OnlyStdinReleases` shows that no
  other action goes from the held state to `FinalResume`.
- `NobodyOrphaned`: `Spec => []NoOrphan`, by `ChildKnown`: the target does not exist before
  it is spawned, and is gone once its exit event was delivered.

`TopoAppProofs` proves, for every set of functions, names, signatures, flows, sources and
hosts and every bound (`TopoAppAssumption`):

- `Invariance`: `Spec => []IInv`, and from it `TypeCorrect`;
- `NoEdgeDangles`: `Spec => []EdgesResolve`. `AppInv` says more: the flow's edges are over
  the keys of `fns`, and each key is the name of a handler of the graph. Neither a second
  handler of a name nor a second name of a function takes a key away (`MapSet` keeps
  places), so an edge that resolved goes on resolving. The edges of a flow are over the
  names of its stages by `FlowEdges`' definition with `FlattenSeq`; `SequenceLemmas`
  supplies its type;
- `PassesCover`: `Spec => []PassCoversEverySource`. `StagedInv` relates the staged project
  to the sources copied so far: each staged text is that of a source of its name, each
  copied source's name is there, and without duplicate names so is its text. `CallInv`
  keeps the emitted text equal to `EmitTopo(graph)`, since no registration happens during a
  call, and a pass to a verdict on all of it;
- `DirsAreRemoved`: `Spec => []NoDirIsLeftSilently`, by counting: a directory that nobody is
  using is one of a call that was killed or whose `rmSync` threw;
- `ThrowsKeepTheGraph`: `Spec => ThrowsChangeNothing`, action by action;
- `LookupFollowsPolicy`: `Spec => LookupPolicy`. `Find` takes the first executable of a
  search order (`FindIsFirst`); that it is the preferred one is a question of what stands
  before it in that order (`OnPathIsInOrder`, `CandidatesAreTree`);
- `ReadBackFaithful`: `Spec => []RoundTripIsFaithful`, and
- `EqualKeysNesting`: `Spec => []EqualKeysHideNesting`. `ReadInv` says that what a round
  trip returns is what `ReadTopo` makes of `EmitTopo(graph)`, `InvGraph` that the graph is
  one of `ProgramGraphs`: its types were accepted by `reflectSignature`, the ends of its
  edges are its handlers. The rest is in `LogicGraphProofs`.

`LogicGraphProofs` is about operators, for every set of names (`LogicGraphAssumption`):

- `TypeRead`: each type that `toTypeRef` accepts is read back with the spelling it had, and
  as itself exactly if no field of it is a record. `SplitAtCommas` and `ReadTopo` are
  recursive functions; `IsSplitting` and `IsReading` say of a function that it is the one
  their definitions name, and that one exists (`SplittingExists`). Splitting undoes joining if
  no part has a comma (`SplitJoined`); if one has, joining still undoes splitting
  (`JoinedSplit`), which is why the spelling stays (`SpelledAgain`);
- `RoundTripSeen`: what `RoundTripIsFaithful` and `EqualKeysHideNesting` say of
  `ReadTopo(EmitTopo(g))`, for every `g` of `ProgramGraphs`. A legible graph is read line by
  line as `ReadBackOf(g)` (`LegibleRead`). An illegible one is not followed at all: whatever
  is read has only names that are words and no edge to void (`ReadIsWordy`), so it cannot
  look like a graph that has others (`WordsOnly`, `NoVoidRead`).

`FlattenSeq`, `SplitAtCommas` and `ReadTopo` recur over a sequence. Lemmas on them need an
induction; they get
it as the search for a least counterexample (`LeastElement`, `Reaches`), which takes a set
where an induction theorem would take an operator.

`ProductConfigProofs` proves, for every set of processes, built-in layer, policies, writes,
declarations, embedded documents and edits that are layers, values, policies and documents
(`ConfigAssumption`):

- `Invariance`: `Spec => []IInv`, and from it `TypeCorrect`. `WritingInv` says that the
  document a process is writing is the one its own layer was nested for, also after the
  values that nesting shares with the layer were changed by it (`Aliased`);
- `SavesLoad`: `Spec => SavedIsLoaded`, in both directions. A layer that loads as itself has
  no key below another key (`RoundTripsIsApart`), so nesting keeps every leaf of it
  (`ApartNested`) and changes nothing of the layer in memory (`ApartAliased`); the layer that
  is compared is then the layer that was written (`SavedLoads`);
- `EmbeddedRecovered`: `Spec => []EmbeddedIsRecoverable`, from the same lemmas: that nesting
  and emitting throw nothing for such a layer is `RoundTripsTree` and `RoundTripsEmits`;
- `BrowseComplete`: `Spec => []BrowseIsComplete`. `maxReadLevel` is a maximum over finitely
  many policies; `Greatest` finds it, by the least upper bound instead of an induction;
- `GuardsHold`: `Spec => GuardHolds`. A write may change another guarded record through the
  nesting it shares, but never a scalar (`AliasedKeeps`).

`BuildBackendProofs` proves, for any number of builds, projects and worlds
(`MaxBuildAssumption`), whether builds overlap or not unless said:

- `ErrorsStopTheBuild`: `Spec => []PrintedErrorsFail`. `Sound` says of one build that, until
  the gate, a count of no errors means that none was printed (`CountedErrors`: promotion
  rewrites both alike), and that past the gate the request waives the checks or none was;
- `NoRequestIsLeft`: `Spec => []RequestsAreRemoved`. `TempInv`: a request that exists is held
  by a build in that pass, or some build was killed or aborted. It needs `Shape`, which says
  what a build can have open: then nobody who writes an output or a sidecar can bring a
  removed request back, even under another name (`MoveKeeps`);
- `RewritesAreOwn`: `Spec => []OwnRewrites`. `OwnInv`, for builds one by one: all before the
  one that runs have ended; what it opened nobody renames, so the request its tool reads is
  its own, whatever a killed build left at that path before, or it could not open the name
  (`Stale`) and its `slips` say so;
- `Invariance`: the three together, `IInv`. Each action has a lemma (`OpenRequestGives`, ...)
  that says what it makes of its build; the three parts use it in turn.

The module goes on from there to what the builds leave on the disk. It assumes of
the constants also that there are finitely many files and at least one
(`FilesAssumption`; a sidecar counts files), and that worlds are records of the right types
(`WorldsAssumption`):

- `FilesInvariance`: `Spec => []FilesInv`, the invariant of the last section with five parts
  more, and from it `TypeCorrect`. `TypeInv` bounds both counts by two for each check that
  has run, which `TypeOK` alone does not keep;
- `NoHalfSidecar`: `Spec => []SidecarsAreWhole`. `WholeInv`: a build that writes a sidecar
  has its own temporary file open and finds there what it wrote, unless opening or writing
  it slipped, in this build or an earlier one that left it torn. `WholeKeeps` is the step of
  any action: builds that do not overlap after it did not before, and where others run too
  they are of other projects, whose names the step does not touch;
- `ForcedPassesApplied`: `Spec => []ForcedIsApplied`. `Outcome` names the three things a
  step can do to an output: nothing, leave it empty and open (or killed), or write the text
  of its own pass. So what a build wrote stays written, by that pass or a later one
  (`WroteKeeps`), until a newer build of the project begins; `Extends` relates what is
  logged to what was written;
- `SidecarsAreTrue`: `Spec => []SidecarIsBacked`. A fresh sidecar is true because of
  `AppliedInv` (`FreshIsTrue`), and a true one stays true: the files that back it are only
  ever replaced by those of later passes and builds (`RecentKeeps`, `TrueKeeps`). `BackedInv` says
  it of the temporary names too: a record is true from the moment it is written beside the
  sidecar, so it is still true when a later build, which could not open that name, renames it. For this
  the invariant must say that the build that wrote a sidecar does not go back behind the
  pass it names (`Advances`).

`ContractProofs` is about trees of every height and declarations of every depth
(`SyntaxAssumption`: `MaxHeight` is a natural number):

- `LiftIsRecorded`: `IsRecorded` of every declaration. The proof goes through what the lift
  does exactly: it has notes if and only if `IsRefused` holds of a link of the tree where it
  looks, and what is refused is what is inexpressible and not overlooked. `Lost(n, parent)`
  says that something is refused in `n` or below; `Says` that a lift has notes exactly if so. A node
  that is put together from lifts says what they say (`TwoSay`, `ThreeSay`, `FourSay`), so
  each kind of node needs one case (`ExprStep`, `StmtStep`). What makes it more than
  bookkeeping is the parent: an assignment is refused as a value and kept as a statement, a
  block is refused alone and kept as a branch, a list of types is refused everywhere but as a bound;
- `SymbolsAreExported`: the walk that goes from the outside in, with a prefix and the class it
  is in, finds what `Contract` describes from the inside out, as chains, but for the chains
  through a namespace `A.B`, of which it finds none. `DescribedUnder` and
  the lemmas on it say what a chain becomes under one more declaration.

A CHOOSE says nothing of a recursive function until one is known to exist. Each one here
depends, at a tree, only on its values at the parts of the tree, so one exists up to any
height; the lemmas `...Is` (`LinksIs` and its like) give the equation. Facts about
all trees are then proved by the least counterexample in the height, like those about
sequences.

`AnalysisProviderProofs` proves, for every list of source files, all contents, tokens,
jobs and retries, and any number of faults (`ProviderAssumption`, `ExtractorAssumption`,
`CatalogAssumption`, `SyntaxAssumption`):

- `Invariance`: `Spec => []Inv`, and from it `TypeCorrect`. `TypeInv` has the exact types, of
  which `TypeOK` is what TLC can enumerate. `PipeInv` says for each place of the client
  where the tool is, whether it has the request and whether its stdin is closed, and that a
  reply or what the tool has written is a `GoodReply`: whole and complete, or without any
  functions. `WorkInv`: unless it has met something fatal, the tool has what is asked of
  each file it is done with (`Covers`). `L1Inv`: the client works on the probe, or on the
  file after the last that was answered. `ScanInv`: the sites are those of the finished files that had
  tokens, and of the present one as far as its token; after the server is lost, of all but
  at most one. The parts
  need each other: an answer of symbol extraction is that of its file because the request
  was for that file, and the tool's output belongs to that request because the client starts
  the tool anew for each;
- `AnswersAreWhole`: `Spec => []AllOrNothing`, from `GoodReply` and `Covers`;
- `LossesAreRecorded`: `Spec => []UnsupportedIsRecorded`. The last body of each name is the
  one that `CollectFunctions` keeps, whose lift is in the answer; `LiftIsRecorded` is
  the rest, its exceptions included;
- `TypesAreThere`: `Spec => []TypesAreComplete`. The walk finds each type that is
  not `InDotted`, and at most one `extends` clause of a class gives a class base;
- `SymbolsAreSaid`: `Spec => []SymbolsAreExactOrSaid`, with `SymbolsAreExported`: exported
  symbols only, and all that are not `InDotted`;
- `DeepCheckIsHonest`: `Spec => []L2IsHonest`, from `ScanInv` when the last file is done;
- `LevelsAlwaysAgree`: `Spec => []LevelsAgree`. `TheTablesAgree` goes through the
  tables by the number of parts of their entries, since the whitelist matches any prefix of
  a name.

Only model-checked: liveness (`SearchEnds`, `EndsOrWaits`, `CheckEnds`), since the prover
handles neither fairness nor ENABLED; `LiftIsFaithful`, since `Meaning` evaluates programs with
loops and effects by RECURSIVE operators, which the prover does not read; and the violations.

## Not modelled

For good: plugin registration, template text, the check runner's registration, launchers,
CMake and profile fixtures (no state); diagnostics' wording; topo-core, topo-v8, tsserver
and Node themselves, beyond what the code here uses of them.

Parts of modelled components, and why:

- *Debug adapter*: the last resort `run().catch` (617-620), which ends with code 3 and does
  not kill the child, and the throws that lead there (a synchronous one of `spawn` at 295,
  `new WebSocket` at 360, `pathToFileURL` at 390 and 398): no input of the model makes them
  throw. An `error` event of stdout (its reader is gone) and the adapter's own death by a
  signal, which nothing in the code handles. `NoOrphan` says nothing of these.
- *Configuration*: the dev-internal catalogue of `_config_model.mjs` (data about the
  product's own keys), and a configuration without a path.
- *Framework*: the constant `Topo.toml`, the copy that `emitTopo(path)` writes for the user
  (one call of `writeFileSync`, nothing reads it back), the barrel `index.mjs`; the text of
  names; records nested deeper than two (each level is taken apart like the one above).
- *Extractor*: text and line numbers of nodes, so `IsSelfUpdate` compares trees where the code
  compares `getText()` (197: with other white space inside, the code refuses), and a method
  with a computed or private name, which the code collects under its text (480), is `""` in
  `BodiesBy`; `==` is taken for `===`, as the lift does
  (the values of `Meaning` are numbers, on which both agree); rest and optional
  parameters, `?.[]`, generators and labelled `break` (forms with a note of their own or
  without a meaning in the model).
- *Provider*: answers of the tool that are JSON but no answer (it never sends one);
  `checkContainment` and the regex extractors, which are outside this repository; duplicate
  call sites, document symbols and callers' names (what a call site is called); the walk of
  the source directory (its result is the constant `SourceFiles`).
