--------------------------- MODULE AnalysisProvider ---------------------------
(***************************************************************************)
(* A topo-check of TypeScript sources, as the classes under                *)
(* src/topo-check/analysis do it, over the extractor process:              *)
(*   - TypeScriptAnalysisProvider chooses the symbol extractor by a probe; *)
(*   - TypeScriptASTSymbolExtractor runs the tool once for each file, over *)
(*     two pipes;                                                          *)
(*   - TypeScriptSafetyAnalyzer asks a language server for the calls of    *)
(*     each file and classifies them.                                      *)
(* A transpile driver may use the tool instead; it is outside src/ and is  *)
(* modelled by the request it sends.                                       *)
(***************************************************************************)
EXTENDS Extractor, Catalog, Contract

CONSTANTS
    SourceFiles,    \* collectSourceFiles: the sorted list of Files
    Jobs,           \* pairs <<content, request>>; NoRequest is a check
    Tokens,         \* the semantic tokens of each file, in order
    MaxRetries      \* token requests after the first (3 in the code)

(* A lift names files and functions; a check starts without a request.     *)
ASSUME ProviderAssumption ==
    /\ SourceFiles \in Seq(Files)
    /\ MaxRetries \in Nat
    /\ {job[1] : job \in Jobs} \subseteq [Files -> Contents]
    /\ \A job \in Jobs :
         /\ job[2].files \in Seq(Files) /\ job[2].functions \subseteq Names
         /\ job[2] \in {NoRequest, Request("transpile", job[2].files, job[2].functions)}
    /\ Tokens \in
         [Files -> Seq([isCall : BOOLEAN, name : Names, module : Names])]

VARIABLES
    client,     \* the side of the pipes that started the tool
    installed,  \* is the launcher on PATH
    l1,         \* symbol extraction
    server,     \* language server: "off", "up", "down"
    l2          \* deep containment

vars == << toolVars, client, installed, l1, server, l2 >>

NoClient == [pc |-> "idle", request |-> NoRequest, reply |-> NoOut]
Pending(request) == [NoClient EXCEPT !.pc = "start", !.request = request]

(* answers holds, for each file done, who answered and with what.          *)
NoL1 == [pc |-> "off", extractor |-> "none", answers |-> <<>>, warned |-> FALSE]

NoL2 == [pc |-> "off", file |-> 1, tries |-> 0, token |-> 1, hover |-> FALSE,
         sites |-> {}, empty |-> {}, open |-> FALSE, said |-> {}]

Init ==
    /\ ToolInit
    /\ \E job \in Jobs :
         /\ content = job[1]
         /\ client = IF job[2] = NoRequest THEN NoClient ELSE Pending(job[2])
    /\ installed \in BOOLEAN
    /\ l1 = NoL1
    /\ server = "off"
    /\ l2 = NoL2

-----------------------------------------------------------------------------
(* runTool: start, write, close, read to the end.                          *)

Step(pc) == client.pc = pc /\ UNCHANGED << content, present, faults, installed,
                                           l1, server, l2 >>

Start ==
    /\ Step("start")
    /\ IF installed
       THEN /\ tool' = Started
            /\ client' = [client EXCEPT !.pc = "write"]
       ELSE /\ client' = [client EXCEPT !.pc = "got"]
            /\ UNCHANGED tool

(* A write to a child that is gone fails: proc.stop() and no answer.       *)
Write ==
    /\ Step("write")
    /\ IF tool.pc = "exited"
       THEN client' = [client EXCEPT !.pc = "got"] /\ UNCHANGED tool
       ELSE /\ tool' = [tool EXCEPT !.request = client.request]
            /\ client' = [client EXCEPT !.pc = "close"]

(* It is left open while the answer is read.                               *)
CloseStdinLater ==
    /\ Step("close")
    /\ client' = [client EXCEPT !.pc = "read"]
    /\ UNCHANGED tool

CloseStdin ==
    /\ Step("close")
    /\ tool' = [tool EXCEPT !.closed = TRUE]
    /\ client' = [client EXCEPT !.pc = "read"]

(* read() returns 0 only when the child has closed its end.                *)
Drain ==
    /\ Step("read")
    /\ tool.pc = "exited"
    /\ client' = [client EXCEPT !.pc = "got", !.reply = tool.out]
    /\ UNCHANGED tool

ClientStep == Start \/ Write \/ CloseStdin \/ Drain

(* The caller has the answer; the process is reaped.                       *)
Taken == client.pc = "got" /\ client' = NoClient /\ tool' = NoTool

(* What the client makes of an answer: a document that does not parse, or  *)
(* none, has no symbols.                                                   *)
SymbolsOf(reply) == IF reply.form = "whole" THEN reply.symbols ELSE <<>>

-----------------------------------------------------------------------------
(* L1: createSymbolExtractor, then extractSymbols file by file.            *)

Done(answers) == Len(answers) = Len(SourceFiles)

Probe ==
    /\ l1.pc = "off" /\ client = NoClient /\ tool = NoTool
    /\ client' = Pending(Request("symbols", <<>>, {}))
    /\ l1' = [l1 EXCEPT !.pc = "probing"]
    /\ UNCHANGED << toolVars, installed, server, l2 >>

Choose ==
    /\ l1.pc = "probing" /\ Taken
    /\ LET available == client.reply.form = "whole" /\ client.reply.symbols = <<>>
       IN  l1' = [l1 EXCEPT !.pc = "extracting",
                            !.extractor = IF available THEN "ast" ELSE "regex",
                            !.warned = ~available]
    /\ UNCHANGED << content, present, faults, installed, server, l2 >>

AskTool ==
    /\ l1.pc = "extracting" /\ l1.extractor = "ast"
    /\ client = NoClient /\ ~Done(l1.answers)
    /\ client' = Pending(Request("symbols",
                   << SourceFiles[Len(l1.answers) + 1] >>, {}))
    /\ UNCHANGED << toolVars, installed, l1, server, l2 >>

TakeSymbols ==
    /\ l1.pc = "extracting" /\ Taken
    /\ l1' = [l1 EXCEPT !.answers = Append(@,
                [by |-> "ast", symbols |-> SymbolsOf(client.reply)])]
    /\ UNCHANGED << content, present, faults, installed, server, l2 >>

(* The regex extractor is outside src/: whatever it finds is heuristic.    *)
AskRegex ==
    /\ l1.pc = "extracting" /\ l1.extractor = "regex"
    /\ ~Done(l1.answers)
    /\ l1' = [l1 EXCEPT !.answers = Append(@, [by |-> "regex", symbols |-> <<>>])]
    /\ UNCHANGED << toolVars, client, installed, server, l2 >>

EndL1 ==
    /\ l1.pc = "extracting" /\ Done(l1.answers) /\ client = NoClient
    /\ l1' = [l1 EXCEPT !.pc = "done"]
    /\ l2' = [l2 EXCEPT !.pc = "starting"]
    /\ UNCHANGED << toolVars, client, installed, server >>

-----------------------------------------------------------------------------
(* L2: runDeepContainment.                                                 *)

L2Step == l1.pc = "done" /\ UNCHANGED << toolVars, client, installed, l1 >>

Say(what) == [l2 EXCEPT !.pc = "done", !.said = @ \cup what]

(* The patterns are found or not, the server starts or not.                *)
StartServer ==
    /\ L2Step /\ l2.pc = "starting"
    /\ \/ server' = "up" /\ l2' = [l2 EXCEPT !.pc = "files"]
       \/ l2' = Say({"unavailable"}) /\ UNCHANGED server

ThisL2File == SourceFiles[l2.file]

OpenDocument ==
    /\ L2Step /\ l2.pc = "files" /\ l2.file <= Len(SourceFiles)
    /\ l2' = [l2 EXCEPT !.pc = "tokens", !.open = TRUE, !.tries = 0]
    /\ UNCHANGED server

NextFile(s) == [s EXCEPT !.pc = "files", !.open = FALSE, !.file = @ + 1,
                         !.token = 1, !.hover = FALSE]

(* One try too many.                                                       *)
GetTokensOnceMore ==
    /\ L2Step /\ l2.pc = "tokens"
    /\ \/ server = "up" /\ l2' = [l2 EXCEPT !.pc = "calls"]
       \/ l2' = IF l2.tries <= MaxRetries
                THEN [l2 EXCEPT !.tries = @ + 1]
                ELSE NextFile([l2 EXCEPT !.empty = @ \cup {l2.file}])
    /\ UNCHANGED server

(* Tokens may not be ready yet; an empty file has none to give.            *)
GetTokens ==
    /\ L2Step /\ l2.pc = "tokens"
    /\ \/ /\ server = "up" /\ Tokens[ThisL2File] # <<>>
          /\ l2' = [l2 EXCEPT !.pc = "calls"]
       \/ l2' = IF l2.tries < MaxRetries
                THEN [l2 EXCEPT !.tries = @ + 1]
                ELSE NextFile([l2 EXCEPT !.empty = @ \cup {l2.file}])
    /\ UNCHANGED server

(* A token is a call or not; it has the name its hover gives, and the      *)
(* module its definition belongs to (<<>> for none of Node's).             *)
MoreTokens == l2.token <= Len(Tokens[ThisL2File])
ThisToken == Tokens[ThisL2File][l2.token]
NextToken(s) == [s EXCEPT !.token = @ + 1, !.hover = FALSE]

(* Not a call, no hover, no name: the token is passed over.                *)
Hover ==
    /\ L2Step /\ l2.pc = "calls" /\ MoreTokens /\ ~l2.hover
    /\ l2' = IF ThisToken.isCall /\ server = "up" /\ ThisToken.name # <<>>
             THEN [l2 EXCEPT !.hover = TRUE] ELSE NextToken(l2)
    /\ UNCHANGED server

(* A bare name is looked up in its module, if the definition is found.     *)
QualifiedName(token, found) ==
    IF Len(token.name) = 1 /\ found THEN token.module \o token.name ELSE token.name

Classify ==
    /\ L2Step /\ l2.pc = "calls" /\ l2.hover
    /\ LET level == ClassifyCallSite(QualifiedName(ThisToken, server = "up"))
       IN  l2' = NextToken(IF level = "" THEN l2 ELSE
                   [l2 EXCEPT !.sites = @ \cup {<< l2.file, l2.token, level >>}])
    /\ UNCHANGED server

CloseDocument ==
    /\ L2Step /\ l2.pc = "calls" /\ ~MoreTokens
    /\ l2' = NextFile(l2)
    /\ UNCHANGED server

(* L2 counts as run whatever it saw.                                       *)
EndL2Anyway ==
    /\ L2Step /\ l2.pc = "files" /\ l2.file > Len(SourceFiles)
    /\ l2' = Say({"completed"})
    /\ UNCHANGED server

(* No tokens anywhere: L2 did not run, and L1 decides.                     *)
EndL2 ==
    /\ L2Step /\ l2.pc = "files" /\ l2.file > Len(SourceFiles)
    /\ l2' = IF SourceFiles # <<>> /\ Cardinality(l2.empty) = Len(SourceFiles)
             THEN Say({"no tokens"})
             ELSE Say({"completed"} \cup IF l2.empty = {} THEN {} ELSE {"not analyzed"})
    /\ UNCHANGED server

ProviderStep ==
    \/ Probe \/ Choose \/ AskTool \/ TakeSymbols \/ AskRegex
    \/ EndL1 \/ StartServer \/ OpenDocument \/ GetTokens \/ Hover \/ Classify
    \/ CloseDocument \/ EndL2

-----------------------------------------------------------------------------
ServerDies ==
    /\ server = "up" /\ l2.pc # "done" /\ faults < MaxFaults
    /\ server' = "down"
    /\ faults' = faults + 1
    /\ UNCHANGED << content, present, tool, client, installed, l1, l2 >>

ToolFault ==
    /\ ToolDies \/ FileVanishes
    /\ UNCHANGED << client, installed, l1, server, l2 >>

ToolWorks == ToolStep /\ UNCHANGED << client, installed, l1, server, l2 >>

Next ==
    \/ ClientStep \/ ToolWorks \/ ProviderStep
    \/ ServerDies \/ ToolFault

Spec ==
    /\ Init /\ [][Next]_vars
    /\ WF_vars(ClientStep) /\ WF_vars(ToolWorks) /\ WF_vars(ProviderStep)

-----------------------------------------------------------------------------
(* Properties.                                                             *)

(* The variables hold what the code keeps in them.                         *)
TypeOK ==
    /\ present \subseteq Files
    /\ tool.pc \in {"none", "stdin", "work", "exited"}
    /\ tool.status \in {"", "0", "1", "signal"}
    /\ client.pc \in {"idle", "start", "write", "close", "read", "got"}
    /\ l1.pc \in {"off", "probing", "extracting", "done"}
    /\ l1.extractor \in {"none", "ast", "regex"}
    /\ Len(l1.answers) <= Len(SourceFiles)
    /\ server \in {"off", "up", "down"}
    /\ l2.pc \in {"off", "starting", "files", "tokens", "calls", "done"}
    /\ l2.tries \in 0 .. MaxRetries
    /\ l2.file \in 1 .. Len(SourceFiles) + 1
    /\ faults \in 0 .. MaxFaults

(* What the driver of a transpile has got.                                 *)
Lifted ==
    /\ client.pc = "got" /\ client.reply.form = "whole"
    /\ client.request.mode # "symbols"

(* The bodies asked for and found in a file (none in a namespace A.B { },  *)
(* index.mjs:466): in JavaScript the last function of a name is the one a  *)
(* call finds.                                                             *)
BodiesAsked(f) ==
    LET all == Bodies(content[f].items)
        wanted == client.request.functions
    IN  {all[i] : i \in {j \in DOMAIN all :
          /\ wanted = {} \/ all[j].qname \in wanted
          /\ \A k \in DOMAIN all : k > j => all[k].qname # all[j].qname}}

(* What is said of each body asked for and the function in the answer.     *)
ForEachLifted(Holds(_, _)) ==
    Lifted =>
      \A f \in Range(client.request.files) : \A e \in BodiesAsked(f) :
        \E i \in DOMAIN client.reply.functions :
          /\ client.reply.functions[i].qualifiedName = e.qname
          /\ Holds(client.reply.functions[i], e.item.decl)

(* "never silently dropped: the construct is recorded in the function's    *)
(* `unsupported` list and the function fidelity is downgraded"             *)
(* (index.mjs:23): only when there is a construct in the function, at any  *)
(* depth, that the answer has no node for, and whenever there is one where *)
(* the lift looks (SeenLinks) but of the four kinds it overlooks.          *)
UnsupportedIsRecorded == ForEachLifted(IsRecorded)

(* "refuse rather than emit a partial Model the caller can't tell is       *)
(* incomplete" (index.mjs:1134): the caller has all functions it asked for *)
(* of files that parse, or nothing at all, whatever happened to the tool   *)
(* and its files on the way.                                               *)
AllOrNothing ==
    client.pc = "got" /\ client.request.mode # "symbols" =>
      \/ client.reply.form # "whole" /\ client.reply.functions = <<>>
      \/ /\ \A f \in Range(client.request.files) : ~content[f].broken
         /\ client.request.functions \subseteq
              {fn.qualifiedName : fn \in Range(client.reply.functions)}

(* The types of every file, but those in a namespace A.B { }, are in an    *)
(* answer, whichever functions were asked for (index.mjs:1124), and a type *)
(* from an interface "carries no Class base" (index.mjs:538), while a      *)
(* class has at most one.                                                  *)
TypesAreComplete ==
    Lifted =>
      \A f \in Range(client.request.files) :
      \A c \in TypesIn(content[f].items) :
        \/ InDotted(c)
        \/ \E i \in DOMAIN client.reply.types :
             LET type == client.reply.types[i]
                 classes == {b \in DOMAIN type.bases : type.bases[b].kind = "class"}
             IN  /\ type.qualifiedName = NamesIn(c)
                 /\ Cardinality(classes) <= IF Last(c).kind = "class" THEN 1 ELSE 0

(* Worked out once for each content.                                       *)
ExportedOf == [c \in Contents |-> {Described(x) : x \in Exported(c.items)}]
InReachOf ==
    [c \in Contents |-> {Described(x) : x \in {y \in Exported(c.items) : ~InDotted(y)}}]

FoundIn(answer) ==
    {<< s.qualifiedName, s.enclosingClass, s.visibility >> : s \in Range(answer.symbols)}

(* The completeness check works on exported symbols only, and on all of    *)
(* each file but those in a namespace A.B { }, or the user has been told   *)
(* that it does not - but for a file whose extraction failed after the     *)
(* probe succeeded: it counts as one without symbols, and nothing is said  *)
(* (TypeScriptASTSymbolExtractor.cpp:109).                                 *)
SymbolsAreExactOrSaid ==
    \A i \in DOMAIN l1.answers :
      LET answer == l1.answers[i]
          file == content[SourceFiles[i]]
      IN  \/ answer.by = "regex" /\ l1.warned
          \/ /\ answer.by = "ast"
             /\ FoundIn(answer) \subseteq ExportedOf[file]
             /\ InReachOf[file] \subseteq FoundIn(answer)
          \/ answer.by = "ast" /\ FoundIn(answer) = {} /\ faults > 0

(* The two promises about namespaces without that exception: the walk      *)
(* recurses "into EXPORTED namespaces so inner symbols carry the `N.`      *)
(* prefix" (index.mjs:731), and a lift has "the full type catalog"         *)
(* (index.mjs:1126).                                                       *)
NamespacesAreWalked ==
    /\ faults = 0 =>
         \A i \in DOMAIN l1.answers :
           l1.answers[i].by = "ast" =>
             ExportedOf[content[SourceFiles[i]]] \subseteq FoundIn(l1.answers[i])
    /\ Lifted =>
         \A f \in Range(client.request.files) :
           {NamesIn(c) : c \in TypesIn(content[f].items)} \subseteq
             {type.qualifiedName : type \in Range(client.reply.types)}

(* The calls of a file that the deep check reports when its server answers *)
(* everything.                                                             *)
Reportable(i) ==
    LET tokens == Tokens[SourceFiles[i]]
    IN  {<< i, t, ClassifyCallSite(QualifiedName(tokens[t], TRUE)) >> :
           t \in {u \in DOMAIN tokens : /\ tokens[u].isCall /\ tokens[u].name # <<>>
                    /\ ClassifyCallSite(QualifiedName(tokens[u], TRUE)) # ""}}

(* "do not pretend L2 ran" (TypeScriptSafetyAnalyzer.cpp:190): when the    *)
(* deep check says it completed, every call it would report is reported,   *)
(* or its file is among those it says were not analyzed; a lost server     *)
(* hides the calls of one file at most, the one it was lost in.            *)
L2IsHonest ==
    l2.pc = "done" =>
      LET said(i) == i \in l2.empty /\ "not analyzed" \in l2.said
          hiding == {i \in DOMAIN SourceFiles :
                       ~(Reportable(i) \subseteq l2.sites) /\ ~said(i)}
      IN  \/ l2.said \cap {"unavailable", "no tokens"} # {} /\ l2.sites = {}
          \/ /\ "completed" \in l2.said
             /\ SourceFiles # <<>> => l2.empty # DOMAIN SourceFiles
             /\ hiding # {} => server = "down" /\ Cardinality(hiding) = 1
             /\ server = "up" => l2.sites = UNION {Reportable(i) :
                                   i \in DOMAIN SourceFiles \ l2.empty}

(* Three tables say what a built-in module of Node is: a module has one    *)
(* level, whether it is imported or a member of it is called, and it is    *)
(* whitelisted when importing it is safe; no table lists a module the      *)
(* others forgot.  Otherwise the checks that go by imports and those that  *)
(* go by calls would judge the same code differently.                      *)
LevelsAgree == l2.pc # "off" => TablesAgree

(* The tool and its client never wait for each other for good: a run of    *)
(* the tool ends, and so does the whole check, whatever fails.             *)
CheckEnds ==
    <>(l2.pc = "done" \/ (l1.pc = "off" /\ client.pc = "got"))

=============================================================================
