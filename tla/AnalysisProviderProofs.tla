------------------------ MODULE AnalysisProviderProofs ------------------------
(***************************************************************************)
(* Theorems about AnalysisProvider: its safety properties hold for every   *)
(* list of source files, every content of theirs, every token list and     *)
(* every number of faults and retries.                                     *)
(*                                                                         *)
(* Inv, the inductive invariant, says where the two sides of the pipes are *)
(* and what a reply holds (PipeInv), how much of a request the tool has    *)
(* done (WorkInv), whose answers symbol extraction has (L1Inv), and what   *)
(* the deep check has seen of the files before the one it is at (L2Inv).   *)
(* That an answer is right once it is there needs the theorems of          *)
(* ContractProofs about the walks and lifts it is made of.                 *)
(***************************************************************************)
EXTENDS AnalysisProvider, ContractProofs

-----------------------------------------------------------------------------
(* The invariant.                                                          *)

FunctionRecords == {LiftFunction(qname, d) : qname \in Names, d \in Decls}

Requests ==
    [valid : BOOLEAN, mode : {"", "symbols", "transpile"}, files : Seq(Files),
     functions : SUBSET Names]

Outs ==
    [form : {"none", "partial", "whole"}, functions : Seq(FunctionRecords),
     types : Seq(TypeRecords), symbols : Seq(SymbolRecords)]

Tools ==
    [pc : {"none", "stdin", "work", "exited"}, request : Requests, closed : BOOLEAN,
     done : Nat, functions : Seq(FunctionRecords), types : Seq(TypeRecords),
     symbols : Seq(SymbolRecords), fatal : BOOLEAN,
     status : {"", "0", "1", "signal"}, out : Outs]

Clients ==
    [pc : {"idle", "start", "write", "close", "read", "got"}, request : Requests, reply : Outs]

L1s ==
    [pc : {"off", "probing", "extracting", "done"}, extractor : {"none", "ast", "regex"},
     answers : Seq([by : {"ast", "regex"}, symbols : Seq(SymbolRecords)]), warned : BOOLEAN]

CallSites == Nat \X Nat \X {"", "escape", "input", "system"}

L2s ==
    [pc : {"off", "starting", "files", "tokens", "calls", "done"},
     file : 1 .. Len(SourceFiles) + 1, tries : 0 .. MaxRetries, token : Nat \ {0},
     hover : BOOLEAN, sites : SUBSET CallSites, empty : SUBSET Nat, open : BOOLEAN,
     said : SUBSET {"unavailable", "no tokens", "completed", "not analyzed"}]

TypeInv ==
    /\ content \in [Files -> Contents]
    /\ present \in SUBSET Files
    /\ tool \in Tools
    /\ faults \in 0 .. MaxFaults
    /\ client \in Clients
    /\ installed \in BOOLEAN
    /\ l1 \in L1s /\ Len(l1.answers) <= Len(SourceFiles)
    /\ server \in {"off", "up", "down"}
    /\ l2 \in L2s

(* A request the provider or a driver sends.                               *)
IsRequest(r) ==
    /\ r.valid
    /\ \/ r.mode = "transpile"
       \/ r.mode = "symbols" /\ r.functions = {} /\ Len(r.files) <= 1

(* A file is in an answer: it parses, and its functions that are asked for *)
(* and its types are there.                                                *)
Covers(request, functions, types, f) ==
    /\ ~content[f].broken
    /\ \A fn \in Range(LiftedFunctions[content[f]]) :
         (request.functions = {} \/ fn.qualifiedName \in request.functions)
           => fn \in Range(functions)
    /\ Range(LiftedTypes[content[f]]) \subseteq Range(types)

Complete(request, out) ==
    /\ \A f \in Range(request.files) : Covers(request, out.functions, out.types, f)
    /\ request.functions \subseteq {fn.qualifiedName : fn \in Range(out.functions)}

(* The symbols of the one file asked for, or none since it could not be    *)
(* read.                                                                   *)
AreSymbolsOf(files, symbols) ==
    \/ symbols = <<>> /\ (faults > 0 \/ files = <<>>)
    \/ files # <<>> /\ symbols = FoundSymbols[content[files[1]]]

GoodReply(request, out) ==
    /\ out.form # "whole" => /\ out.functions = <<>> /\ out.symbols = <<>>
                             /\ request.mode = "symbols" => faults > 0
    /\ out.form = "whole" =>
         IF request.mode = "symbols" THEN AreSymbolsOf(request.files, out.symbols)
                                     ELSE Complete(request, out)

(* What the tool has done of a request.                                    *)
WorkInv ==
    /\ tool.done <= Len(tool.request.files)
    /\ tool.request.mode # "symbols" /\ ~tool.fatal =>
         \A i \in 1 .. tool.done :
           Covers(tool.request, tool.functions, tool.types, tool.request.files[i])
    /\ tool.request.mode = "symbols" =>
         /\ ~tool.fatal
         /\ tool.done = 0 => tool.symbols = <<>>
         /\ tool.done > 0 => AreSymbolsOf(tool.request.files, tool.symbols)

(* Where the two sides of the pipes are.                                   *)
PipeInv ==
    /\ present # Files => faults > 0
    /\ client.pc = "idle" => client = NoClient /\ tool = NoTool
    /\ client.pc # "idle" => IsRequest(client.request)
    /\ client.pc = "start" => tool = NoTool
    /\ client.pc # "got" => client.reply = NoOut
    /\ client.pc \in {"write", "close", "read"} => installed
    /\ client.pc = "write" =>
         tool.pc \in {"stdin", "exited"} /\ tool.request = NoRequest /\ ~tool.closed
    /\ client.pc = "close" =>
         tool.pc \in {"stdin", "exited"} /\ tool.request = client.request /\ ~tool.closed
    /\ client.pc = "read" =>
         tool.pc \in {"stdin", "work", "exited"} /\ tool.request = client.request /\ tool.closed
    /\ client.pc = "got" =>
         /\ tool.pc \in {"none", "exited"}
         /\ \/ ~installed /\ client.reply = NoOut
            \/ installed /\ GoodReply(client.request, client.reply)
    /\ client.pc \in {"write", "close"} /\ tool.pc = "exited" => faults > 0
    /\ client.pc \in {"close", "read"} /\ tool.pc = "exited" =>
         GoodReply(client.request, tool.out)
    /\ tool.pc = "stdin" =>
         tool.done = 0 /\ tool.functions = <<>> /\ tool.types = <<>> /\ tool.symbols = <<>> /\ ~tool.fatal
    /\ tool.pc = "work" => WorkInv

GoodAnswer(i, answer) ==
    \/ answer.by = "regex" /\ l1.extractor = "regex"
    \/ answer.by = "ast" /\ AreSymbolsOf(<< SourceFiles[i] >>, answer.symbols)

(* How far symbol extraction is.                                           *)
L1Inv ==
    /\ l1.pc = "off" => l1 = NoL1 /\ (client.pc # "idle" => client.request.mode = "transpile")
    /\ l1.pc = "probing" =>
         /\ l1.answers = <<>> /\ client.pc # "idle"
         /\ client.request = Request("symbols", <<>>, {})
    /\ l1.pc = "extracting" =>
         /\ l1.extractor = "ast" => installed
         /\ client.pc # "idle" =>
              /\ Len(l1.answers) < Len(SourceFiles)
              /\ l1.extractor = "ast"
              /\ client.request = Request("symbols", << SourceFiles[Len(l1.answers) + 1] >>, {})
    /\ l1.pc = "done" => client.pc = "idle"
    /\ l1.extractor = "regex" => l1.warned
    /\ \A i \in DOMAIN l1.answers : GoodAnswer(i, l1.answers[i])

(* The calls of a file before a token that the deep check reports.         *)
ReportableBefore(i, token) ==
    LET tokens == Tokens[SourceFiles[i]]
    IN  {<< i, t, ClassifyCallSite(QualifiedName(tokens[t], TRUE)) >> :
           t \in {u \in DOMAIN tokens : /\ u < token
                    /\ tokens[u].isCall /\ tokens[u].name # <<>>
                    /\ ClassifyCallSite(QualifiedName(tokens[u], TRUE)) # ""}}

SitesOf(files) == UNION {Reportable(i) : i \in files}

Finished == 1 .. l2.file - 1

(* What the deep check has seen of the files before the one it is at.      *)
ScanInv ==
    /\ server \in {"up", "down"} /\ l2.said = {}
    /\ l2.empty \subseteq Finished
    /\ \A s \in l2.sites : \/ s[1] \in Finished \ l2.empty
                           \/ s[1] = l2.file /\ l2.pc = "calls"
    /\ l2.pc \in {"tokens", "calls"} => l2.file <= Len(SourceFiles)
    /\ l2.pc # "calls" => l2.token = 1 /\ ~l2.hover
    /\ l2.hover => /\ l2.token \in DOMAIN Tokens[ThisL2File]
                   /\ ThisToken.isCall /\ ThisToken.name # <<>>
    /\ server = "up" =>
         l2.sites = SitesOf(Finished \ l2.empty)
                      \cup IF l2.pc = "calls" THEN ReportableBefore(l2.file, l2.token) ELSE {}
    /\ server = "down" =>
         \E d \in 0 .. Len(SourceFiles) : /\ l2.pc = "calls" => d = l2.file
                        /\ \A i \in Finished : i \in l2.empty \/ i = d \/ Reportable(i) \subseteq l2.sites

L2Inv ==
    /\ l2.pc = "off" <=> l1.pc # "done"
    /\ l2.pc \in {"off", "starting"} => l2 = [NoL2 EXCEPT !.pc = l2.pc] /\ server = "off"
    /\ l2.pc \in {"files", "tokens", "calls"} => ScanInv
    /\ L2IsHonest

Inv == TypeInv /\ PipeInv /\ L1Inv /\ L2Inv

-----------------------------------------------------------------------------
(* What the walks over a file return.                                      *)

LEMMA ContentParts ==
    ASSUME NEW c \in Contents
    PROVE  /\ c.items \in Statements /\ c.items \in Seq(Items)
           /\ c.broken \in BOOLEAN
BY ExtractorAssumption DEF ExtractorAssumption, Statements

LEMMA FunctionNamed ==
    \A qname, d : LiftFunction(qname, d).qualifiedName = qname
BY DEF LiftFunction

LEMMA LiftedIs ==
    ASSUME NEW c \in Contents
    PROVE  /\ LiftedFunctions[c] =
                [i \in DOMAIN CollectFunctions(c.items) |->
                   LiftFunction(CollectFunctions(c.items)[i].qname,
                                CollectFunctions(c.items)[i].item.decl)]
           /\ LiftedFunctions[c] \in Seq(FunctionRecords)
           /\ LiftedTypes[c] = CollectTypes(c.items)
           /\ LiftedTypes[c] \in Seq(TypeRecords)
           /\ FoundSymbols[c] = Symbols(c.items)
           /\ FoundSymbols[c] \in Seq(SymbolRecords)
<1>1. c.items \in Statements /\ c.items \in Seq(Items)
    BY ContentParts
<1>2. PICK found : found = CollectFunctions(c.items)
    OBVIOUS
<1>3. found \in Seq(BodyEntries)
    BY <1>1, <1>2, CollectedFunctions
<1>4. LiftedFunctions[c] =
        [i \in DOMAIN found |-> LiftFunction(found[i].qname, found[i].item.decl)]
    BY <1>2 DEF LiftedFunctions
<1>5. ASSUME NEW i \in DOMAIN found
      PROVE  LiftFunction(found[i].qname, found[i].item.decl) \in FunctionRecords
    <2>1. found[i] \in BodyEntries
        BY <1>3
    <2>2. found[i].qname \in Names /\ found[i].item \in Items
        BY <2>1 DEF BodyEntries
    <2>3. found[i].item.decl \in Decls
        BY <2>2, ItemParts
    <2> QED
        BY <2>2, <2>3 DEF FunctionRecords
<1>6. DOMAIN found = 1 .. Len(found) /\ Len(found) \in Nat
    BY <1>3
<1>7. LiftedFunctions[c] \in Seq(FunctionRecords)
    BY <1>4, <1>5, <1>6, IsSequence
<1>8. LiftedTypes[c] = CollectTypes(c.items) /\ FoundSymbols[c] = Symbols(c.items)
    BY DEF LiftedTypes, FoundSymbols
<1>9. CollectTypes(c.items) \in Seq(TypeRecords)
    BY <1>1, CollectedTypes
<1>10. Symbols(c.items) \in Seq(SymbolRecords)
    BY <1>1, SymbolsAreExported
<1> QED
    BY <1>2, <1>4, <1>7, <1>8, <1>9, <1>10

(* What LiftFile adds to the functions of an answer.                       *)
Chosen(lifted, functions) ==
    FlattenSeq([i \in DOMAIN lifted |->
      IF functions = {} \/ lifted[i].qualifiedName \in functions THEN << lifted[i] >> ELSE <<>>])

LEMMA ChosenFunctions ==
    ASSUME NEW lifted \in Seq(FunctionRecords), NEW functions
    PROVE  /\ Chosen(lifted, functions) \in Seq(FunctionRecords)
           /\ \A fn \in Range(lifted) :
                functions = {} \/ fn.qualifiedName \in functions
                  => fn \in Range(Chosen(lifted, functions))
<1>1. PICK m \in Nat : m = Len(lifted)
    OBVIOUS
<1>2. DOMAIN lifted = 1 .. m
    BY <1>1
<1>3. PICK J \in SUBSET (1 .. m) : \A i \in 1 .. m :
        i \in J <=> functions = {} \/ lifted[i].qualifiedName \in functions
    <2>1. \A i \in 1 .. m :
            i \in {j \in 1 .. m : functions = {} \/ lifted[j].qualifiedName \in functions}
              <=> functions = {} \/ lifted[i].qualifiedName \in functions
        OBVIOUS
    <2> QED
        BY <2>1
<1>4. PICK seqs : seqs = [i \in DOMAIN lifted |->
        IF functions = {} \/ lifted[i].qualifiedName \in functions THEN << lifted[i] >> ELSE <<>>]
    OBVIOUS
<1>5. seqs = [i \in 1 .. m |-> seqs[i]]
    BY <1>2, <1>4
<1>6. \A i \in 1 .. m : (i \in J => seqs[i] = << lifted[i] >>) /\ (i \notin J => seqs[i] = <<>>)
    BY <1>2, <1>3, <1>4
<1>7. \A i \in J : lifted[i] \in FunctionRecords
    BY <1>2, <1>3
<1>8. FlattenSeq(seqs) \in Seq(FunctionRecords) /\ IsChosen(FlattenSeq(seqs), lifted, J)
    BY <1>5, <1>6, <1>7, ChosenRange
<1>9. Chosen(lifted, functions) = FlattenSeq(seqs)
    BY <1>4 DEF Chosen
<1>10. Range(FlattenSeq(seqs)) = {lifted[i] : i \in J}
    BY <1>8 DEF IsChosen
<1>11. \A fn \in Range(lifted) : \E i \in 1 .. m : fn = lifted[i]
    BY <1>2 DEF Range
<1> QED
    BY <1>3, <1>8, <1>9, <1>10, <1>11

-----------------------------------------------------------------------------
(* The initial states.                                                     *)

LEMMA JobParts ==
    ASSUME NEW job \in Jobs
    PROVE  /\ job[1] \in [Files -> Contents]
           /\ job[2].files \in Seq(Files) /\ job[2].functions \subseteq Names
           /\ \/ job[2] = NoRequest
              \/ job[2] = Request("transpile", job[2].files, job[2].functions)
BY ProviderAssumption DEF ProviderAssumption

LEMMA NoneAreTyped ==
    /\ NoRequest \in Requests /\ NoOut \in Outs /\ NoTool \in Tools /\ NoClient \in Clients
    /\ NoL1 \in L1s /\ NoL2 \in L2s /\ Started \in Tools
    /\ Len(SourceFiles) \in Nat
<1>1. NoRequest \in Requests
    BY DEF NoRequest, Requests
<1>2. NoOut \in Outs
    BY DEF NoOut, Outs
<1>3. NoTool \in Tools /\ Started \in Tools
    <2>1. NoTool \in Tools
        BY <1>1, <1>2 DEF NoTool, Tools
    <2> QED
        BY <2>1 DEF Started, Tools
<1>4. NoClient \in Clients
    BY <1>1, <1>2 DEF NoClient, Clients
<1>5. NoL1 \in L1s
    BY DEF NoL1, L1s
<1>6. Len(SourceFiles) \in Nat /\ MaxRetries \in Nat
    BY ProviderAssumption DEF ProviderAssumption
<1>7. NoL2 \in L2s
    BY <1>6 DEF NoL2, L2s
<1> QED
    BY <1>1, <1>2, <1>3, <1>4, <1>5, <1>6, <1>7

LEMMA Requested ==
    ASSUME NEW mode \in {"symbols", "transpile"}, NEW files \in Seq(Files),
           NEW functions \in SUBSET Names
    PROVE  /\ Request(mode, files, functions) \in Requests
           /\ Pending(Request(mode, files, functions)) \in Clients
           /\ Pending(Request(mode, files, functions)).pc = "start"
           /\ Pending(Request(mode, files, functions)).reply = NoOut
           /\ Pending(Request(mode, files, functions)).request
                = Request(mode, files, functions)
<1>1. Request(mode, files, functions) \in Requests
    BY DEF Request, Requests
<1> QED
    BY <1>1, NoneAreTyped DEF Pending, NoClient, Clients

LEMMA InitHolds == Init => Inv
<1> SUFFICES ASSUME Init PROVE Inv
    OBVIOUS
<1>1. PICK job \in Jobs : /\ content = job[1]
         /\ client = IF job[2] = NoRequest THEN NoClient ELSE Pending(job[2])
    BY DEF Init
<1>2. content \in [Files -> Contents]
    BY <1>1, JobParts
<1>3. \/ client = NoClient
      \/ /\ client \in Clients /\ client.pc = "start" /\ client.reply = NoOut
         /\ client.request.valid /\ client.request.mode = "transpile"
    <2>1. CASE job[2] = NoRequest
        BY <1>1, <2>1
    <2>2. CASE job[2] # NoRequest
        <3>1. PICK files \in Seq(Files), functions \in SUBSET Names :
                job[2] = Request("transpile", files, functions)
            BY <2>2, JobParts
        <3>2. client = Pending(Request("transpile", files, functions))
            BY <1>1, <2>2, <3>1
        <3>3. /\ client \in Clients /\ client.pc = "start" /\ client.reply = NoOut
              /\ client.request = Request("transpile", files, functions)
            BY <3>2, Requested
        <3> QED
            BY <3>3 DEF Request
    <2> QED
        BY <2>1, <2>2
<1>4. client \in Clients
    BY <1>3, NoneAreTyped
<1>5. /\ present = Files /\ tool = NoTool /\ faults = 0
      /\ installed \in BOOLEAN /\ l1 = NoL1 /\ server = "off" /\ l2 = NoL2
    BY DEF Init, ToolInit
<1>6. TypeInv
    BY <1>2, <1>4, <1>5, NoneAreTyped, ExtractorAssumption DEF TypeInv, ExtractorAssumption, NoL1
<1>7. PipeInv
    <2>1. tool.pc = "none"
        BY <1>5 DEF NoTool
    <2>2. /\ client.pc \in {"idle", "start"} /\ client.reply = NoOut
          /\ client.pc = "idle" => client = NoClient
          /\ client.pc # "idle" => client.request.valid /\ client.request.mode = "transpile"
        BY <1>3 DEF NoClient
    <2> QED
        BY <1>5, <2>1, <2>2 DEF PipeInv, IsRequest
<1>8. L1Inv
    BY <1>3, <1>5 DEF L1Inv, NoL1, NoClient
<1>9. L2Inv
    BY <1>5 DEF L2Inv, NoL1, NoL2, L2IsHonest
<1> QED
    BY <1>6, <1>7, <1>8, <1>9 DEF Inv

-----------------------------------------------------------------------------
(* What stays as it is.                                                    *)

Later == content' = content /\ (faults > 0 => faults' > 0)

LEMMA SymbolsStay ==
    ASSUME Later, NEW files, NEW symbols, AreSymbolsOf(files, symbols)
    PROVE  AreSymbolsOf(files, symbols)'
BY DEF AreSymbolsOf, Later

LEMMA CoverStays ==
    ASSUME Later, NEW request, NEW functions, NEW types, NEW f,
           Covers(request, functions, types, f)
    PROVE  Covers(request, functions, types, f)'
BY DEF Covers, Later

LEMMA ReplyStays ==
    ASSUME Later, NEW request, NEW out, GoodReply(request, out)
    PROVE  GoodReply(request, out)'
BY DEF GoodReply, Complete, AreSymbolsOf, Covers, Later

LEMMA L2Stays ==
    ASSUME L2Inv, UNCHANGED << l1, server, l2 >>
    PROVE  L2Inv'
BY DEF L2Inv, ScanInv, L2IsHonest, Finished, ThisToken, ThisL2File

LEMMA L1Stays ==
    ASSUME L1Inv, Later, UNCHANGED << installed, l1 >>,
           client'.pc = "idle" <=> client.pc = "idle", client'.request = client.request
    PROVE  L1Inv'
<1>1. \A i \in DOMAIN l1.answers : GoodAnswer(i, l1.answers[i])'
    <2> SUFFICES ASSUME NEW i \in DOMAIN l1.answers
                 PROVE  GoodAnswer(i, l1.answers[i])'
        OBVIOUS
    <2>1. GoodAnswer(i, l1.answers[i])
        BY DEF L1Inv
    <2> QED
        BY <2>1, SymbolsStay DEF GoodAnswer
<1> QED
    BY <1>1 DEF L1Inv

-----------------------------------------------------------------------------
(* The client's side of the pipes.                                         *)

LEMMA StepIsLater ==
    ASSUME NEW pc, Step(pc), Inv
    PROVE  /\ Later /\ L2Inv' /\ client.pc = pc
           /\ UNCHANGED << content, present, faults, installed, l1, server, l2 >>
<1>1. Later
    BY DEF Step, Later
<1>2. L2Inv'
    BY L2Stays DEF Step, Inv
<1> QED
    BY <1>1, <1>2 DEF Step

LEMMA StartHolds ==
    ASSUME Inv, Start PROVE Inv'
<1>1. /\ Later /\ L2Inv' /\ client.pc = "start"
      /\ UNCHANGED << content, present, faults, installed, l1, server, l2 >>
    BY StepIsLater DEF Start
<1>2. client \in Clients /\ tool = NoTool /\ IsRequest(client.request) /\ client.reply = NoOut
    BY <1>1 DEF Inv, TypeInv, PipeInv
<1>3. CASE installed
    <2>1. tool' = Started /\ client' = [client EXCEPT !.pc = "write"]
        BY <1>3 DEF Start
    <2>2. /\ client'.pc = "write" /\ client'.request = client.request /\ client' \in Clients
          /\ client'.reply = NoOut
        BY <1>2, <2>1 DEF Clients
    <2>3. L1Inv'
        BY <1>1, <2>2, L1Stays DEF Inv
    <2>4. TypeInv'
        BY <1>1, <2>1, <2>2, NoneAreTyped DEF Inv, TypeInv
    <2>5. /\ tool'.pc = "stdin" /\ tool'.request = NoRequest /\ ~tool'.closed /\ tool'.done = 0
          /\ tool'.functions = <<>> /\ tool'.types = <<>> /\ tool'.symbols = <<>> /\ ~tool'.fatal
        BY <2>1 DEF Started, NoTool
    <2>6. PipeInv'
        BY <1>1, <1>2, <1>3, <2>2, <2>5 DEF Inv, PipeInv, IsRequest
    <2> QED
        BY <1>1, <2>3, <2>4, <2>6 DEF Inv
<1>4. CASE ~installed
    <2>1. tool' = tool /\ client' = [client EXCEPT !.pc = "got"]
        BY <1>4 DEF Start
    <2>2. /\ client'.pc = "got" /\ client'.request = client.request /\ client' \in Clients
          /\ client'.reply = NoOut
        BY <1>2, <2>1 DEF Clients
    <2>3. L1Inv'
        BY <1>1, <2>2, L1Stays DEF Inv
    <2>4. TypeInv'
        BY <1>1, <2>1, <2>2 DEF Inv, TypeInv
    <2>5. tool'.pc = "none"
        BY <1>2, <2>1 DEF NoTool
    <2>6. PipeInv'
        BY <1>1, <1>2, <1>4, <2>2, <2>5 DEF Inv, PipeInv, IsRequest
    <2> QED
        BY <1>1, <2>3, <2>4, <2>6 DEF Inv
<1> QED
    BY <1>3, <1>4

LEMMA WriteHolds ==
    ASSUME Inv, Write PROVE Inv'
<1>1. /\ Later /\ L2Inv' /\ client.pc = "write"
      /\ UNCHANGED << content, present, faults, installed, l1, server, l2 >>
    BY StepIsLater DEF Write
<1>2. /\ client \in Clients /\ tool \in Tools /\ client.reply = NoOut /\ installed
      /\ IsRequest(client.request) /\ tool.pc \in {"stdin", "exited"} /\ ~tool.closed
      /\ tool.pc = "exited" => faults > 0
    BY <1>1 DEF Inv, TypeInv, PipeInv
<1>3. CASE tool.pc = "exited"
    <2>1. tool' = tool /\ client' = [client EXCEPT !.pc = "got"]
        BY <1>3 DEF Write
    <2>2. /\ client'.pc = "got" /\ client'.request = client.request /\ client' \in Clients
          /\ client'.reply = NoOut
        BY <1>2, <2>1 DEF Clients
    <2>3. L1Inv'
        BY <1>1, <2>2, L1Stays DEF Inv
    <2>4. TypeInv'
        BY <1>1, <2>1, <2>2 DEF Inv, TypeInv
    <2>5. GoodReply(client.request, client.reply)'
        BY <1>1, <1>2, <1>3, <2>2 DEF GoodReply, NoOut
    <2>6. PipeInv'
        BY <1>1, <1>2, <1>3, <2>1, <2>2, <2>5 DEF Inv, PipeInv, IsRequest
    <2> QED
        BY <1>1, <2>3, <2>4, <2>6 DEF Inv
<1>4. CASE tool.pc # "exited"
    <2>1. /\ tool' = [tool EXCEPT !.request = client.request]
          /\ client' = [client EXCEPT !.pc = "close"]
        BY <1>4 DEF Write
    <2>2. /\ client'.pc = "close" /\ client'.request = client.request /\ client' \in Clients
          /\ client'.reply = NoOut
        BY <1>2, <2>1 DEF Clients
    <2>3. L1Inv'
        BY <1>1, <2>2, L1Stays DEF Inv
    <2>4. /\ tool' \in Tools /\ tool'.pc = "stdin" /\ tool'.request = client.request
          /\ ~tool'.closed /\ tool'.done = tool.done /\ tool'.functions = tool.functions
          /\ tool'.types = tool.types /\ tool'.symbols = tool.symbols /\ tool'.fatal = tool.fatal
        BY <1>2, <1>4, <2>1 DEF Tools, Clients
    <2>5. TypeInv'
        BY <1>1, <2>2, <2>4 DEF Inv, TypeInv
    <2>6. PipeInv'
        BY <1>1, <1>2, <1>4, <2>2, <2>4 DEF Inv, PipeInv, IsRequest
    <2> QED
        BY <1>1, <2>3, <2>5, <2>6 DEF Inv
<1> QED
    BY <1>3, <1>4

LEMMA CloseStdinHolds ==
    ASSUME Inv, CloseStdin PROVE Inv'
<1>1. /\ Later /\ L2Inv' /\ client.pc = "close"
      /\ UNCHANGED << content, present, faults, installed, l1, server, l2 >>
    BY StepIsLater DEF CloseStdin
<1>2. /\ client \in Clients /\ tool \in Tools /\ client.reply = NoOut /\ installed
      /\ IsRequest(client.request) /\ tool.pc \in {"stdin", "exited"}
      /\ tool.request = client.request
      /\ tool.pc = "exited" => faults > 0 /\ GoodReply(client.request, tool.out)
    BY <1>1 DEF Inv, TypeInv, PipeInv
<1>3. /\ tool' = [tool EXCEPT !.closed = TRUE]
      /\ client' = [client EXCEPT !.pc = "read"]
    BY DEF CloseStdin
<1>4. /\ client'.pc = "read" /\ client'.request = client.request /\ client' \in Clients
      /\ client'.reply = NoOut
    BY <1>2, <1>3 DEF Clients
<1>5. /\ tool' \in Tools /\ tool'.pc = tool.pc /\ tool'.request = client.request
      /\ tool'.closed /\ tool'.done = tool.done /\ tool'.functions = tool.functions
      /\ tool'.types = tool.types /\ tool'.symbols = tool.symbols /\ tool'.fatal = tool.fatal
      /\ tool'.out = tool.out
    BY <1>2, <1>3 DEF Tools
<1>6. L1Inv'
    BY <1>1, <1>4, L1Stays DEF Inv
<1>7. TypeInv'
    BY <1>1, <1>4, <1>5 DEF Inv, TypeInv
<1>8. tool'.pc = "exited" => GoodReply(client.request, tool.out)'
    BY <1>1, <1>2, <1>4, <1>5, ReplyStays
<1>9. PipeInv'
    BY <1>1, <1>2, <1>4, <1>5, <1>8 DEF Inv, PipeInv, IsRequest
<1> QED
    BY <1>1, <1>6, <1>7, <1>9 DEF Inv

LEMMA DrainHolds ==
    ASSUME Inv, Drain PROVE Inv'
<1>1. /\ Later /\ L2Inv' /\ client.pc = "read"
      /\ UNCHANGED << content, present, faults, installed, l1, server, l2 >>
    BY StepIsLater DEF Drain
<1>2. /\ client \in Clients /\ tool \in Tools /\ installed /\ tool.out \in Outs
      /\ IsRequest(client.request) /\ tool.pc = "exited"
      /\ GoodReply(client.request, tool.out)
    BY <1>1 DEF Inv, TypeInv, PipeInv, Drain, Tools
<1>3. /\ tool' = tool
      /\ client' = [client EXCEPT !.pc = "got", !.reply = tool.out]
    BY DEF Drain
<1>4. /\ client'.pc = "got" /\ client'.request = client.request /\ client' \in Clients
      /\ client'.reply = tool.out
    BY <1>2, <1>3 DEF Clients
<1>5. L1Inv'
    BY <1>1, <1>4, L1Stays DEF Inv
<1>6. TypeInv'
    BY <1>1, <1>3, <1>4 DEF Inv, TypeInv
<1>7. GoodReply(client.request, client.reply)'
    BY <1>1, <1>2, <1>4, ReplyStays
<1>8. PipeInv'
    BY <1>1, <1>2, <1>3, <1>4, <1>7 DEF Inv, PipeInv, IsRequest
<1> QED
    BY <1>1, <1>5, <1>6, <1>8 DEF Inv

-----------------------------------------------------------------------------
(* The tool.                                                               *)

LEMMA ToolFrame ==
    ASSUME Inv, Later, UNCHANGED << client, installed, l1, server, l2 >>
    PROVE  L1Inv' /\ L2Inv'
BY L1Stays, L2Stays DEF Inv

LEMMA NoToolIsNone == NoTool.pc = "none" /\ NoTool.out = NoOut
BY DEF NoTool

(* A tool that works is one whose answer is waited for.                    *)
LEMMA WorkingTool ==
    ASSUME Inv, tool.pc = "work"
    PROVE  /\ client.pc = "read" /\ client \in Clients /\ tool \in Tools /\ tool.closed
           /\ tool.request = client.request /\ IsRequest(tool.request) /\ installed
           /\ WorkInv /\ client.reply = NoOut
           /\ tool.request \in Requests /\ tool.request.files \in Seq(Files)
           /\ Len(tool.request.files) \in Nat /\ tool.done \in Nat
           /\ tool.functions \in Seq(FunctionRecords) /\ tool.types \in Seq(TypeRecords)
           /\ tool.symbols \in Seq(SymbolRecords)
<1>1. client \in Clients /\ tool \in Tools
    BY DEF Inv, TypeInv
<1>2. client.pc \in {"idle", "start", "write", "close", "read", "got"}
    BY <1>1 DEF Clients
<1>3. client.pc = "read"
    BY <1>2, NoToolIsNone DEF Inv, PipeInv
<1>4. tool.request \in Requests
    BY <1>1 DEF Tools
<1>5. tool.request.files \in Seq(Files)
    BY <1>4 DEF Requests
<1>6. /\ tool.closed /\ tool.request = client.request /\ IsRequest(tool.request) /\ installed
      /\ WorkInv /\ client.reply = NoOut
    BY <1>3 DEF Inv, PipeInv
<1>7. /\ tool.done \in Nat
      /\ tool.functions \in Seq(FunctionRecords) /\ tool.types \in Seq(TypeRecords)
      /\ tool.symbols \in Seq(SymbolRecords)
    BY <1>1 DEF Tools
<1>8. Len(tool.request.files) \in Nat
    BY <1>5
<1> QED
    BY <1>1, <1>3, <1>4, <1>5, <1>6, <1>7, <1>8

LEMMA ReadRequestHolds ==
    ASSUME Inv, ReadRequest, UNCHANGED << client, installed, l1, server, l2 >>
    PROVE  Inv'
<1>1. Later /\ UNCHANGED << content, present, faults >>
    BY DEF ReadRequest, Later
<1>2. L1Inv' /\ L2Inv'
    BY <1>1, ToolFrame
<1>3. client \in Clients /\ tool \in Tools
    BY DEF Inv, TypeInv
<1>4. client.pc \in {"idle", "start", "write", "close", "read", "got"}
    BY <1>3 DEF Clients
<1>5. tool.pc = "stdin" /\ tool.closed
    BY DEF ReadRequest
<1>6. client.pc = "read"
    BY <1>4, <1>5, NoToolIsNone DEF Inv, PipeInv
<1>7. /\ IsRequest(client.request) /\ tool.request = client.request /\ client.reply = NoOut
      /\ tool.done = 0 /\ tool.functions = <<>> /\ tool.types = <<>>
      /\ tool.symbols = <<>> /\ ~tool.fatal
    BY <1>5, <1>6 DEF Inv, PipeInv
<1>8. tool' = [tool EXCEPT !.pc = "work"]
    BY <1>7 DEF ReadRequest, IsRequest
<1>9. /\ tool' \in Tools /\ tool'.pc = "work" /\ tool'.request = client.request /\ tool'.closed
      /\ tool'.done = 0 /\ tool'.symbols = <<>> /\ ~tool'.fatal
    BY <1>3, <1>5, <1>7, <1>8 DEF Tools
<1>10. TypeInv'
    BY <1>1, <1>9 DEF Inv, TypeInv
<1>11. WorkInv'
    <2>1. tool'.request.files \in Seq(Files)
        BY <1>3, <1>9 DEF Clients, Requests
    <2>2. tool'.done <= Len(tool'.request.files)
        BY <1>9, <2>1
    <2>3. ~(tool'.done > 0) /\ \A i \in 1 .. tool'.done : FALSE
        BY <1>9
    <2> QED
        BY <1>9, <2>2, <2>3 DEF WorkInv
<1>12. PipeInv'
    BY <1>1, <1>6, <1>7, <1>9, <1>11 DEF Inv, PipeInv
<1> QED
    BY <1>2, <1>10, <1>12 DEF Inv

(* The tool has done one more file.                                        *)
LEMMA WorkGoesOn ==
    ASSUME Inv, tool.pc = "work", Later, tool' \in Tools, tool'.pc = "work",
           tool'.request = tool.request, tool'.closed = tool.closed, WorkInv',
           UNCHANGED << present, faults, client, installed, l1, server, l2 >>
    PROVE  Inv'
<1>1. L1Inv' /\ L2Inv'
    BY ToolFrame
<1>2. TypeInv'
    BY DEF Inv, TypeInv, Later
<1>3. PipeInv'
    BY WorkingTool DEF Inv, PipeInv, IsRequest
<1> QED
    BY <1>1, <1>2, <1>3 DEF Inv

LEMMA NextFileParts ==
    ASSUME Inv, Remaining
    PROVE  /\ ThisFile \in Files /\ content[ThisFile] \in Contents
           /\ tool.done + 1 \in DOMAIN tool.request.files
           /\ tool.done + 1 <= Len(tool.request.files)
<1>1. /\ tool.request.files \in Seq(Files) /\ tool.done \in Nat
      /\ Len(tool.request.files) \in Nat /\ tool.done < Len(tool.request.files)
    BY WorkingTool DEF Remaining
<1>2. /\ tool.done + 1 \in DOMAIN tool.request.files
      /\ tool.done + 1 <= Len(tool.request.files)
    BY <1>1
<1>3. ThisFile \in Files
    BY <1>1, <1>2 DEF ThisFile
<1> QED
    BY <1>2, <1>3 DEF Inv, TypeInv

LEMMA LiftFileHolds ==
    ASSUME Inv, LiftFile, UNCHANGED << client, installed, l1, server, l2 >>
    PROVE  Inv'
<1>1. /\ Later /\ UNCHANGED << content, present, faults >> /\ Remaining
      /\ tool.request.mode # "symbols" /\ tool.pc = "work"
    BY DEF LiftFile, Later, Remaining
<1>2. /\ tool \in Tools /\ WorkInv /\ tool.done \in Nat
      /\ tool.functions \in Seq(FunctionRecords) /\ tool.types \in Seq(TypeRecords)
    BY <1>1, WorkingTool
<1>3. /\ ThisFile \in Files /\ content[ThisFile] \in Contents
      /\ tool.done + 1 <= Len(tool.request.files)
    BY <1>1, NextFileParts
<1>4. CASE ThisFile \notin present \/ content[ThisFile].broken
    <2>1. tool' = [tool EXCEPT !.done = @ + 1, !.fatal = TRUE]
        BY <1>4 DEF LiftFile
    <2>2. /\ tool' \in Tools /\ tool'.pc = "work" /\ tool'.request = tool.request
          /\ tool'.closed = tool.closed /\ tool'.done = tool.done + 1 /\ tool'.fatal
        <3>1. tool.done + 1 \in Nat
            BY <1>2
        <3> QED
            BY <1>1, <1>2, <2>1, <3>1 DEF Tools
    <2>3. WorkInv'
        BY <1>1, <1>3, <2>2 DEF WorkInv
    <2> QED
        BY <1>1, <2>2, <2>3, WorkGoesOn
<1>5. CASE ~(ThisFile \notin present \/ content[ThisFile].broken)
    <2>1. PICK lifted, types, chosen :
            /\ lifted = LiftedFunctions[content[ThisFile]]
            /\ types = LiftedTypes[content[ThisFile]]
            /\ chosen = Chosen(lifted, tool.request.functions)
        OBVIOUS
    <2>2. tool' = [tool EXCEPT !.done = @ + 1, !.functions = @ \o chosen, !.types = @ \o types]
        BY <1>5, <2>1 DEF LiftFile, Chosen, Wanted
    <2>3. lifted \in Seq(FunctionRecords) /\ types \in Seq(TypeRecords)
        BY <1>3, <2>1, LiftedIs
    <2>4. /\ chosen \in Seq(FunctionRecords)
          /\ \A fn \in Range(lifted) :
               tool.request.functions = {} \/ fn.qualifiedName \in tool.request.functions
                 => fn \in Range(chosen)
        BY <2>1, <2>3, ChosenFunctions
    <2>5. /\ tool.functions \o chosen \in Seq(FunctionRecords)
          /\ tool.types \o types \in Seq(TypeRecords)
        BY <1>2, <2>3, <2>4
    <2>6. /\ tool' \in Tools /\ tool'.pc = "work" /\ tool'.request = tool.request
          /\ tool'.closed = tool.closed /\ tool'.done = tool.done + 1 /\ tool'.fatal = tool.fatal
          /\ tool'.functions = tool.functions \o chosen /\ tool'.types = tool.types \o types
        <3>1. tool.done + 1 \in Nat
            BY <1>2
        <3>2. PICK functions, all : /\ functions = tool.functions \o chosen
                                    /\ all = tool.types \o types
            OBVIOUS
        <3>3. tool' = [tool EXCEPT !.done = tool.done + 1, !.functions = functions, !.types = all]
            BY <2>2, <3>2
        <3>4. functions \in Seq(FunctionRecords) /\ all \in Seq(TypeRecords)
            BY <2>5, <3>2
        <3>5. /\ tool' \in Tools /\ tool'.pc = "work" /\ tool'.request = tool.request
              /\ tool'.closed = tool.closed /\ tool'.done = tool.done + 1
              /\ tool'.fatal = tool.fatal /\ tool'.functions = functions /\ tool'.types = all
            BY <1>1, <1>2, <3>1, <3>3, <3>4 DEF Tools
        <3> QED
            BY <3>2, <3>5
    <2>7. /\ Range(tool'.functions) = Range(tool.functions) \cup Range(chosen)
          /\ Range(tool'.types) = Range(tool.types) \cup Range(types)
        BY <1>2, <2>3, <2>4, <2>6, ConcatRange
    <2>8. PICK file, files : file = ThisFile /\ files = tool.request.files
        OBVIOUS
    <2>9. Covers(tool.request, tool.functions, tool.types, file)'
        BY <1>1, <1>5, <2>1, <2>4, <2>6, <2>7, <2>8 DEF Covers
    <2>10. ASSUME ~tool.fatal, NEW i \in 1 .. tool.done
           PROVE  Covers(tool.request, tool.functions, tool.types, files[i])'
        <3>1. Covers(tool.request, tool.functions, tool.types, files[i])
            BY <1>1, <1>2, <2>8, <2>10 DEF WorkInv
        <3> QED
            BY <1>1, <2>6, <2>7, <3>1 DEF Covers
    <2>11. ~tool.fatal => \A i \in 1 .. tool.done + 1 :
             Covers(tool.request, tool.functions, tool.types, files[i])'
        <3>1. file = files[tool.done + 1]
            BY <2>8 DEF ThisFile
        <3> QED
            BY <1>2, <2>9, <2>10, <3>1
    <2>12. WorkInv'
        BY <1>1, <1>3, <2>6, <2>8, <2>11 DEF WorkInv
    <2> QED
        BY <1>1, <2>6, <2>12, WorkGoesOn
<1> QED
    BY <1>4, <1>5

LEMMA SymbolFileHolds ==
    ASSUME Inv, SymbolFile, UNCHANGED << client, installed, l1, server, l2 >>
    PROVE  Inv'
<1>1. /\ Later /\ UNCHANGED << content, present, faults >> /\ Remaining
      /\ tool.request.mode = "symbols" /\ tool.pc = "work"
    BY DEF SymbolFile, Later, Remaining
<1>2. /\ tool \in Tools /\ WorkInv /\ tool.done \in Nat /\ IsRequest(tool.request)
      /\ tool.symbols \in Seq(SymbolRecords)
    BY <1>1, WorkingTool
<1>3. /\ ThisFile \in Files /\ content[ThisFile] \in Contents
      /\ tool.done + 1 <= Len(tool.request.files)
    BY <1>1, NextFileParts
<1>4. Len(tool.request.files) = 1 /\ tool.done = 0 /\ tool.symbols = <<>> /\ ~tool.fatal
    <2>1. Len(tool.request.files) \in Nat /\ Len(tool.request.files) <= 1
        BY <1>1, <1>2, WorkingTool DEF IsRequest
    <2>2. Len(tool.request.files) = 1 /\ tool.done = 0
        <3>1. PICK n, m \in Nat : n = Len(tool.request.files) /\ m = tool.done
            BY <1>2, <2>1
        <3>2. n <= 1 /\ m + 1 <= n
            BY <1>3, <2>1, <3>1
        <3>3. n = 1 /\ m = 0
            BY <3>2
        <3> QED
            BY <3>1, <3>3
    <2> QED
        BY <1>1, <1>2, <2>2 DEF WorkInv
<1>5. ThisFile = tool.request.files[1] /\ tool.request.files # <<>>
    <2>1. tool.done + 1 = 1
        BY <1>4
    <2>2. ThisFile = tool.request.files[1]
        BY <2>1 DEF ThisFile
    <2>3. tool.request.files # <<>>
        <3>1. PICK files : files = tool.request.files
            OBVIOUS
        <3>2. Len(files) = 1 /\ Len(<<>>) = 0
            BY <1>4, <3>1
        <3>3. files # <<>>
            BY <3>2
        <3> QED
            BY <3>1, <3>3
    <2> QED
        BY <2>2, <2>3
<1>6. PICK symbols :
        symbols = IF ThisFile \in present THEN FoundSymbols[content[ThisFile]] ELSE <<>>
    OBVIOUS
<1>11. symbols \in Seq(SymbolRecords)
    <2>1. FoundSymbols[content[ThisFile]] \in Seq(SymbolRecords)
        BY <1>3, LiftedIs
    <2> QED
        BY <1>6, <2>1, NoSymbols
<1>7. tool' = [tool EXCEPT !.done = @ + 1, !.symbols = symbols]
    <2>1. ThisFile \in present => tool.symbols \o FoundSymbols[content[ThisFile]] = symbols
        BY <1>3, <1>4, <1>6, LiftedIs
    <2> QED
        BY <1>2, <1>4, <1>6, <2>1 DEF SymbolFile, Tools
<1>8. /\ tool' \in Tools /\ tool'.pc = "work" /\ tool'.request = tool.request
      /\ tool'.closed = tool.closed /\ tool'.done = 1 /\ ~tool'.fatal
      /\ tool'.symbols = symbols
    <2>1. tool' = [tool EXCEPT !.done = 1, !.symbols = symbols]
        <3>1. tool.done + 1 = 1
            BY <1>4
        <3> QED
            BY <1>7, <3>1
    <2> QED
        BY <1>1, <1>2, <1>4, <1>11, <2>1 DEF Tools
<1>9. AreSymbolsOf(tool.request.files, symbols)'
    <2>1. ThisFile \notin present => faults > 0
        BY <1>3 DEF Inv, PipeInv
    <2> QED
        BY <1>1, <1>5, <1>6, <1>8, <2>1 DEF AreSymbolsOf
<1>10. WorkInv'
    <2>1. AreSymbolsOf(tool.request.files, tool.symbols)'
        BY <1>8, <1>9
    <2>2. tool'.done <= Len(tool'.request.files)
        <3>1. Len(tool'.request.files) = 1
            BY <1>4, <1>8
        <3> QED
            BY <1>8, <3>1
    <2>3. tool'.done # 0 /\ tool'.request.mode = "symbols" /\ ~tool'.fatal
        BY <1>1, <1>8
    <2> QED
        BY <2>1, <2>2, <2>3 DEF WorkInv
<1> QED
    BY <1>1, <1>8, <1>10, WorkGoesOn

LEMMA RunningTool ==
    ASSUME Inv, tool.pc \in {"stdin", "work"}
    PROVE  /\ client.pc \in {"write", "close", "read"} /\ client \in Clients /\ tool \in Tools
           /\ IsRequest(client.request) /\ installed /\ client.reply = NoOut
<1>1. client \in Clients /\ tool \in Tools
    BY DEF Inv, TypeInv
<1>2. client.pc \in {"idle", "start", "write", "close", "read", "got"}
    BY <1>1 DEF Clients
<1>3. client.pc \in {"write", "close", "read"}
    BY <1>2, NoToolIsNone DEF Inv, PipeInv
<1> QED
    BY <1>1, <1>3 DEF Inv, PipeInv

(* The tool has ended, with an answer or without.                          *)
LEMMA ToolExits ==
    ASSUME Inv, tool.pc \in {"stdin", "work"}, NEW status \in {"0", "1", "signal"},
           NEW out \in Outs, tool' = Exit(status, out), Later,
           UNCHANGED << present, client, installed, l1, server, l2 >>,
           faults' \in 0 .. MaxFaults, client.pc \in {"write", "close"} => faults' > 0,
           GoodReply(client.request, out)'
    PROVE  Inv'
<1>1. L1Inv' /\ L2Inv'
    BY ToolFrame
<1>2. /\ client.pc \in {"write", "close", "read"} /\ client \in Clients /\ tool \in Tools
      /\ IsRequest(client.request) /\ installed /\ client.reply = NoOut
    BY RunningTool
<1>3. /\ tool' \in Tools /\ tool'.pc = "exited" /\ tool'.request = tool.request
      /\ tool'.closed = tool.closed /\ tool'.out = out
    BY <1>2 DEF Exit, Tools
<1>4. TypeInv'
    BY <1>3 DEF Inv, TypeInv, Later
<1>5. GoodReply(client.request, tool.out)'
    BY <1>3
<1>6. present' # Files => faults' > 0
    BY DEF Inv, PipeInv, Later
<1>7. PipeInv'
    BY <1>2, <1>3, <1>5, <1>6 DEF Inv, PipeInv, IsRequest
<1> QED
    BY <1>1, <1>4, <1>7 DEF Inv

LEMMA AnswerHolds ==
    ASSUME Inv, Answer, UNCHANGED << client, installed, l1, server, l2 >>
    PROVE  Inv'
<1>1. /\ Later /\ UNCHANGED << content, present, faults >> /\ ~Remaining /\ tool.pc = "work"
    BY DEF Answer, Later
<1>2. /\ tool \in Tools /\ WorkInv /\ tool.done \in Nat /\ IsRequest(tool.request)
      /\ tool.functions \in Seq(FunctionRecords) /\ tool.types \in Seq(TypeRecords)
      /\ tool.symbols \in Seq(SymbolRecords) /\ client.pc = "read"
      /\ tool.request = client.request
    BY <1>1, WorkingTool
<1>3. PICK files, n : /\ files = tool.request.files /\ n = Len(files)
                      /\ files \in Seq(Files) /\ n \in Nat
    <2>1. Len(tool.request.files) \in Nat /\ tool.request.files \in Seq(Files)
        BY <1>1, WorkingTool
    <2> QED
        BY <2>1
<1>4. tool.done = n
    <2>1. ~(tool.done < n) /\ tool.done <= n
        BY <1>1, <1>2, <1>3 DEF Remaining, WorkInv
    <2> QED
        BY <1>2, <1>3, <2>1
<1>5. faults' \in 0 .. MaxFaults
    BY <1>1 DEF Inv, TypeInv
<1>6. PICK out : out = [form |-> "whole", functions |-> tool.functions,
                        types |-> tool.types, symbols |-> tool.symbols]
    OBVIOUS
<1>7. out \in Outs
    BY <1>2, <1>6 DEF Outs
<1>8. CASE tool' = Exit("1", NoOut) /\ tool.request.mode # "symbols"
    <2>1. GoodReply(client.request, NoOut)'
        BY <1>1, <1>2, <1>8 DEF GoodReply, NoOut
    <2> QED
        BY <1>1, <1>2, <1>5, <1>8, <2>1, ToolExits, NoneAreTyped
<1>9. CASE tool' = Exit("0", out) /\ tool.request.mode = "symbols"
    <2>1. AreSymbolsOf(files, tool.symbols)
        <3>1. CASE n = 0
            <4>1. tool.symbols = <<>> /\ files = <<>>
                BY <1>2, <1>3, <1>4, <1>9, <3>1, EmptySeq DEF WorkInv
            <4> QED
                BY <4>1 DEF AreSymbolsOf
        <3>2. CASE n # 0
            <4>1. tool.done > 0
                BY <1>3, <1>4, <3>2
            <4> QED
                BY <1>2, <1>3, <1>9, <4>1 DEF WorkInv
        <3> QED
            BY <3>1, <3>2
    <2>2. GoodReply(client.request, out)
        BY <1>2, <1>3, <1>6, <1>9, <2>1 DEF GoodReply
    <2>3. GoodReply(client.request, out)'
        BY <1>1, <2>2, ReplyStays
    <2> QED
        BY <1>1, <1>2, <1>5, <1>7, <1>9, <2>3, ToolExits
<1>10. CASE /\ tool' = Exit("0", out) /\ tool.request.mode # "symbols" /\ ~tool.fatal
            /\ tool.request.functions \ {tool.functions[i].qualifiedName :
                                           i \in DOMAIN tool.functions} = {}
    <2>1. \A f \in Range(files) : Covers(tool.request, tool.functions, tool.types, f)
        <3>1. \A i \in 1 .. n : Covers(tool.request, tool.functions, tool.types, files[i])
            BY <1>2, <1>3, <1>4, <1>10 DEF WorkInv
        <3>2. \A f \in Range(files) : \E i \in 1 .. n : f = files[i]
            BY <1>3 DEF Range
        <3> QED
            BY <3>1, <3>2
    <2>2. tool.request.functions \subseteq {fn.qualifiedName : fn \in Range(tool.functions)}
        BY <1>10 DEF Range
    <2>3. GoodReply(client.request, out)
        BY <1>2, <1>3, <1>6, <1>10, <2>1, <2>2 DEF GoodReply, Complete
    <2>4. GoodReply(client.request, out)'
        BY <1>1, <2>3, ReplyStays
    <2> QED
        BY <1>1, <1>2, <1>5, <1>7, <1>10, <2>4, ToolExits
<1>11. tool.fatal => tool.request.mode # "symbols"
    BY <1>2 DEF WorkInv
<1> QED
    BY <1>6, <1>8, <1>9, <1>10, <1>11 DEF Answer

LEMMA ToolDiesHolds ==
    ASSUME Inv, ToolDies, UNCHANGED << client, installed, l1, server, l2 >>
    PROVE  Inv'
<1>1. faults \in Nat /\ MaxFaults \in Nat
    BY ExtractorAssumption DEF ExtractorAssumption, Inv, TypeInv
<1>2. faults' = faults + 1 /\ faults < MaxFaults
    BY DEF ToolDies
<1>3. faults' > 0 /\ faults' \in 0 .. MaxFaults
    BY <1>1, <1>2
<1>4. Later /\ UNCHANGED present /\ tool.pc \in {"stdin", "work"}
    BY <1>3 DEF Later, ToolDies
<1>5. PICK form \in {"none", "partial"} : tool' = Exit("signal", [NoOut EXCEPT !.form = form])
    BY DEF ToolDies
<1>6. PICK out : out = [NoOut EXCEPT !.form = form]
    OBVIOUS
<1>7. out \in Outs /\ out.form = form /\ out.functions = <<>> /\ out.symbols = <<>>
    BY <1>6, NoneAreTyped DEF NoOut, Outs
<1>8. GoodReply(client.request, out)'
    BY <1>3, <1>7 DEF GoodReply
<1> QED
    BY <1>3, <1>4, <1>5, <1>6, <1>7, <1>8, ToolExits

LEMMA FileVanishesHolds ==
    ASSUME Inv, FileVanishes, UNCHANGED << client, installed, l1, server, l2 >>
    PROVE  Inv'
<1>1. faults \in Nat /\ MaxFaults \in Nat
    BY ExtractorAssumption DEF ExtractorAssumption, Inv, TypeInv
<1>2. faults' = faults + 1 /\ faults < MaxFaults
    BY DEF FileVanishes
<1>3. faults' > 0 /\ faults' \in 0 .. MaxFaults
    BY <1>1, <1>2
<1>4. Later /\ UNCHANGED << content, tool >> /\ present' \in SUBSET Files
    BY <1>3 DEF Later, FileVanishes, Inv, TypeInv
<1>5. L1Inv' /\ L2Inv'
    BY <1>4, ToolFrame
<1>6. TypeInv'
    BY <1>3, <1>4 DEF Inv, TypeInv
<1>7. /\ GoodReply(client.request, tool.out) => GoodReply(client.request, tool.out)'
      /\ GoodReply(client.request, client.reply) => GoodReply(client.request, client.reply)'
    BY <1>4, ReplyStays
<1>8. WorkInv => WorkInv'
    BY <1>4 DEF WorkInv, Covers, AreSymbolsOf, Later
<1>9. PipeInv'
    BY <1>3, <1>4, <1>7, <1>8 DEF Inv, PipeInv, IsRequest
<1> QED
    BY <1>5, <1>6, <1>9 DEF Inv

-----------------------------------------------------------------------------
(* Symbol extraction.                                                      *)

LEMMA ProbeHolds ==
    ASSUME Inv, Probe PROVE Inv'
<1>1. Later /\ UNCHANGED << content, present, faults, tool, installed, server, l2 >>
    BY DEF Probe, toolVars, Later
<1>2. /\ client' = Pending(Request("symbols", <<>>, {})) /\ tool = NoTool
      /\ l1' = [l1 EXCEPT !.pc = "probing"]
    BY DEF Probe
<1>3. l1 \in L1s /\ l1 = NoL1 /\ Len(l1.answers) <= Len(SourceFiles)
    BY DEF Inv, TypeInv, L1Inv, Probe
<1>4. /\ client' \in Clients /\ client'.pc = "start" /\ client'.reply = NoOut
      /\ client'.request = Request("symbols", <<>>, {})
    <2>1. <<>> \in Seq(Files) /\ {} \in SUBSET Names
        OBVIOUS
    <2> QED
        BY <1>2, <2>1, Requested
<1>5. /\ l1' \in L1s /\ l1'.pc = "probing" /\ l1'.answers = <<>>
      /\ l1'.answers = l1.answers /\ l1'.extractor = "none"
    BY <1>2, <1>3 DEF L1s, NoL1
<1>6. TypeInv'
    BY <1>1, <1>3, <1>4, <1>5 DEF Inv, TypeInv
<1>7. IsRequest(client'.request)
    <2>1. Len(<<>>) <= 1
        OBVIOUS
    <2> QED
        BY <1>4, <2>1 DEF Request, IsRequest
<1>8. PipeInv'
    BY <1>1, <1>2, <1>4, <1>7, NoToolIsNone DEF Inv, PipeInv, IsRequest
<1>9. L1Inv'
    BY <1>4, <1>5 DEF L1Inv
<1>10. L2Inv'
    BY <1>1, <1>3, <1>5 DEF Inv, L2Inv, NoL1, ScanInv, L2IsHonest, Finished, ThisToken, ThisL2File
<1> QED
    BY <1>6, <1>8, <1>9, <1>10 DEF Inv

LEMMA L2Waits ==
    ASSUME L2Inv, UNCHANGED << server, l2 >>, l1.pc # "done", l1'.pc # "done"
    PROVE  L2Inv'
BY DEF L2Inv, ScanInv, L2IsHonest, Finished, ThisToken, ThisL2File

(* The answer has been taken.                                              *)
LEMMA TakenHolds ==
    ASSUME Inv, Taken, UNCHANGED << content, present, faults, installed, server, l2 >>,
           l1' \in L1s, Len(l1'.answers) <= Len(SourceFiles)
    PROVE  TypeInv' /\ PipeInv' /\ Later /\ client'.pc = "idle"
<1>1. client' = NoClient /\ tool' = NoTool
    BY DEF Taken
<1>2. TypeInv'
    BY <1>1, NoneAreTyped DEF Inv, TypeInv
<1>3. client'.pc = "idle" /\ client'.reply = NoOut
    BY <1>1 DEF NoClient
<1>4. PipeInv'
    BY <1>1, <1>3, NoToolIsNone DEF Inv, PipeInv
<1> QED
    BY <1>2, <1>3, <1>4 DEF Later

LEMMA ChooseHolds ==
    ASSUME Inv, Choose PROVE Inv'
<1>1. /\ Taken /\ UNCHANGED << content, present, faults, installed, server, l2 >>
      /\ l1.pc = "probing"
    BY DEF Choose
<1>2. PICK available \in BOOLEAN :
        /\ available <=> client.reply.form = "whole" /\ client.reply.symbols = <<>>
        /\ l1' = [l1 EXCEPT !.pc = "extracting",
                            !.extractor = IF available THEN "ast" ELSE "regex",
                            !.warned = ~available]
    BY DEF Choose
<1>3. l1 \in L1s /\ Len(l1.answers) <= Len(SourceFiles) /\ l1.answers = <<>>
    BY <1>1 DEF Inv, TypeInv, L1Inv
<1>4. /\ l1' \in L1s /\ l1'.pc = "extracting" /\ l1'.answers = <<>>
      /\ l1'.answers = l1.answers /\ l1'.extractor = (IF available THEN "ast" ELSE "regex")
      /\ l1'.warned = ~available
    BY <1>2, <1>3 DEF L1s
<1>5. TypeInv' /\ PipeInv' /\ client'.pc = "idle"
    BY <1>1, <1>3, <1>4, TakenHolds
<1>6. available => installed
    BY <1>1, <1>2 DEF Inv, PipeInv, Taken, NoOut
<1>7. L1Inv'
    <2>1. DOMAIN l1'.answers = {}
        BY <1>4
    <2>2. client'.pc = "idle" /\ l1'.pc = "extracting"
        BY <1>4, <1>5
    <2>3. installed' = installed
        BY <1>1
    <2> QED
        BY <1>4, <1>6, <2>1, <2>2, <2>3 DEF L1Inv
<1>8. L2Inv'
    BY <1>1, <1>4, L2Waits DEF Inv
<1> QED
    BY <1>5, <1>7, <1>8 DEF Inv

LEMMA AskToolHolds ==
    ASSUME Inv, AskTool PROVE Inv'
<1>1. Later /\ UNCHANGED << content, present, faults, tool, installed, l1, server, l2 >>
    BY DEF AskTool, toolVars, Later
<1>2. PICK n \in Nat : n = Len(l1.answers) /\ n < Len(SourceFiles)
    <2>1. PICK answers, m : answers = l1.answers /\ m = Len(SourceFiles)
        OBVIOUS
    <2>2. m \in Nat /\ answers \in Seq([by : {"ast", "regex"}, symbols : Seq(SymbolRecords)])
        BY <2>1, NoneAreTyped DEF Inv, TypeInv, L1s
    <2>3. Len(answers) \in Nat /\ Len(answers) <= m /\ Len(answers) # m
        BY <2>1, <2>2 DEF Inv, TypeInv, AskTool, Done
    <2> QED
        BY <2>1, <2>2, <2>3
<1>3. /\ client' = Pending(Request("symbols", << SourceFiles[n + 1] >>, {}))
      /\ client = NoClient /\ l1.pc = "extracting" /\ l1.extractor = "ast"
    BY <1>2 DEF AskTool
<1>4. tool = NoTool
    <2>1. client.pc = "idle"
        BY <1>3 DEF NoClient
    <2> QED
        BY <2>1 DEF Inv, PipeInv
<1>5. SourceFiles[n + 1] \in Files
    BY <1>2, ProviderAssumption DEF ProviderAssumption
<1>6. PICK file \in Files : file = SourceFiles[n + 1]
    BY <1>5
<1>7. /\ client' \in Clients /\ client'.pc = "start" /\ client'.reply = NoOut
      /\ client'.request = Request("symbols", << file >>, {})
    <2>1. << file >> \in Seq(Files) /\ {} \in SUBSET Names
        BY Single
    <2> QED
        BY <1>3, <1>6, <2>1, Requested
<1>8. TypeInv'
    BY <1>1, <1>7 DEF Inv, TypeInv
<1>9. IsRequest(client'.request)
    <2>1. Len(<< file >>) <= 1
        OBVIOUS
    <2> QED
        BY <1>7, <2>1 DEF Request, IsRequest
<1>10. PipeInv'
    BY <1>1, <1>4, <1>7, <1>9, NoToolIsNone DEF Inv, PipeInv, IsRequest
<1>11. \A i \in DOMAIN l1.answers : GoodAnswer(i, l1.answers[i])'
    BY <1>1, SymbolsStay DEF Inv, L1Inv, GoodAnswer
<1>12. L1Inv'
    BY <1>1, <1>2, <1>3, <1>6, <1>7, <1>11 DEF Inv, L1Inv
<1>13. L2Inv'
    BY <1>1, L2Stays DEF Inv
<1> QED
    BY <1>8, <1>10, <1>12, <1>13 DEF Inv

AnswerRecords == [by : {"ast", "regex"}, symbols : Seq(SymbolRecords)]

(* One more file has been answered for.                                    *)
LEMMA AnswersGrow ==
    ASSUME Inv, Later, NEW answer \in AnswerRecords,
           l1' = [l1 EXCEPT !.answers = Append(@, answer)],
           Len(l1.answers) < Len(SourceFiles),
           NEW next, next = Len(l1.answers) + 1, GoodAnswer(next, answer)'
    PROVE  /\ l1' \in L1s /\ l1'.pc = l1.pc /\ l1'.extractor = l1.extractor
           /\ l1'.warned = l1.warned /\ Len(l1'.answers) <= Len(SourceFiles)
           /\ \A i \in DOMAIN l1'.answers : GoodAnswer(i, l1.answers[i])'
<1>1. l1 \in L1s
    BY DEF Inv, TypeInv
<1>2. PICK old : old = l1.answers
    OBVIOUS
<1>3. old \in Seq(AnswerRecords)
    BY <1>1, <1>2 DEF L1s, AnswerRecords
<1>4. PICK new : new = Append(old, answer)
    OBVIOUS
<1>5. PICK n \in Nat : n = Len(old)
    BY <1>3
<1>6. /\ new \in Seq(AnswerRecords) /\ Len(new) = n + 1 /\ new[n + 1] = answer
      /\ \A i \in 1 .. n : new[i] = old[i]
    BY <1>3, <1>4, <1>5, AppendProperties
<1>7. l1' = [l1 EXCEPT !.answers = new]
    BY <1>2, <1>4
<1>8. /\ l1' \in L1s /\ l1'.pc = l1.pc /\ l1'.extractor = l1.extractor
      /\ l1'.warned = l1.warned /\ l1'.answers = new
    BY <1>1, <1>6, <1>7 DEF L1s, AnswerRecords
<1>9. Len(l1'.answers) <= Len(SourceFiles)
    <2>1. PICK m \in Nat : m = Len(SourceFiles)
        BY NoneAreTyped
    <2>2. n < m /\ Len(new) = n + 1
        BY <1>2, <1>5, <1>6, <2>1
    <2>3. Len(new) <= m
        BY <2>2
    <2> QED
        BY <1>8, <2>1, <2>3
<1>10. ASSUME NEW i \in DOMAIN l1'.answers
       PROVE  GoodAnswer(i, l1.answers[i])'
    <2>1. i \in 1 .. n + 1
        BY <1>6, <1>8
    <2>2. CASE i = n + 1
        <3>1. GoodAnswer(i, answer)'
            BY <1>2, <1>5, <2>2
        <3> QED
            BY <1>6, <1>8, <2>2, <3>1
    <2>3. CASE i \in 1 .. n
        <3>1. i \in DOMAIN l1.answers
            BY <1>2, <1>3, <1>5, <2>3
        <3>2. GoodAnswer(i, old[i])
            BY <1>2, <3>1 DEF Inv, L1Inv
        <3>3. GoodAnswer(i, old[i])'
            BY <1>8, <3>2, SymbolsStay DEF GoodAnswer
        <3> QED
            BY <1>6, <1>8, <2>3, <3>3
    <2> QED
        BY <2>1, <2>2, <2>3
<1> QED
    BY <1>8, <1>9, <1>10

LEMMA TakeSymbolsHolds ==
    ASSUME Inv, TakeSymbols PROVE Inv'
<1>1. /\ Taken /\ UNCHANGED << content, present, faults, installed, server, l2 >>
      /\ l1.pc = "extracting" /\ client.pc = "got" /\ Later
    BY DEF TakeSymbols, Taken, Later
<1>2. PICK n : n = Len(l1.answers)
    OBVIOUS
<1>3. /\ n < Len(SourceFiles) /\ l1.extractor = "ast" /\ installed
      /\ client.request = Request("symbols", << SourceFiles[n + 1] >>, {})
      /\ GoodReply(client.request, client.reply)
      /\ client \in Clients
    BY <1>1, <1>2 DEF Inv, L1Inv, PipeInv, TypeInv
<1>4. PICK symbols, file : symbols = SymbolsOf(client.reply) /\ file = SourceFiles[n + 1]
    OBVIOUS
<1>5. symbols \in Seq(SymbolRecords)
    <2>1. client.reply.symbols \in Seq(SymbolRecords)
        BY <1>3 DEF Clients, Outs
    <2> QED
        BY <1>4, <2>1, NoSymbols DEF SymbolsOf
<1>6. AreSymbolsOf(<< file >>, symbols)
    <2>1. client.request.mode = "symbols" /\ client.request.files = << file >>
        BY <1>3, <1>4 DEF Request
    <2> QED
        BY <1>3, <1>4, <2>1 DEF GoodReply, SymbolsOf, AreSymbolsOf
<1>7. PICK answer : answer = [by |-> "ast", symbols |-> symbols]
    OBVIOUS
<1>8. answer \in AnswerRecords /\ answer.by = "ast" /\ answer.symbols = symbols
    BY <1>5, <1>7 DEF AnswerRecords
<1>9. l1' = [l1 EXCEPT !.answers = Append(@, answer)]
    BY <1>4, <1>7 DEF TakeSymbols
<1>10. GoodAnswer(n + 1, answer)'
    <2>1. AreSymbolsOf(<< file >>, symbols)'
        BY <1>1, <1>6, SymbolsStay
    <2> QED
        BY <1>4, <1>8, <2>1 DEF GoodAnswer
<1>11. /\ l1' \in L1s /\ l1'.pc = l1.pc /\ l1'.extractor = l1.extractor
       /\ l1'.warned = l1.warned /\ Len(l1'.answers) <= Len(SourceFiles)
       /\ \A i \in DOMAIN l1'.answers : GoodAnswer(i, l1.answers[i])'
    <2>1. PICK next : next = n + 1
        OBVIOUS
    <2>2. next = Len(l1.answers) + 1 /\ Len(l1.answers) < Len(SourceFiles)
        BY <1>2, <1>3, <2>1
    <2>3. GoodAnswer(next, answer)'
        BY <1>10, <2>1
    <2> QED
        BY <1>1, <1>8, <1>9, <2>2, <2>3, AnswersGrow
<1>12. TypeInv' /\ PipeInv' /\ client'.pc = "idle"
    BY <1>1, <1>11, TakenHolds
<1>13. L1Inv'
    BY <1>1, <1>3, <1>11, <1>12 DEF L1Inv
<1>14. L2Inv'
    BY <1>1, <1>11, L2Waits DEF Inv
<1> QED
    BY <1>12, <1>13, <1>14 DEF Inv

LEMMA AskRegexHolds ==
    ASSUME Inv, AskRegex PROVE Inv'
<1>1. /\ Later /\ UNCHANGED << content, present, faults, tool, client, installed, server, l2 >>
      /\ l1.pc = "extracting" /\ l1.extractor = "regex"
    BY DEF AskRegex, toolVars, Later
<1>2. Len(l1.answers) < Len(SourceFiles)
    <2>1. PICK answers, m : answers = l1.answers /\ m = Len(SourceFiles)
        OBVIOUS
    <2>2. m \in Nat /\ answers \in Seq([by : {"ast", "regex"}, symbols : Seq(SymbolRecords)])
        BY <2>1, NoneAreTyped DEF Inv, TypeInv, L1s
    <2>3. Len(answers) \in Nat /\ Len(answers) <= m /\ Len(answers) # m
        BY <2>1, <2>2 DEF Inv, TypeInv, AskRegex, Done
    <2> QED
        BY <2>1, <2>2, <2>3
<1>3. PICK answer : answer = [by |-> "regex", symbols |-> <<>>]
    OBVIOUS
<1>4. answer \in AnswerRecords /\ answer.by = "regex"
    BY <1>3, NoSymbols DEF AnswerRecords
<1>5. l1' = [l1 EXCEPT !.answers = Append(@, answer)]
    BY <1>3 DEF AskRegex
<1>6. PICK next : next = Len(l1.answers) + 1
    OBVIOUS
<1>13. GoodAnswer(next, answer)'
    <2>1. l1'.extractor = "regex"
        BY <1>1, <1>5 DEF Inv, TypeInv, L1s
    <2> QED
        BY <1>4, <2>1 DEF GoodAnswer
<1>7. /\ l1' \in L1s /\ l1'.pc = l1.pc /\ l1'.extractor = l1.extractor
      /\ l1'.warned = l1.warned /\ Len(l1'.answers) <= Len(SourceFiles)
      /\ \A i \in DOMAIN l1'.answers : GoodAnswer(i, l1.answers[i])'
    BY <1>1, <1>2, <1>4, <1>5, <1>6, <1>13, AnswersGrow
<1>8. TypeInv'
    BY <1>1, <1>7 DEF Inv, TypeInv
<1>9. PipeInv'
    BY <1>1 DEF Inv, PipeInv, IsRequest, GoodReply, Complete, Covers, AreSymbolsOf, WorkInv
<1>10. client'.pc = "idle"
    BY <1>1 DEF Inv, L1Inv
<1>11. L1Inv'
    BY <1>1, <1>7, <1>10 DEF Inv, L1Inv
<1>12. L2Inv'
    BY <1>1, <1>7, L2Waits DEF Inv
<1> QED
    BY <1>8, <1>9, <1>11, <1>12 DEF Inv

LEMMA EndL1Holds ==
    ASSUME Inv, EndL1 PROVE Inv'
<1>1. /\ Later /\ UNCHANGED << content, present, faults, tool, client, installed, server >>
      /\ l1.pc = "extracting" /\ client = NoClient
      /\ l1' = [l1 EXCEPT !.pc = "done"] /\ l2' = [l2 EXCEPT !.pc = "starting"]
    BY DEF EndL1, toolVars, Later
<1>2. /\ l1 \in L1s /\ l2 \in L2s /\ l2 = [NoL2 EXCEPT !.pc = "off"] /\ server = "off"
      /\ Len(l1.answers) <= Len(SourceFiles)
    <2>1. l2.pc = "off"
        BY <1>1 DEF Inv, L2Inv
    <2> QED
        BY <2>1 DEF Inv, TypeInv, L2Inv
<1>3. /\ l1' \in L1s /\ l1'.pc = "done" /\ l1'.extractor = l1.extractor
      /\ l1'.warned = l1.warned /\ l1'.answers = l1.answers
    BY <1>1, <1>2 DEF L1s
<1>4. l2' = [NoL2 EXCEPT !.pc = "starting"] /\ l2'.pc = "starting" /\ l2' \in L2s
    <2>1. l2' = [NoL2 EXCEPT !.pc = "starting"]
        BY <1>1, <1>2 DEF NoL2
    <2>2. l2' \in L2s /\ l2'.pc = "starting"
        BY <2>1, NoneAreTyped DEF L2s
    <2> QED
        BY <2>1, <2>2
<1>5. TypeInv'
    BY <1>1, <1>2, <1>3, <1>4 DEF Inv, TypeInv
<1>6. PipeInv'
    BY <1>1 DEF Inv, PipeInv, IsRequest, GoodReply, Complete, Covers, AreSymbolsOf, WorkInv
<1>7. client'.pc = "idle"
    BY <1>1 DEF NoClient
<1>8. \A i \in DOMAIN l1'.answers : GoodAnswer(i, l1.answers[i])'
    BY <1>1, <1>3, SymbolsStay DEF Inv, L1Inv, GoodAnswer
<1>9. L1Inv'
    BY <1>1, <1>3, <1>7, <1>8 DEF Inv, L1Inv
<1>10. L2Inv'
    BY <1>1, <1>2, <1>3, <1>4 DEF L2Inv, L2IsHonest
<1> QED
    BY <1>5, <1>6, <1>9, <1>10 DEF Inv

-----------------------------------------------------------------------------
(* The calls a file holds.                                                 *)

IsReportable(token) ==
    /\ token.isCall /\ token.name # <<>>
    /\ ClassifyCallSite(QualifiedName(token, TRUE)) # ""

LEMMA TokensOfFiles ==
    ASSUME NEW i \in 1 .. Len(SourceFiles)
    PROVE  /\ SourceFiles[i] \in Files
           /\ Tokens[SourceFiles[i]] \in Seq([isCall : BOOLEAN, name : Names, module : Names])
           /\ Len(Tokens[SourceFiles[i]]) \in Nat
           /\ DOMAIN Tokens[SourceFiles[i]] = 1 .. Len(Tokens[SourceFiles[i]])
<1>1. SourceFiles[i] \in Files
    BY ProviderAssumption DEF ProviderAssumption
<1>2. Tokens[SourceFiles[i]] \in Seq([isCall : BOOLEAN, name : Names, module : Names])
    BY <1>1, ProviderAssumption DEF ProviderAssumption
<1> QED
    BY <1>1, <1>2

LEMMA NoneReportable ==
    ASSUME NEW i \in 1 .. Len(SourceFiles)
    PROVE  ReportableBefore(i, 1) = {}
<1>1. \A u \in DOMAIN Tokens[SourceFiles[i]] : ~(u < 1)
    BY TokensOfFiles
<1> QED
    BY <1>1 DEF ReportableBefore

LEMMA AllReportable ==
    ASSUME NEW i \in 1 .. Len(SourceFiles), NEW t \in Nat, ~(t <= Len(Tokens[SourceFiles[i]]))
    PROVE  ReportableBefore(i, t) = Reportable(i)
<1>1. \A u \in DOMAIN Tokens[SourceFiles[i]] : u < t
    BY TokensOfFiles
<1> QED
    BY <1>1 DEF ReportableBefore, Reportable

LEMMA OneMoreReportable ==
    ASSUME NEW i \in 1 .. Len(SourceFiles), NEW t \in 1 .. Len(Tokens[SourceFiles[i]])
    PROVE  ReportableBefore(i, t + 1) = ReportableBefore(i, t) \cup
             (IF IsReportable(Tokens[SourceFiles[i]][t])
              THEN {<< i, t, ClassifyCallSite(QualifiedName(Tokens[SourceFiles[i]][t], TRUE)) >>}
              ELSE {})
<1>1. PICK tokens, n : tokens = Tokens[SourceFiles[i]] /\ n = Len(tokens) /\ n \in Nat
                       /\ DOMAIN tokens = 1 .. n
    BY TokensOfFiles
<1> DEFINE Before(k) == {u \in 1 .. n : u < k /\ IsReportable(tokens[u])}
           Site(u) == << i, u, ClassifyCallSite(QualifiedName(tokens[u], TRUE)) >>
<1>2. \A k : ReportableBefore(i, k) = {Site(u) : u \in Before(k)}
    BY <1>1 DEF ReportableBefore, IsReportable
<1>3. t \in 1 .. n
    BY <1>1
<1>4. Before(t + 1) = Before(t) \cup (IF IsReportable(tokens[t]) THEN {t} ELSE {})
    BY <1>3, <1>1
<1>5. {Site(u) : u \in Before(t + 1)}
        = {Site(u) : u \in Before(t)} \cup (IF IsReportable(tokens[t]) THEN {Site(t)} ELSE {})
    <2> HIDE DEF Before, Site
    <2> QED
        BY <1>4
<1> QED
    BY <1>1, <1>2, <1>5

LEMMA Levels ==
    ASSUME NEW name
    PROVE  ClassifyCallSite(name) \in {"", "escape", "input", "system"}
BY DEF ClassifyCallSite, ClassifyCall

-----------------------------------------------------------------------------
(* Deep containment.                                                       *)

LEMMA L2Frame ==
    ASSUME Inv, L2Step, server' \in {"off", "up", "down"}, l2' \in L2s, L2Inv'
    PROVE  Inv'
<1>1. UNCHANGED << content, present, tool, faults, client, installed, l1 >> /\ Later
    BY DEF L2Step, toolVars, Later
<1>2. TypeInv'
    BY <1>1 DEF Inv, TypeInv
<1>3. PipeInv'
    BY <1>1 DEF Inv, PipeInv, IsRequest, GoodReply, Complete, Covers, AreSymbolsOf, WorkInv
<1>4. L1Inv'
    BY <1>1, L1Stays DEF Inv
<1> QED
    BY <1>2, <1>3, <1>4 DEF Inv

LEMMA L2Parts ==
    ASSUME Inv, L2Step
    PROVE  /\ l1.pc = "done" /\ l1'.pc = "done" /\ l2 \in L2s /\ server \in {"off", "up", "down"}
           /\ l2.file \in Nat /\ 1 <= l2.file /\ l2.file <= Len(SourceFiles) + 1
           /\ l2.token \in Nat \ {0} /\ l2.sites \in SUBSET CallSites /\ l2.empty \in SUBSET Nat
           /\ l2.tries \in 0 .. MaxRetries /\ Len(SourceFiles) \in Nat
<1>1. l1.pc = "done" /\ l1'.pc = "done"
    BY DEF L2Step
<1>2. l2 \in L2s /\ server \in {"off", "up", "down"}
    BY DEF Inv, TypeInv
<1>3. /\ l2.file \in 1 .. Len(SourceFiles) + 1 /\ l2.token \in Nat \ {0}
      /\ l2.sites \in SUBSET CallSites /\ l2.empty \in SUBSET Nat /\ l2.tries \in 0 .. MaxRetries
    BY <1>2 DEF L2s
<1>4. Len(SourceFiles) \in Nat
    BY NoneAreTyped
<1>5. l2.file \in Nat /\ 1 <= l2.file /\ l2.file <= Len(SourceFiles) + 1
    BY <1>3, <1>4
<1> QED
    BY <1>1, <1>2, <1>3, <1>4, <1>5

(* The deep check goes on.                                                 *)
LEMMA ScanGoesOn ==
    ASSUME Inv, L2Step, server' \in {"off", "up", "down"}, l2' \in L2s,
           l2'.pc \in {"files", "tokens", "calls"}, ScanInv'
    PROVE  Inv'
<1>1. L2Inv'
    BY L2Parts DEF L2Inv, L2IsHonest
<1> QED
    BY <1>1, L2Frame

LEMMA StartServerHolds ==
    ASSUME Inv, StartServer PROVE Inv'
<1>1. L2Step /\ l2.pc = "starting"
    BY DEF StartServer
<1>2. l2 \in L2s /\ l2 = [NoL2 EXCEPT !.pc = "starting"] /\ server = "off"
    BY <1>1 DEF Inv, TypeInv, L2Inv
<1>3. /\ l2.file = 1 /\ l2.token = 1 /\ ~l2.hover /\ l2.sites = {} /\ l2.empty = {}
      /\ l2.said = {}
    BY <1>2 DEF NoL2
<1>4. CASE server' = "up" /\ l2' = [l2 EXCEPT !.pc = "files"]
    <2>1. /\ l2' \in L2s /\ l2'.pc = "files" /\ l2'.file = 1 /\ l2'.token = 1 /\ ~l2'.hover
          /\ l2'.sites = {} /\ l2'.empty = {} /\ l2'.said = {}
        BY <1>2, <1>3, <1>4 DEF L2s
    <2>2. Finished' = {}
        BY <2>1 DEF Finished
    <2>3. SitesOf(Finished \ l2.empty)' = {}
        BY <2>2 DEF SitesOf
    <2>4. ScanInv'
        BY <1>4, <2>1, <2>2, <2>3 DEF ScanInv
    <2> QED
        BY <1>1, <1>4, <2>1, <2>4, ScanGoesOn
<1>5. CASE l2' = Say({"unavailable"}) /\ UNCHANGED server
    <2>1. /\ l2' \in L2s /\ l2'.pc = "done" /\ l2'.sites = {} /\ l2'.said = {"unavailable"}
        BY <1>2, <1>3, <1>5 DEF L2s, Say
    <2>2. L2Inv'
        BY <1>1, <2>1, L2Parts DEF L2Inv, L2IsHonest
    <2> QED
        BY <1>1, <1>2, <1>5, <2>1, <2>2, L2Frame
<1> QED
    BY <1>4, <1>5 DEF StartServer

LEMMA ScanIsOn ==
    ASSUME Inv, l2.pc \in {"files", "tokens", "calls"}
    PROVE  ScanInv
BY DEF Inv, L2Inv

LEMMA OpenDocumentHolds ==
    ASSUME Inv, OpenDocument PROVE Inv'
<1>1. /\ L2Step /\ l2.pc = "files" /\ l2.file <= Len(SourceFiles) /\ UNCHANGED server
      /\ l2' = [l2 EXCEPT !.pc = "tokens", !.open = TRUE, !.tries = 0]
    BY DEF OpenDocument
<1>2. l2 \in L2s /\ ScanInv /\ 0 \in 0 .. MaxRetries
    BY <1>1, L2Parts, ScanIsOn, ProviderAssumption DEF ProviderAssumption
<1>3. /\ l2' \in L2s /\ l2'.pc = "tokens" /\ l2'.file = l2.file /\ l2'.token = l2.token
      /\ l2'.hover = l2.hover /\ l2'.sites = l2.sites /\ l2'.empty = l2.empty
      /\ l2'.said = l2.said
    BY <1>1, <1>2 DEF L2s
<1>4. Finished' = Finished
    BY <1>3 DEF Finished
<1>5. ScanInv'
    BY <1>1, <1>2, <1>3, <1>4 DEF ScanInv
<1> QED
    BY <1>1, <1>3, <1>5, L2Parts, ScanGoesOn

(* The file the deep check is at is done.                                  *)
LEMMA FinishedGrows ==
    ASSUME Inv, L2Step, l2'.file = l2.file + 1
    PROVE  Finished' = Finished \cup {l2.file} /\ l2.file \notin Finished
<1>1. l2.file \in Nat /\ 1 <= l2.file
    BY L2Parts
<1> QED
    BY <1>1 DEF Finished

LEMMA NextFileIs ==
    ASSUME NEW s \in L2s, s.file \in Nat, 1 <= s.file, s.file <= Len(SourceFiles)
    PROVE  LET n == NextFile(s)
           IN  /\ n \in L2s /\ n.pc = "files" /\ n.file = s.file + 1 /\ n.token = 1 /\ ~n.hover
               /\ n.sites = s.sites /\ n.empty = s.empty /\ n.said = s.said
<1>1. PICK n : n = s.file + 1
    OBVIOUS
<1>2. n \in 1 .. Len(SourceFiles) + 1
    BY <1>1, NoneAreTyped
<1>3. NextFile(s) = [s EXCEPT !.pc = "files", !.open = FALSE, !.file = n, !.token = 1, !.hover = FALSE]
    BY <1>1 DEF NextFile
<1>4. PICK m : m = NextFile(s)
    OBVIOUS
<1>5. m = [s EXCEPT !.pc = "files", !.open = FALSE, !.file = n, !.token = 1, !.hover = FALSE]
    BY <1>3, <1>4
<1>6. /\ m.pc = "files" /\ m.file = n /\ m.token = 1 /\ ~m.hover
      /\ m.sites = s.sites /\ m.empty = s.empty /\ m.said = s.said
    BY <1>5 DEF L2s
<1>7. m \in L2s
    <2>1. 1 \in Nat \ {0}
        OBVIOUS
    <2> QED
        BY <1>2, <1>5, <2>1 DEF L2s
<1> QED
    BY <1>1, <1>4, <1>6, <1>7

LEMMA GetTokensHolds ==
    ASSUME Inv, GetTokens PROVE Inv'
<1>1. L2Step /\ l2.pc = "tokens" /\ UNCHANGED server
    BY DEF GetTokens
<1>2. /\ l2 \in L2s /\ ScanInv /\ l2.file <= Len(SourceFiles) /\ l2.file \in Nat /\ 1 <= l2.file
      /\ server' \in {"off", "up", "down"} /\ l2.token = 1 /\ ~l2.hover
      /\ l2.tries \in 0 .. MaxRetries /\ l2.empty \in SUBSET Nat /\ l2.file \in 1 .. Len(SourceFiles)
    <2>1. ScanInv
        BY <1>1, ScanIsOn
    <2>2. l2.file <= Len(SourceFiles) /\ l2.token = 1 /\ ~l2.hover
        BY <1>1, <2>1 DEF ScanInv
    <2> QED
        BY <1>1, <2>1, <2>2, L2Parts
<1>3. CASE server = "up" /\ l2' = [l2 EXCEPT !.pc = "calls"]
    <2>1. /\ l2' \in L2s /\ l2'.pc = "calls" /\ l2'.file = l2.file /\ l2'.token = 1
          /\ ~l2'.hover /\ l2'.sites = l2.sites /\ l2'.empty = l2.empty
          /\ l2'.said = l2.said
        BY <1>2, <1>3 DEF L2s
    <2>2. Finished' = Finished
        BY <2>1 DEF Finished
    <2>3. ReportableBefore(l2'.file, l2'.token) = {}
        BY <1>2, <2>1, NoneReportable
    <2>4. ScanInv'
        BY <1>1, <1>2, <1>3, <2>1, <2>2, <2>3 DEF ScanInv
    <2> QED
        BY <1>1, <1>2, <2>1, <2>4, ScanGoesOn
<1>4. CASE l2.tries < MaxRetries /\ l2' = [l2 EXCEPT !.tries = @ + 1]
    <2>1. l2.tries + 1 \in 0 .. MaxRetries
        BY <1>2, <1>4, ProviderAssumption DEF ProviderAssumption
    <2>2. /\ l2' \in L2s /\ l2'.pc = "tokens" /\ l2'.file = l2.file /\ l2'.token = l2.token
          /\ l2'.hover = l2.hover /\ l2'.sites = l2.sites /\ l2'.empty = l2.empty
          /\ l2'.said = l2.said
        BY <1>1, <1>2, <1>4, <2>1 DEF L2s
    <2>3. Finished' = Finished
        BY <2>2 DEF Finished
    <2>4. ScanInv'
        BY <1>1, <1>2, <2>2, <2>3 DEF ScanInv
    <2> QED
        BY <1>1, <1>2, <2>2, <2>4, ScanGoesOn
<1>5. CASE l2' = NextFile([l2 EXCEPT !.empty = @ \cup {l2.file}])
    <2>1. PICK s : s = [l2 EXCEPT !.empty = @ \cup {l2.file}]
        OBVIOUS
    <2>2. /\ s \in L2s /\ s.file = l2.file /\ s.sites = l2.sites /\ s.said = l2.said
          /\ s.empty = l2.empty \cup {l2.file}
        <3>1. l2.empty \cup {l2.file} \in SUBSET Nat
            BY <1>2
        <3> QED
            BY <1>2, <2>1, <3>1 DEF L2s
    <2>3. l2' = NextFile(s)
        BY <1>5, <2>1
    <2>4. /\ l2' \in L2s /\ l2'.pc = "files" /\ l2'.file = l2.file + 1 /\ l2'.token = 1
          /\ ~l2'.hover /\ l2'.sites = l2.sites /\ l2'.empty = l2.empty \cup {l2.file}
          /\ l2'.said = l2.said
        BY <1>2, <2>2, <2>3, NextFileIs
    <2>5. Finished' = Finished \cup {l2.file} /\ l2.file \notin Finished
        BY <1>1, <2>4, FinishedGrows
    <2>6. Finished' \ l2'.empty = Finished \ l2.empty
        BY <2>4, <2>5
    <2>7. ScanInv'
        BY <1>1, <1>2, <2>4, <2>5, <2>6 DEF ScanInv
    <2> QED
        BY <1>1, <1>2, <2>4, <2>7, ScanGoesOn
<1> QED
    BY <1>3, <1>4, <1>5 DEF GetTokens

(* Where the deep check is in a file.                                      *)
LEMMA ThisCall ==
    ASSUME Inv, L2Step, l2.pc = "calls"
    PROVE  /\ ScanInv /\ l2.file \in 1 .. Len(SourceFiles) /\ l2 \in L2s
           /\ l2.file \in Nat /\ 1 <= l2.file /\ l2.file <= Len(SourceFiles)
           /\ server \in {"up", "down"} /\ l2.token \in Nat \ {0}
           /\ MoreTokens => l2.token \in 1 .. Len(Tokens[SourceFiles[l2.file]])
           /\ l2.hover => MoreTokens /\ ThisToken.isCall /\ ThisToken.name # <<>>
           /\ ThisToken = Tokens[SourceFiles[l2.file]][l2.token]
           /\ ~MoreTokens <=> ~(l2.token <= Len(Tokens[SourceFiles[l2.file]]))
<1>1. ScanInv /\ l2 \in L2s
    BY ScanIsOn, L2Parts
<1>2. /\ l2.file \in Nat /\ 1 <= l2.file /\ l2.file <= Len(SourceFiles)
      /\ l2.file \in 1 .. Len(SourceFiles) /\ l2.token \in Nat \ {0}
    BY <1>1, L2Parts DEF ScanInv
<1>3. Len(Tokens[SourceFiles[l2.file]]) \in Nat
      /\ DOMAIN Tokens[SourceFiles[l2.file]] = 1 .. Len(Tokens[SourceFiles[l2.file]])
    BY <1>2, TokensOfFiles
<1>4. ThisToken = Tokens[SourceFiles[l2.file]][l2.token]
      /\ (MoreTokens <=> l2.token <= Len(Tokens[SourceFiles[l2.file]]))
    BY DEF ThisToken, MoreTokens, ThisL2File
<1>5. MoreTokens => l2.token \in 1 .. Len(Tokens[SourceFiles[l2.file]])
    BY <1>2, <1>3, <1>4
<1>6. l2.hover => MoreTokens /\ ThisToken.isCall /\ ThisToken.name # <<>>
    BY <1>1, <1>2, <1>3, <1>4 DEF ScanInv, ThisL2File
<1>7. server \in {"up", "down"}
    BY <1>1 DEF ScanInv
<1> QED
    BY <1>1, <1>2, <1>4, <1>5, <1>6, <1>7

(* A token is passed, with a call to report or none.                       *)
LEMMA TokenPasses ==
    ASSUME Inv, L2Step, l2.pc = "calls", MoreTokens, UNCHANGED server,
           l2' \in L2s, l2'.pc = "calls", l2'.file = l2.file, l2'.token = l2.token + 1,
           ~l2'.hover, l2'.empty = l2.empty, l2'.said = l2.said,
           l2.sites \subseteq l2'.sites,
           \A s \in l2'.sites : s \in l2.sites \/ s[1] = l2.file,
           server = "up" => l2'.sites = l2.sites \cup
             (IF IsReportable(ThisToken)
              THEN {<< l2.file, l2.token, ClassifyCallSite(QualifiedName(ThisToken, TRUE)) >>}
              ELSE {})
    PROVE  Inv'
<1>1. /\ ScanInv /\ l2.file \in 1 .. Len(SourceFiles) /\ server \in {"up", "down"}
      /\ l2.token \in 1 .. Len(Tokens[SourceFiles[l2.file]])
      /\ ThisToken = Tokens[SourceFiles[l2.file]][l2.token]
      /\ l2.file <= Len(SourceFiles)
    BY ThisCall
<1>2. Finished' = Finished
    BY DEF Finished
<1>3. PICK new : new = IF IsReportable(ThisToken)
                       THEN {<< l2.file, l2.token, ClassifyCallSite(QualifiedName(ThisToken, TRUE)) >>}
                       ELSE {}
    OBVIOUS
<1>4. ReportableBefore(l2'.file, l2'.token) = ReportableBefore(l2.file, l2.token) \cup new
    BY <1>1, <1>3, OneMoreReportable
<1>5. server = "up" => l2'.sites = SitesOf(Finished \ l2.empty)
                                     \cup (ReportableBefore(l2.file, l2.token) \cup new)
    <2>1. server = "up" => l2'.sites = l2.sites \cup new
        BY <1>3
    <2>2. PICK old, before : /\ old = SitesOf(Finished \ l2.empty)
                             /\ before = ReportableBefore(l2.file, l2.token)
        OBVIOUS
    <2>3. server = "up" => l2.sites = old \cup before
        BY <1>1, <2>2 DEF ScanInv
    <2>4. server = "up" => l2'.sites = old \cup (before \cup new)
        BY <2>1, <2>3
    <2> QED
        BY <2>2, <2>4
<1>6. \A s \in l2'.sites : s[1] \in Finished \ l2.empty \/ s[1] = l2.file
    BY <1>1 DEF ScanInv
<1>7. server = "down" =>
        \E d \in 0 .. Len(SourceFiles) :
          /\ d = l2.file
          /\ \A i \in Finished : i \in l2.empty \/ i = d \/ Reportable(i) \subseteq l2'.sites
    BY <1>1 DEF ScanInv
<1>8. l2.empty \subseteq Finished /\ l2.said = {}
    BY <1>1 DEF ScanInv
<1>9. ScanInv'
    BY <1>1, <1>2, <1>4, <1>5, <1>6, <1>7, <1>8 DEF ScanInv
<1> QED
    BY <1>1, <1>9, ScanGoesOn

LEMMA HoverHolds ==
    ASSUME Inv, Hover PROVE Inv'
<1>1. L2Step /\ l2.pc = "calls" /\ MoreTokens /\ ~l2.hover /\ UNCHANGED server
    BY DEF Hover
<1>2. /\ ScanInv /\ l2 \in L2s /\ l2.token \in Nat \ {0} /\ server \in {"up", "down"}
      /\ l2.token \in 1 .. Len(Tokens[SourceFiles[l2.file]])
      /\ l2.file \in 1 .. Len(SourceFiles)
    BY <1>1, ThisCall
<1>3. CASE /\ ThisToken.isCall /\ server = "up" /\ ThisToken.name # <<>>
           /\ l2' = [l2 EXCEPT !.hover = TRUE]
    <2>1. /\ l2' \in L2s /\ l2'.pc = "calls" /\ l2'.file = l2.file /\ l2'.token = l2.token
          /\ l2'.hover /\ l2'.sites = l2.sites /\ l2'.empty = l2.empty
          /\ l2'.said = l2.said
        BY <1>1, <1>2, <1>3 DEF L2s
    <2>2. Finished' = Finished /\ ThisToken' = ThisToken /\ ThisL2File' = ThisL2File
        BY <2>1 DEF Finished, ThisToken, ThisL2File
    <2>3. l2.token \in DOMAIN Tokens[ThisL2File]
        BY <1>2, TokensOfFiles DEF ThisL2File
    <2>4. ScanInv'
        BY <1>1, <1>2, <1>3, <2>1, <2>2, <2>3 DEF ScanInv
    <2> QED
        BY <1>1, <1>2, <2>1, <2>4, ScanGoesOn
<1>4. CASE /\ ~(ThisToken.isCall /\ server = "up" /\ ThisToken.name # <<>>)
           /\ l2' = NextToken(l2)
    <2>1. l2.token + 1 \in Nat \ {0}
        BY <1>2
    <2>2. /\ l2' \in L2s /\ l2'.pc = "calls" /\ l2'.file = l2.file
          /\ l2'.token = l2.token + 1 /\ ~l2'.hover /\ l2'.sites = l2.sites
          /\ l2'.empty = l2.empty /\ l2'.said = l2.said
        BY <1>1, <1>2, <1>4, <2>1 DEF L2s, NextToken
    <2>3. server = "up" => ~IsReportable(ThisToken)
        BY <1>4 DEF IsReportable
    <2> QED
        BY <1>1, <2>2, <2>3, TokenPasses
<1> QED
    BY <1>3, <1>4 DEF Hover

LEMMA ClassifyHolds ==
    ASSUME Inv, Classify PROVE Inv'
<1>1. L2Step /\ l2.pc = "calls" /\ l2.hover /\ UNCHANGED server
    BY DEF Classify
<1>2. /\ ScanInv /\ l2 \in L2s /\ l2.token \in Nat \ {0} /\ l2.file \in Nat
      /\ MoreTokens /\ ThisToken.isCall /\ ThisToken.name # <<>>
      /\ l2.sites \in SUBSET CallSites
    BY <1>1, ThisCall, L2Parts
<1>3. PICK level : level = ClassifyCallSite(QualifiedName(ThisToken, server = "up"))
    OBVIOUS
<1>4. level \in {"", "escape", "input", "system"}
    BY <1>3, Levels
<1>5. PICK site : site = << l2.file, l2.token, level >>
    OBVIOUS
<1>6. site \in CallSites /\ site[1] = l2.file
    BY <1>2, <1>4, <1>5 DEF CallSites
<1>7. PICK sites : sites = IF level = "" THEN l2.sites ELSE l2.sites \cup {site}
    OBVIOUS
<1>8. sites \in SUBSET CallSites
    BY <1>2, <1>6, <1>7
<1>9. l2' = [l2 EXCEPT !.token = l2.token + 1, !.hover = FALSE, !.sites = sites]
    <2>1. l2' = NextToken(IF level = "" THEN l2
                          ELSE [l2 EXCEPT !.sites = @ \cup {<< l2.file, l2.token, level >>}])
        BY <1>3 DEF Classify
    <2>2. CASE level = ""
        BY <1>2, <1>7, <2>1, <2>2 DEF NextToken, L2s
    <2>3. CASE level # ""
        BY <1>2, <1>5, <1>7, <2>1, <2>3 DEF NextToken, L2s
    <2> QED
        BY <2>2, <2>3
<1>10. /\ l2' \in L2s /\ l2'.pc = "calls" /\ l2'.file = l2.file
       /\ l2'.token = l2.token + 1 /\ ~l2'.hover /\ l2'.sites = sites
       /\ l2'.empty = l2.empty /\ l2'.said = l2.said
    <2>1. l2.token + 1 \in Nat \ {0}
        BY <1>2
    <2> QED
        BY <1>1, <1>2, <1>8, <1>9, <2>1 DEF L2s
<1>11. server = "up" => l2'.sites = l2.sites \cup
         (IF IsReportable(ThisToken)
          THEN {<< l2.file, l2.token, ClassifyCallSite(QualifiedName(ThisToken, TRUE)) >>}
          ELSE {})
    <2> SUFFICES ASSUME server = "up"
                 PROVE  l2'.sites = l2.sites \cup
                          (IF IsReportable(ThisToken)
                           THEN {<< l2.file, l2.token,
                                    ClassifyCallSite(QualifiedName(ThisToken, TRUE)) >>}
                           ELSE {})
        OBVIOUS
    <2>1. QualifiedName(ThisToken, server = "up") = QualifiedName(ThisToken, TRUE)
        BY DEF QualifiedName
    <2>2. level = ClassifyCallSite(QualifiedName(ThisToken, TRUE))
        BY <1>3, <2>1
    <2>3. IsReportable(ThisToken) <=> level # ""
        BY <1>2, <2>2 DEF IsReportable
    <2> QED
        BY <1>5, <1>7, <1>10, <2>2, <2>3
<1>12. l2.sites \subseteq l2'.sites /\ \A s \in l2'.sites : s \in l2.sites \/ s[1] = l2.file
    BY <1>6, <1>7, <1>10
<1> QED
    BY <1>1, <1>2, <1>10, <1>11, <1>12, TokenPasses

LEMMA CloseDocumentHolds ==
    ASSUME Inv, CloseDocument PROVE Inv'
<1>1. L2Step /\ l2.pc = "calls" /\ ~MoreTokens /\ UNCHANGED server /\ l2' = NextFile(l2)
    BY DEF CloseDocument
<1>2. /\ ScanInv /\ l2 \in L2s /\ l2.token \in Nat \ {0} /\ server \in {"up", "down"}
      /\ l2.file \in 1 .. Len(SourceFiles) /\ l2.file \in Nat /\ 1 <= l2.file
      /\ l2.file <= Len(SourceFiles)
      /\ ~(l2.token <= Len(Tokens[SourceFiles[l2.file]]))
    BY <1>1, ThisCall
<1>3. /\ l2' \in L2s /\ l2'.pc = "files" /\ l2'.file = l2.file + 1 /\ l2'.token = 1
      /\ ~l2'.hover /\ l2'.sites = l2.sites /\ l2'.empty = l2.empty /\ l2'.said = l2.said
    BY <1>1, <1>2, NextFileIs
<1>4. Finished' = Finished \cup {l2.file} /\ l2.file \notin Finished
    BY <1>1, <1>3, FinishedGrows
<1>5. l2.empty \subseteq Finished /\ l2.said = {}
    BY <1>2 DEF ScanInv
<1>6. Finished' \ l2'.empty = (Finished \ l2.empty) \cup {l2.file}
    BY <1>3, <1>4, <1>5
<1>7. SitesOf(Finished' \ l2'.empty) = SitesOf(Finished \ l2.empty) \cup Reportable(l2.file)
    BY <1>6 DEF SitesOf
<1>8. ReportableBefore(l2.file, l2.token) = Reportable(l2.file)
    BY <1>2, AllReportable
<1>9. server = "up" => l2'.sites = SitesOf(Finished' \ l2'.empty)
    BY <1>1, <1>2, <1>3, <1>7, <1>8 DEF ScanInv
<1>10. \A s \in l2'.sites : s[1] \in Finished' \ l2'.empty
    BY <1>1, <1>2, <1>3, <1>6 DEF ScanInv
<1>11. server = "down" =>
         \E d \in 0 .. Len(SourceFiles) :
            \A i \in Finished' : i \in l2'.empty \/ i = d \/ Reportable(i) \subseteq l2'.sites
    BY <1>1, <1>2, <1>3, <1>4 DEF ScanInv
<1>12. ScanInv'
    BY <1>1, <1>2, <1>3, <1>4, <1>5, <1>9, <1>10, <1>11 DEF ScanInv
<1> QED
    BY <1>1, <1>2, <1>3, <1>12, ScanGoesOn

LEMMA EndL2Holds ==
    ASSUME Inv, EndL2 PROVE Inv'
<1>1. L2Step /\ l2.pc = "files" /\ l2.file > Len(SourceFiles) /\ UNCHANGED server
    BY DEF EndL2
<1>2. ScanInv /\ l2 \in L2s /\ server \in {"up", "down"} /\ l1'.pc = "done"
    BY <1>1, ScanIsOn, L2Parts DEF ScanInv
<1>3. PICK n \in Nat : n = Len(SourceFiles) /\ DOMAIN SourceFiles = 1 .. n
    <2>1. SourceFiles \in Seq(Files)
        BY ProviderAssumption DEF ProviderAssumption
    <2> QED
        BY <2>1
<1>4. Finished = 1 .. n
    <2>1. l2.file \in Nat /\ l2.file <= n + 1 /\ l2.file > n
        BY <1>1, <1>3, L2Parts
    <2>2. l2.file = n + 1
        BY <2>1, <1>3
    <2>3. n + 1 - 1 = n
        BY <1>3
    <2> QED
        BY <2>2, <2>3 DEF Finished
<1>5. IsFiniteSet(1 .. n) /\ Cardinality(1 .. n) = n
    <2>1. 1 \in Int /\ n \in Int
        OBVIOUS
    <2>2. IsFiniteSet(1 .. n) /\ Cardinality(1 .. n) = (IF 1 > n THEN 0 ELSE n - 1 + 1)
        BY <2>1, FS_Interval
    <2>3. (IF 1 > n THEN 0 ELSE n - 1 + 1) = n
        OBVIOUS
    <2> QED
        BY <2>2, <2>3
<1>6. l2.empty \subseteq 1 .. n /\ l2.said = {}
    BY <1>2, <1>4 DEF ScanInv
<1>7. Cardinality(l2.empty) = n <=> l2.empty = 1 .. n
    <2>1. Cardinality(l2.empty) = Cardinality(1 .. n) => l2.empty = 1 .. n
        BY <1>5, <1>6, FS_Subset
    <2> QED
        BY <1>5, <2>1
<1>8. CASE SourceFiles # <<>> /\ Cardinality(l2.empty) = Len(SourceFiles)
    <2>1. l2' = Say({"no tokens"})
        BY <1>8 DEF EndL2
    <2>2. l2' \in L2s /\ l2'.pc = "done" /\ l2'.sites = l2.sites /\ l2'.said = {"no tokens"}
        BY <1>2, <1>6, <2>1 DEF L2s, Say
    <2>3. l2.sites = {}
        <3>1. l2.empty = 1 .. n
            BY <1>3, <1>7, <1>8
        <3>2. \A s \in l2.sites : s[1] \in Finished \ l2.empty
            BY <1>1, <1>2 DEF ScanInv
        <3> QED
            BY <1>4, <3>1, <3>2
    <2>4. L2IsHonest'
        BY <2>2, <2>3 DEF L2IsHonest
    <2>5. L2Inv'
        BY <1>2, <2>2, <2>4 DEF L2Inv
    <2> QED
        BY <1>1, <1>2, <2>2, <2>5, L2Frame
<1>9. CASE ~(SourceFiles # <<>> /\ Cardinality(l2.empty) = Len(SourceFiles))
    <2>1. PICK what : what = {"completed"} \cup IF l2.empty = {} THEN {} ELSE {"not analyzed"}
        OBVIOUS
    <2>2. l2' = Say(what)
        BY <1>9, <2>1 DEF EndL2
    <2>3. /\ l2' \in L2s /\ l2'.pc = "done" /\ l2'.sites = l2.sites /\ l2'.said = what
          /\ l2'.empty = l2.empty
        BY <1>2, <1>6, <2>1, <2>2 DEF L2s, Say
    <2>4. SourceFiles # <<>> => l2.empty # DOMAIN SourceFiles
        BY <1>3, <1>7, <1>9
    <2>5. PICK hiding : hiding =
            {i \in DOMAIN SourceFiles :
               ~(Reportable(i) \subseteq l2.sites) /\ ~(i \in l2.empty /\ "not analyzed" \in what)}
        OBVIOUS
    <2>6. \A i \in hiding : i \in 1 .. n /\ i \notin l2.empty /\ ~(Reportable(i) \subseteq l2.sites)
        BY <1>3, <2>1, <2>5
    <2>7. server = "up" => l2.sites = SitesOf(1 .. n \ l2.empty)
        <3>1. server = "up" => l2.sites = SitesOf(Finished \ l2.empty) \cup {}
            BY <1>1, <1>2 DEF ScanInv
        <3> QED
            BY <1>4, <3>1
    <2>8. server = "up" => hiding = {}
        <3>1. server = "up" => \A i \in 1 .. n \ l2.empty : Reportable(i) \subseteq l2.sites
            BY <2>7 DEF SitesOf
        <3> QED
            BY <2>6, <3>1
    <2>9. server = "down" => \E d : hiding \subseteq {d}
        BY <1>2, <1>4, <2>6 DEF ScanInv
    <2>10. hiding # {} => server = "down" /\ Cardinality(hiding) = 1
        <3> SUFFICES ASSUME hiding # {} PROVE server = "down" /\ Cardinality(hiding) = 1
            OBVIOUS
        <3>1. server = "down"
            BY <1>2, <2>8
        <3>2. PICK d : hiding = {d}
            BY <2>9, <3>1
        <3> QED
            BY <3>1, <3>2, FS_Singleton
    <2>11. server = "up" => l2.sites = UNION {Reportable(i) : i \in DOMAIN SourceFiles \ l2.empty}
        BY <1>3, <2>7 DEF SitesOf
    <2>12. "completed" \in l2'.said
        BY <2>1, <2>3
    <2>13. L2IsHonest'
        <3>1. hiding = {i \in DOMAIN SourceFiles :
                 ~(Reportable(i) \subseteq l2'.sites) /\ ~(i \in l2'.empty /\ "not analyzed" \in l2'.said)}
            BY <2>3, <2>5
        <3>2. server = "up" =>
                l2'.sites = UNION {Reportable(i) : i \in DOMAIN SourceFiles \ l2'.empty}
            BY <2>3, <2>11
        <3> QED
            BY <1>1, <2>3, <2>4, <2>10, <2>12, <3>1, <3>2 DEF L2IsHonest
    <2>14. L2Inv'
        BY <1>2, <2>3, <2>13 DEF L2Inv
    <2> QED
        BY <1>1, <1>2, <2>3, <2>14, L2Frame
<1> QED
    BY <1>8, <1>9

LEMMA ServerDiesHolds ==
    ASSUME Inv, ServerDies PROVE Inv'
<1>1. /\ server = "up" /\ l2.pc # "done" /\ server' = "down"
      /\ UNCHANGED << content, present, tool, client, installed, l1, l2 >>
    BY DEF ServerDies
<1>2. faults \in Nat /\ MaxFaults \in Nat /\ faults < MaxFaults /\ faults' = faults + 1
    BY ExtractorAssumption DEF ExtractorAssumption, Inv, TypeInv, ServerDies
<1>3. faults' > 0 /\ faults' \in 0 .. MaxFaults
    BY <1>2
<1>4. Later
    BY <1>1, <1>3 DEF Later
<1>5. TypeInv'
    BY <1>1, <1>3 DEF Inv, TypeInv
<1>6. L1Inv'
    BY <1>1, <1>4, L1Stays DEF Inv
<1>7. PipeInv'
    <2>1. /\ GoodReply(client.request, tool.out) => GoodReply(client.request, tool.out)'
          /\ GoodReply(client.request, client.reply) => GoodReply(client.request, client.reply)'
        BY <1>1, <1>4, ReplyStays
    <2>2. WorkInv => WorkInv'
        BY <1>1, <1>4 DEF WorkInv, Covers, AreSymbolsOf, Later
    <2> QED
        BY <1>1, <1>3, <2>1, <2>2 DEF Inv, PipeInv, IsRequest
<1>8. l2 \in L2s /\ l2.pc \in {"files", "tokens", "calls"} /\ ScanInv
    <2>1. l2 \in L2s
        BY DEF Inv, TypeInv
    <2>2. l2.pc \in {"off", "starting", "files", "tokens", "calls", "done"}
        BY <2>1 DEF L2s
    <2> QED
        BY <1>1, <2>1, <2>2 DEF Inv, L2Inv
<1>9. Finished' = Finished
    BY <1>1 DEF Finished
<1>10. \A i \in Finished : i \in l2.empty \/ Reportable(i) \subseteq l2.sites
    BY <1>1, <1>8 DEF ScanInv, SitesOf
<1>11. \E d \in 0 .. Len(SourceFiles) : l2.pc = "calls" => d = l2.file
    <2>1. Len(SourceFiles) \in Nat /\ l2.file \in 1 .. Len(SourceFiles) + 1
        BY <1>8, NoneAreTyped DEF L2s
    <2>2. CASE l2.pc = "calls"
        <3>1. l2.file \in 0 .. Len(SourceFiles)
            BY <1>8, <2>1, <2>2 DEF ScanInv
        <3> QED
            BY <3>1
    <2>3. CASE l2.pc # "calls"
        <3>1. 0 \in 0 .. Len(SourceFiles)
            BY <2>1
        <3> QED
            BY <2>3, <3>1
    <2> QED
        BY <2>2, <2>3
<1>12. ScanInv'
    BY <1>1, <1>8, <1>9, <1>10, <1>11 DEF ScanInv, ThisToken, ThisL2File
<1>13. L2Inv'
    BY <1>1, <1>8, <1>12 DEF Inv, L2Inv, L2IsHonest
<1> QED
    BY <1>5, <1>6, <1>7, <1>13 DEF Inv

-----------------------------------------------------------------------------
(* All together.                                                           *)

LEMMA StutterHolds ==
    ASSUME Inv, UNCHANGED vars PROVE Inv'
<1>1. /\ UNCHANGED << content, present, tool, faults, client, installed, l1, server, l2 >>
      /\ Later
    BY DEF vars, toolVars, Later
<1>2. TypeInv'
    BY <1>1 DEF Inv, TypeInv
<1>3. PipeInv'
    BY <1>1 DEF Inv, PipeInv, IsRequest, GoodReply, Complete, Covers, AreSymbolsOf, WorkInv
<1>4. L1Inv' /\ L2Inv'
    BY <1>1, ToolFrame
<1> QED
    BY <1>2, <1>3, <1>4 DEF Inv

LEMMA NextHolds ==
    ASSUME Inv, [Next]_vars PROVE Inv'
<1>1. CASE ClientStep
    BY <1>1, StartHolds, WriteHolds, CloseStdinHolds, DrainHolds DEF ClientStep
<1>2. CASE ToolWorks
    BY <1>2, ReadRequestHolds, LiftFileHolds, SymbolFileHolds, AnswerHolds
       DEF ToolWorks, ToolStep
<1>3. CASE ProviderStep
    BY <1>3, ProbeHolds, ChooseHolds, AskToolHolds, TakeSymbolsHolds, AskRegexHolds,
       EndL1Holds, StartServerHolds, OpenDocumentHolds, GetTokensHolds, HoverHolds,
       ClassifyHolds, CloseDocumentHolds, EndL2Holds
       DEF ProviderStep
<1>4. CASE ToolFault
    BY <1>4, ToolDiesHolds, FileVanishesHolds DEF ToolFault
<1> QED
    BY <1>1, <1>2, <1>3, <1>4, ServerDiesHolds, StutterHolds DEF Next

(* Inv holds in every state of a check or a transpile, whatever ends the   *)
(* tool or the language server and whichever file goes away on the way.    *)
THEOREM Invariance == Spec => []Inv
<1>1. Init => Inv
    BY InitHolds
<1>2. Inv /\ [Next]_vars => Inv'
    BY NextHolds
<1> QED
    BY <1>1, <1>2, PTL DEF Spec

(* Every variable keeps its type (TypeOK).                                 *)
THEOREM TypeCorrect == Spec => []TypeOK
<1>1. Inv => TypeOK
    <2> SUFFICES ASSUME Inv PROVE TypeOK
        OBVIOUS
    <2>1. /\ present \in SUBSET Files /\ tool \in Tools /\ faults \in 0 .. MaxFaults
          /\ client \in Clients /\ l1 \in L1s /\ Len(l1.answers) <= Len(SourceFiles)
          /\ server \in {"off", "up", "down"} /\ l2 \in L2s
        BY DEF Inv, TypeInv
    <2>2. tool.pc \in {"none", "stdin", "work", "exited"} /\ tool.status \in {"", "0", "1", "signal"}
        BY <2>1 DEF Tools
    <2>3. client.pc \in {"idle", "start", "write", "close", "read", "got"}
        BY <2>1 DEF Clients
    <2>4. l1.pc \in {"off", "probing", "extracting", "done"} /\ l1.extractor \in {"none", "ast", "regex"}
        BY <2>1 DEF L1s
    <2>5. /\ l2.pc \in {"off", "starting", "files", "tokens", "calls", "done"}
          /\ l2.tries \in 0 .. MaxRetries /\ l2.file \in 1 .. Len(SourceFiles) + 1
        BY <2>1 DEF L2s
    <2> QED
        BY <2>1, <2>2, <2>3, <2>4, <2>5 DEF TypeOK
<1> QED
    BY <1>1, Invariance, PTL

-----------------------------------------------------------------------------
(* What the driver of a transpile has got.                                 *)

LEMMA LiftedIsComplete ==
    ASSUME Inv, Lifted
    PROVE  /\ Complete(client.request, client.reply)
           /\ client.request.files \in Seq(Files)
           /\ client.reply.functions \in Seq(FunctionRecords)
           /\ client.reply.types \in Seq(TypeRecords)
           /\ \A f \in Range(client.request.files) : content[f] \in Contents
<1>1. client \in Clients /\ content \in [Files -> Contents]
    BY DEF Inv, TypeInv
<1>2. /\ client.request.files \in Seq(Files) /\ client.reply.functions \in Seq(FunctionRecords)
      /\ client.reply.types \in Seq(TypeRecords)
    BY <1>1 DEF Clients, Requests, Outs
<1>3. GoodReply(client.request, client.reply)
    BY DEF Inv, PipeInv, Lifted, NoOut
<1>4. Complete(client.request, client.reply)
    BY <1>3 DEF GoodReply, Lifted
<1>5. \A f \in Range(client.request.files) : f \in Files
    BY <1>2 DEF Range
<1> QED
    BY <1>1, <1>2, <1>4, <1>5

LEMMA InRange ==
    ASSUME NEW seq, NEW e \in Range(seq)
    PROVE  \E i \in DOMAIN seq : seq[i] = e
BY DEF Range

(* The driver of a transpile has all functions it asked for, of files that *)
(* all parse, or nothing (AllOrNothing): the tool collects what is missing *)
(* and exits before it writes (index.mjs:1134), and a reply that was cut   *)
(* off is no reply.                                                        *)
THEOREM AnswersAreWhole == Spec => []AllOrNothing
<1>1. Inv => AllOrNothing
    <2> SUFFICES ASSUME Inv, client.pc = "got", client.request.mode # "symbols"
                 PROVE  \/ client.reply.form # "whole" /\ client.reply.functions = <<>>
                        \/ /\ \A f \in Range(client.request.files) : ~content[f].broken
                           /\ client.request.functions \subseteq
                                {fn.qualifiedName : fn \in Range(client.reply.functions)}
        BY DEF AllOrNothing
    <2>1. CASE client.reply.form # "whole"
        BY <2>1 DEF Inv, PipeInv, GoodReply, NoOut
    <2>2. CASE client.reply.form = "whole"
        <3>1. Complete(client.request, client.reply)
            BY <2>2, LiftedIsComplete DEF Lifted
        <3> QED
            BY <3>1 DEF Complete, Covers
    <2> QED
        BY <2>1, <2>2
<1> QED
    BY <1>1, Invariance, PTL

(* In the reply a driver gets, each function it asked for has been         *)
(* downgraded, with a list of what is unsupported, only if there is        *)
(* something in it that the answer cannot express, and whenever there is   *)
(* where the lift looks, but for the four kinds it overlooks against       *)
(* index.mjs:22-26 (UnsupportedIsRecorded): a rescan of a file, a later    *)
(* body of the same name or another file does not replace what the lift    *)
(* has recorded of it.                                                     *)
THEOREM LossesAreRecorded == Spec => []UnsupportedIsRecorded
<1>1. Inv => UnsupportedIsRecorded
    <2> SUFFICES ASSUME Inv, Lifted, NEW f \in Range(client.request.files),
                        NEW e \in BodiesAsked(f)
                 PROVE  \E i \in DOMAIN client.reply.functions :
                          /\ client.reply.functions[i].qualifiedName = e.qname
                          /\ IsRecorded(client.reply.functions[i], e.item.decl)
        BY DEF UnsupportedIsRecorded, ForEachLifted
    <2>1. content[f] \in Contents /\ Complete(client.request, client.reply)
        BY LiftedIsComplete
    <2>2. PICK c \in Contents : c = content[f]
        BY <2>1
    <2>3. PICK all : all = Bodies(c.items)
        OBVIOUS
    <2>4. PICK j \in DOMAIN all :
            /\ e = all[j]
            /\ client.request.functions = {} \/ all[j].qname \in client.request.functions
            /\ \A k \in DOMAIN all : k > j => all[k].qname # all[j].qname
        BY <2>2, <2>3 DEF BodiesAsked
    <2>5. PICK found : found = CollectFunctions(c.items)
        OBVIOUS
    <2>6. found \in Seq(BodyEntries) /\ e \in Range(found)
        <3>1. c.items \in Seq(Items)
            BY ContentParts
        <3> QED
            BY <2>3, <2>4, <2>5, <3>1, CollectedFunctions
    <2>7. PICK k \in DOMAIN found : found[k] = e
        BY <2>6, InRange
    <2>8. PICK fn : fn = LiftFunction(e.qname, e.item.decl)
        OBVIOUS
    <2>9. fn \in Range(LiftedFunctions[c])
        <3>1. LiftedFunctions[c] =
                [i \in DOMAIN found |-> LiftFunction(found[i].qname, found[i].item.decl)]
            BY <2>5, LiftedIs
        <3>2. k \in DOMAIN LiftedFunctions[c] /\ LiftedFunctions[c][k] = fn
            BY <2>7, <2>8, <3>1
        <3> QED
            BY <3>2 DEF Range
    <2>10. fn.qualifiedName = e.qname
        BY <2>8, FunctionNamed
    <2>11. fn \in Range(client.reply.functions)
        <3>1. Covers(client.request, client.reply.functions, client.reply.types, f)
            BY <2>1 DEF Complete
        <3> QED
            BY <2>2, <2>4, <2>9, <2>10, <3>1 DEF Covers
    <2>12. e.item.decl \in Decls
        <3>1. e \in BodyEntries
            BY <2>6, <2>7
        <3>2. e.item \in Items
            BY <3>1 DEF BodyEntries
        <3> QED
            BY <3>2, ItemParts
    <2>13. IsRecorded(fn, e.item.decl)
        BY <2>8, <2>12, LiftIsRecorded
    <2> QED
        BY <2>10, <2>11, <2>13, InRange
<1> QED
    BY <1>1, Invariance, PTL

(* A reply to a driver has the types of all files, but those in a          *)
(* namespace A.B { }, which the walk passes by (index.mjs:607), with one   *)
(* class base at most for a class and none for an interface                *)
(* (TypesAreComplete), whichever functions were asked for (538, 1124).     *)
THEOREM TypesAreThere == Spec => []TypesAreComplete
<1>1. Inv => TypesAreComplete
    <2> SUFFICES ASSUME Inv, Lifted, NEW f \in Range(client.request.files),
                        NEW d \in TypesIn(content[f].items), ~InDotted(d)
                 PROVE  \E i \in DOMAIN client.reply.types :
                          LET type == client.reply.types[i]
                              classes == {b \in DOMAIN type.bases : type.bases[b].kind = "class"}
                          IN  /\ type.qualifiedName = NamesIn(d)
                              /\ Cardinality(classes) <= IF Last(d).kind = "class" THEN 1 ELSE 0
        BY DEF TypesAreComplete
    <2>1. content[f] \in Contents /\ Complete(client.request, client.reply)
        BY LiftedIsComplete
    <2>2. PICK c \in Contents : c = content[f]
        BY <2>1
    <2>3. PICK y \in Items : y.kind = Last(d).kind
                             /\ LiftType(NamesIn(d), y) \in Range(CollectTypes(c.items))
        <3>1. c.items \in Seq(Items)
            BY ContentParts
        <3> QED
            BY <2>2, <3>1, CollectedTypes
    <2>4. PICK name, type : name = NamesIn(d) /\ type = LiftType(name, y)
        OBVIOUS
    <2>5. type \in Range(client.reply.types)
        <3>1. Covers(client.request, client.reply.functions, client.reply.types, f)
            BY <2>1 DEF Complete
        <3>2. LiftedTypes[c] = CollectTypes(c.items)
            BY LiftedIs
        <3> QED
            BY <2>2, <2>3, <2>4, <3>1, <3>2 DEF Covers
    <2>6. PICK i \in DOMAIN client.reply.types : client.reply.types[i] = type
        BY <2>5, InRange
    <2>7. /\ type.qualifiedName = name
          /\ Cardinality({b \in DOMAIN type.bases : type.bases[b].kind = "class"})
               <= IF y.kind = "class" THEN 1 ELSE 0
        BY <2>4, ClassBases
    <2> QED
        BY <2>3, <2>4, <2>6, <2>7
<1> QED
    BY <1>1, Invariance, PTL

(* Symbol extraction has the exported symbols of each file, all but those  *)
(* in a namespace A.B { }, which the walk passes by (index.mjs:995), or    *)
(* fell back to the regular expressions with a warning, or a fault took    *)
(* the symbols of that file away (SymbolsAreExactOrSaid;                   *)
(* TypeScriptASTSymbolExtractor.cpp).                                      *)
THEOREM SymbolsAreSaid == Spec => []SymbolsAreExactOrSaid
<1>1. Inv => SymbolsAreExactOrSaid
    <2> SUFFICES ASSUME Inv, NEW i \in DOMAIN l1.answers
                 PROVE  LET answer == l1.answers[i]
                            file == content[SourceFiles[i]]
                        IN  \/ answer.by = "regex" /\ l1.warned
                            \/ /\ answer.by = "ast"
                               /\ FoundIn(answer) \subseteq ExportedOf[file]
                               /\ InReachOf[file] \subseteq FoundIn(answer)
                            \/ answer.by = "ast" /\ FoundIn(answer) = {} /\ faults > 0
        BY DEF SymbolsAreExactOrSaid
    <2>1. PICK answer, file : answer = l1.answers[i] /\ file = SourceFiles[i]
        OBVIOUS
    <2>2. FoundIn(answer) = Triples(answer.symbols)
        BY DEF FoundIn, Triples, Triple
    <2>3. GoodAnswer(i, answer)
        BY <2>1 DEF Inv, L1Inv
    <2>4. CASE answer.by = "regex" /\ l1.extractor = "regex"
        BY <2>1, <2>4 DEF Inv, L1Inv
    <2>5. CASE answer.by = "ast" /\ answer.symbols = <<>> /\ faults > 0
        <3>1. Triples(answer.symbols) = {}
            BY <2>5, NoSymbols
        <3> QED
            BY <2>1, <2>2, <2>5, <3>1
    <2>6. CASE answer.by = "ast" /\ answer.symbols = FoundSymbols[content[file]]
        <3>1. file \in Files
            <4>1. PICK n \in Nat : n = Len(SourceFiles)
                BY NoneAreTyped
            <4>2. PICK answers : answers = l1.answers
                OBVIOUS
            <4>3. answers \in Seq(AnswerRecords) /\ Len(answers) <= n
                BY <4>1, <4>2 DEF Inv, TypeInv, L1s, AnswerRecords
            <4>4. Len(answers) \in Nat /\ i \in 1 .. Len(answers)
                BY <4>2, <4>3
            <4>5. i \in 1 .. Len(SourceFiles)
                BY <4>1, <4>3, <4>4
            <4> QED
                BY <2>1, <4>5, TokensOfFiles
        <3>2. PICK c \in Contents : c = content[file]
            BY <3>1 DEF Inv, TypeInv
        <3>3. c.items \in Statements /\ FoundSymbols[c] = Symbols(c.items)
            BY ContentParts, LiftedIs
        <3>4. Triples(Symbols(c.items)) =
                {Described(x) : x \in {y \in Exported(c.items) : ~InDotted(y)}}
            BY <3>3, SymbolsAreExported
        <3>5. FoundIn(answer) = InReachOf[c]
            BY <2>2, <2>6, <3>2, <3>3, <3>4 DEF InReachOf
        <3>6. InReachOf[c] \subseteq ExportedOf[c]
            BY DEF InReachOf, ExportedOf
        <3> QED
            BY <2>1, <2>6, <3>2, <3>5, <3>6
    <2>7. << file >> # <<>> /\ << file >>[1] = file
        OBVIOUS
    <2> QED
        BY <2>1, <2>3, <2>4, <2>5, <2>6, <2>7 DEF GoodAnswer, AreSymbolsOf
<1> QED
    BY <1>1, Invariance, PTL

(* A deep check that says it is complete has reported every call it had    *)
(* to, but for the files it names as not analyzed and, if the language     *)
(* server went down, the one file it was at (L2IsHonest;                   *)
(* TypeScriptSafetyAnalyzer.cpp:190).                                      *)
THEOREM DeepCheckIsHonest == Spec => []L2IsHonest
<1>1. Inv => L2IsHonest
    BY DEF Inv, L2Inv
<1> QED
    BY <1>1, Invariance, PTL

-----------------------------------------------------------------------------
(* The tables of Node's built-in modules.                                  *)

LEMMA StartsWith ==
    ASSUME NEW S, NEW s \in Seq(S), NEW t \in Seq(S), NEW k \in Nat, Len(t) = k,
           k <= Len(s), \A i \in 1 .. k : s[i] = t[i]
    PROVE  SubSeq(s, 1, k) = t
<1>1. \A i \in 1 .. k : s[i] \in S
    OBVIOUS
<1>2. PICK u : u = SubSeq(s, 1, k)
    OBVIOUS
<1>3. 1 \in Int /\ k \in Int
    OBVIOUS
<1>4. /\ u \in Seq(S) /\ Len(u) = (IF 1 <= k THEN k - 1 + 1 ELSE 0)
      /\ \A i \in 1 .. k - 1 + 1 : u[i] = s[1 + i - 1]
    BY <1>1, <1>2, <1>3, SubSeqProperties
<1>5. Len(u) = k /\ k - 1 + 1 = k /\ \A i \in 1 .. k : 1 + i - 1 = i
    BY <1>4
<1>6. \A i \in 1 .. k : u[i] = t[i]
    BY <1>4, <1>5
<1>7. u = t
    BY <1>4, <1>5, <1>6, SeqEqual
<1> QED
    BY <1>2, <1>7

LEMMA FirstOne ==
    \A a : SubSeq(<< a >>, 1, 1) = << a >>
<1> SUFFICES ASSUME NEW a PROVE SubSeq(<< a >>, 1, 1) = << a >>
    OBVIOUS
<1>1. PICK s : s = << a >>
    OBVIOUS
<1>2. s \in Seq({a}) /\ Len(s) = 1
    BY <1>1
<1>3. SubSeq(s, 1, 1) = s
    BY <1>2, StartsWith
<1> QED
    BY <1>1, <1>3

LEMMA FirstsOfTwo ==
    \A a, b : SubSeq(<< a, b >>, 1, 1) = << a >> /\ SubSeq(<< a, b >>, 1, 2) = << a, b >>
<1> SUFFICES ASSUME NEW a, NEW b
             PROVE  SubSeq(<< a, b >>, 1, 1) = << a >> /\ SubSeq(<< a, b >>, 1, 2) = << a, b >>
    OBVIOUS
<1>1. PICK s, t, S : s = << a, b >> /\ t = << a >> /\ S = {a, b}
    OBVIOUS
<1>2. s \in Seq(S) /\ t \in Seq(S) /\ Len(s) = 2 /\ Len(t) = 1 /\ s[1] = t[1]
    BY <1>1
<1>3. 1 .. 1 = {1}
    OBVIOUS
<1>4. SubSeq(s, 1, 1) = t
    BY <1>2, <1>3, StartsWith
<1>5. SubSeq(s, 1, 2) = s
    BY <1>2, StartsWith
<1> QED
    BY <1>1, <1>4, <1>5

LEMMA FirstsOfThree ==
    \A a, b, c : /\ SubSeq(<< a, b, c >>, 1, 1) = << a >>
                 /\ SubSeq(<< a, b, c >>, 1, 2) = << a, b >>
                 /\ SubSeq(<< a, b, c >>, 1, 3) = << a, b, c >>
<1> SUFFICES ASSUME NEW a, NEW b, NEW c
             PROVE  /\ SubSeq(<< a, b, c >>, 1, 1) = << a >>
                    /\ SubSeq(<< a, b, c >>, 1, 2) = << a, b >>
                    /\ SubSeq(<< a, b, c >>, 1, 3) = << a, b, c >>
    OBVIOUS
<1>1. PICK s, t, u, S : s = << a, b, c >> /\ t = << a, b >> /\ u = << a >> /\ S = {a, b, c}
    OBVIOUS
<1>2. /\ s \in Seq(S) /\ t \in Seq(S) /\ u \in Seq(S)
      /\ Len(s) = 3 /\ Len(t) = 2 /\ Len(u) = 1 /\ s[1] = t[1] /\ s[2] = t[2] /\ s[1] = u[1]
    BY <1>1
<1>3. 1 .. 1 = {1} /\ 1 .. 2 = {1, 2}
    OBVIOUS
<1>4. SubSeq(s, 1, 1) = u
    BY <1>2, <1>3, StartsWith
<1>5. SubSeq(s, 1, 2) = t
    <2>1. \A i \in 1 .. 2 : s[i] = t[i]
        <3>1. s[1] = t[1] /\ s[2] = t[2]
            BY <1>2
        <3> QED
            BY <1>3, <3>1
    <2>3. 2 <= Len(s) /\ 2 \in Nat
        <3>1. Len(s) = 3
            BY <1>2
        <3> QED
            BY <3>1
    <2>2. s \in Seq(S) /\ t \in Seq(S) /\ Len(t) = 2
        BY <1>2
    <2> QED
        BY <2>1, <2>2, <2>3, StartsWith
<1>6. SubSeq(s, 1, 3) = s
    BY <1>2, StartsWith
<1> QED
    BY <1>1, <1>4, <1>5, <1>6

LEMMA Extended ==
    \A a, b, c : Append(<< a >>, b) = << a, b >> /\ Append(<< a, b >>, c) = << a, b, c >>
<1> SUFFICES ASSUME NEW a, NEW b, NEW c
             PROVE  Append(<< a >>, b) = << a, b >> /\ Append(<< a, b >>, c) = << a, b, c >>
    OBVIOUS
<1>1. PICK s, t, u, S : s = << a, b, c >> /\ t = << a, b >> /\ u = << a >> /\ S = {a, b, c}
    OBVIOUS
<1>2. /\ s \in Seq(S) /\ t \in Seq(S) /\ u \in Seq(S) /\ b \in S /\ c \in S
      /\ Len(s) = 3 /\ Len(t) = 2 /\ Len(u) = 1 /\ s[1] = t[1] /\ s[2] = t[2] /\ s[1] = u[1]
      /\ t[2] = b /\ s[3] = c
    BY <1>1
<1>3. 1 .. 1 = {1} /\ 1 .. 2 = {1, 2} /\ 1 .. 3 = {1, 2, 3} /\ 1 + 1 = 2 /\ 2 + 1 = 3
    OBVIOUS
<1>4. PICK v, w : v = Append(u, b) /\ w = Append(t, c)
    OBVIOUS
<1>5. v \in Seq(S) /\ Len(v) = 2 /\ v[1] = u[1] /\ v[2] = b
    <2>1. /\ Append(u, b) \in Seq(S) /\ Len(Append(u, b)) = Len(u) + 1
          /\ \A i \in 1 .. Len(u) : Append(u, b)[i] = u[i]
          /\ Append(u, b)[Len(u) + 1] = b
        <3>1. u \in Seq(S) /\ b \in S
            BY <1>2
        <3> QED
            BY <3>1, AppendProperties
    <2> QED
        BY <1>2, <1>3, <1>4, <2>1
<1>6. v = t
    BY <1>2, <1>3, <1>5, SeqEqual
<1>7. w \in Seq(S) /\ Len(w) = 3 /\ w[1] = t[1] /\ w[2] = t[2] /\ w[3] = c
    <2>1. /\ Append(t, c) \in Seq(S) /\ Len(Append(t, c)) = Len(t) + 1
          /\ \A i \in 1 .. Len(t) : Append(t, c)[i] = t[i]
          /\ Append(t, c)[Len(t) + 1] = c
        <3>1. t \in Seq(S) /\ c \in S
            BY <1>2
        <3> QED
            BY <3>1, AppendProperties
    <2> QED
        BY <1>2, <1>3, <1>4, <2>1
<1>8. w = s
    BY <1>2, <1>3, <1>7, SeqEqual
<1> QED
    BY <1>1, <1>4, <1>6, <1>8

LEMMA SafeOne ==
    \A a : IsStdlibSymbolSafe(<< a >>) <=> << a >> \in SafeStdlib
<1>1. \A a : Len(<< a >>) = 1
    OBVIOUS
<1>2. \A n \in 1 .. 1 : n = 1
    OBVIOUS
<1>3. 1 \in 1 .. 1
    OBVIOUS
<1> QED
    BY <1>1, <1>2, <1>3, FirstOne DEF IsStdlibSymbolSafe

LEMMA SafeTwo ==
    \A a, b : IsStdlibSymbolSafe(<< a, b >>) <=>
                << a >> \in SafeStdlib \/ << a, b >> \in SafeStdlib
<1>1. \A a, b : Len(<< a, b >>) = 2
    OBVIOUS
<1>2. \A n \in 1 .. 2 : n = 1 \/ n = 2
    OBVIOUS
<1>3. 1 \in 1 .. 2 /\ 2 \in 1 .. 2
    OBVIOUS
<1> QED
    BY <1>1, <1>2, <1>3, FirstsOfTwo DEF IsStdlibSymbolSafe

LEMMA SafeThree ==
    \A a, b, c : IsStdlibSymbolSafe(<< a, b, c >>) <=>
                   << a >> \in SafeStdlib \/ << a, b >> \in SafeStdlib \/ << a, b, c >> \in SafeStdlib
<1> SUFFICES ASSUME NEW a, NEW b, NEW c
             PROVE  IsStdlibSymbolSafe(<< a, b, c >>) <=>
                      \/ << a >> \in SafeStdlib \/ << a, b >> \in SafeStdlib
                      \/ << a, b, c >> \in SafeStdlib
    OBVIOUS
<1>1. PICK s : s = << a, b, c >>
    OBVIOUS
<1>2. Len(s) = 3 /\ 1 .. 3 = {1, 2, 3}
    BY <1>1
<1>3. SubSeq(s, 1, 1) = << a >> /\ SubSeq(s, 1, 2) = << a, b >> /\ SubSeq(s, 1, 3) = s
    BY <1>1, FirstsOfThree
<1>4. IsStdlibSymbolSafe(s) <=> \E n \in {1, 2, 3} : SubSeq(s, 1, n) \in SafeStdlib
    BY <1>2 DEF IsStdlibSymbolSafe
<1>5. IsStdlibSymbolSafe(s) <=>
        << a >> \in SafeStdlib \/ << a, b >> \in SafeStdlib \/ s \in SafeStdlib
    BY <1>3, <1>4
<1> QED
    BY <1>1, <1>5

(* The tables, by the parts of their entries.                              *)
SafeParts ==
    {"path", "util", "events", "buffer", "querystring", "url", "string_decoder",
     "assert", "timers"}
OtherParts ==
    {"Array", "Object", "Map", "Promise", "Math", "JSON", "parseInt", "setTimeout",
     "globalThis"}

LEMMA OneInStdlib ==
    \A a : << a >> \in SafeStdlib <=> a \in SafeParts \cup OtherParts
BY DEF SafeStdlib, SafeModules, SafeParts, OtherParts

LEMMA TwoInStdlib ==
    \A a, b : << a, b >> \in SafeStdlib <=> a = "timers" /\ b = "promises"
BY DEF SafeStdlib, SafeModules

LEMMA ThreeInStdlib ==
    \A a, b, c : << a, b, c >> \notin SafeStdlib
BY DEF SafeStdlib, SafeModules

LEMMA OneImported ==
    \A a : /\ << a >> \in EscapeImports <=> a \in EscapeModules
           /\ << a >> \in SystemImports <=> a \in SystemModules
           /\ << a >> \in SafeImports <=> a \in SafeParts
BY DEF EscapeImports, SystemImports, SafeImports, EscapeModules, SystemModules, SafeParts

LEMMA TwoImported ==
    \A a, b : /\ << a, b >> \notin EscapeImports
              /\ << a, b >> \in SystemImports <=> a = "fs" /\ b = "promises"
              /\ << a, b >> \in SafeImports <=> a = "timers" /\ b = "promises"
BY DEF EscapeImports, SystemImports, SafeImports

Modules == EscapeModules \cup SystemModules \cup SafeParts

LEMMA ModulesDiffer ==
    /\ EscapeModules \cap SystemModules = {} /\ EscapeModules \cap SafeParts = {}
    /\ SystemModules \cap SafeParts = {}
    /\ (EscapeModules \cup SystemModules) \cap (SafeParts \cup OtherParts) = {}
    /\ "fs" \in SystemModules /\ "timers" \in SafeParts
BY DEF EscapeModules, SystemModules, SafeParts, OtherParts

LEMMA CalledMember ==
    ASSUME NEW name, Len(name) # 1, Head(name) \in EscapeModules \cup SystemModules
    PROVE  ClassifyCall(name) = IF Head(name) \in EscapeModules THEN "escape" ELSE "system"
<1>1. PICK first : first = Head(name)
    OBVIOUS
<1>2. CASE first \in EscapeModules
    <2>1. first \notin SystemModules \cup DomNames
        BY <1>2 DEF EscapeModules, SystemModules, DomNames
    <2> QED
        BY <1>1, <1>2, <2>1 DEF ClassifyCall
<1>3. CASE first \in SystemModules /\ first \notin EscapeModules
    <2>1. first \notin {"Reflect", "Proxy", "Atomics"}
        BY <1>3 DEF SystemModules
    <2> QED
        BY <1>1, <1>3, <2>1 DEF ClassifyCall
<1> QED
    BY <1>1, <1>2, <1>3

LEMMA HeadIs == \A a, b, c : Head(<< a >>) = a /\ Head(<< a, b >>) = a /\ Head(<< a, b, c >>) = a
OBVIOUS

LEMMA ImportedOne ==
    ASSUME NEW a \in Modules
    PROVE  ClassifyImport(<< a >>) =
             IF a \in EscapeModules THEN "escape" ELSE IF a \in SystemModules THEN "system" ELSE "safe"
<1>1. PICK m : m = << a >>
    OBVIOUS
<1>2. /\ m \in EscapeImports <=> a \in EscapeModules
      /\ m \in SystemImports <=> a \in SystemModules
      /\ m \in SafeImports <=> a \in SafeParts
    BY <1>1, OneImported
<1>3. Head(m) \notin {".", "..", ""}
    <2>1. a \notin {".", "..", ""}
        BY DEF Modules, EscapeModules, SystemModules, SafeParts
    <2> QED
        BY <1>1, <2>1, HeadIs
<1>4. CASE a \in EscapeModules
    BY <1>1, <1>2, <1>3, <1>4, ModulesDiffer DEF ClassifyImport
<1>5. CASE a \in SystemModules
    BY <1>1, <1>2, <1>3, <1>5, ModulesDiffer DEF ClassifyImport
<1>6. CASE a \in SafeParts
    BY <1>1, <1>2, <1>3, <1>6, ModulesDiffer DEF ClassifyImport
<1> QED
    BY <1>4, <1>5, <1>6 DEF Modules

LEMMA ImportedTwo ==
    /\ ClassifyImport(<< "fs", "promises" >>) = "system"
    /\ ClassifyImport(<< "timers", "promises" >>) = "safe"
<1>1. PICK m : m = << "fs", "promises" >>
    OBVIOUS
<1>2. m \notin EscapeImports /\ m \in SystemImports /\ m \notin SafeImports
    BY <1>1, TwoImported
<1>3. Head(m) \notin {".", "..", ""}
    BY <1>1, HeadIs
<1>4. ClassifyImport(m) = "system"
    BY <1>2, <1>3 DEF ClassifyImport
<1>5. PICK n : n = << "timers", "promises" >>
    OBVIOUS
<1>6. n \notin EscapeImports /\ n \notin SystemImports /\ n \in SafeImports
    BY <1>5, TwoImported
<1>7. Head(n) \notin {".", "..", ""}
    BY <1>5, HeadIs
<1>8. ClassifyImport(n) = "safe"
    BY <1>6, <1>7 DEF ClassifyImport
<1> QED
    BY <1>1, <1>4, <1>5, <1>8

(* The level of a call of a member of a module, as TablesAgree has it.     *)
LevelOfMember(m) ==
    IF IsStdlibSymbolSafe(Append(m, "member")) THEN "safe" ELSE ClassifyCall(Append(m, "member"))

Agreed(m) ==
    /\ ClassifyImport(m) = LevelOfMember(m)
    /\ ClassifyImport(m) = "safe" <=> IsStdlibSymbolSafe(m)

LEMMA OnePartAgrees ==
    ASSUME NEW a \in Modules
    PROVE  Agreed(<< a >>)
<1>1. IsStdlibSymbolSafe(<< a >>) <=> a \in SafeParts \cup OtherParts
    BY SafeOne, OneInStdlib
<1>2. Append(<< a >>, "member") = << a, "member" >>
    BY Extended
<1>3. IsStdlibSymbolSafe(<< a, "member" >>) <=> a \in SafeParts \cup OtherParts
    <2>1. "member" # "promises"
        OBVIOUS
    <2>2. << a, "member" >> \notin SafeStdlib
        BY <2>1, TwoInStdlib
    <2>3. << a >> \in SafeStdlib <=> a \in SafeParts \cup OtherParts
        BY OneInStdlib
    <2> QED
        BY <2>2, <2>3, SafeTwo
<1>4. a \in EscapeModules \cup SystemModules =>
        ClassifyCall(<< a, "member" >>) = IF a \in EscapeModules THEN "escape" ELSE "system"
    <2>1. PICK name : name = << a, "member" >>
        OBVIOUS
    <2>2. Len(name) # 1 /\ Head(name) = a
        BY <2>1
    <2> QED
        BY <2>1, <2>2, CalledMember
<1>5. CASE a \in EscapeModules
    BY <1>1, <1>2, <1>3, <1>4, <1>5, ImportedOne, ModulesDiffer DEF Agreed, LevelOfMember
<1>6. CASE a \in SystemModules
    BY <1>1, <1>2, <1>3, <1>4, <1>6, ImportedOne, ModulesDiffer DEF Agreed, LevelOfMember
<1>7. CASE a \in SafeParts
    BY <1>1, <1>2, <1>3, <1>7, ImportedOne, ModulesDiffer DEF Agreed, LevelOfMember
<1> QED
    BY <1>5, <1>6, <1>7 DEF Modules

LEMMA TwoPartsAgree ==
    /\ Agreed(<< "fs", "promises" >>)
    /\ Agreed(<< "timers", "promises" >>)
<1>1. PICK fs, timers, promises, member :
        fs = "fs" /\ timers = "timers" /\ promises = "promises" /\ member = "member"
    OBVIOUS
<1>2. fs \notin SafeParts \cup OtherParts /\ timers \in SafeParts /\ fs # timers
      /\ fs \in SystemModules /\ fs \notin EscapeModules
    BY <1>1 DEF SafeParts, OtherParts, SystemModules, EscapeModules
<1>3. ~IsStdlibSymbolSafe(<< fs, promises >>) /\ ~IsStdlibSymbolSafe(<< fs, promises, member >>)
    BY <1>1, <1>2, SafeTwo, SafeThree, OneInStdlib, TwoInStdlib, ThreeInStdlib
<1>4. IsStdlibSymbolSafe(<< timers, promises >>) /\ IsStdlibSymbolSafe(<< timers, promises, member >>)
    BY <1>1, <1>2, SafeTwo, SafeThree, OneInStdlib
<1>5. /\ Append(<< fs, promises >>, member) = << fs, promises, member >>
      /\ Append(<< timers, promises >>, member) = << timers, promises, member >>
    BY Extended
<1>6. ClassifyCall(<< fs, promises, member >>) = "system"
    <2>1. PICK name : name = << fs, promises, member >>
        OBVIOUS
    <2>2. Len(name) # 1 /\ Head(name) = fs
        BY <2>1
    <2> QED
        BY <1>2, <2>1, <2>2, CalledMember
<1>7. /\ ClassifyImport(<< fs, promises >>) = "system"
      /\ ClassifyImport(<< timers, promises >>) = "safe"
    BY <1>1, ImportedTwo
<1>8. Agreed(<< fs, promises >>)
    BY <1>1, <1>3, <1>5, <1>6, <1>7 DEF Agreed, LevelOfMember
<1>9. Agreed(<< timers, promises >>)
    BY <1>1, <1>4, <1>5, <1>7 DEF Agreed, LevelOfMember
<1> QED
    BY <1>1, <1>8, <1>9

(* Every entry of a table is one of these.                                 *)
LEMMA Entries ==
    /\ \A m \in EscapeImports \cup SystemImports \cup SafeImports :
         \/ \E a \in Modules : m = << a >>
         \/ m = << "fs", "promises" >>
         \/ m = << "timers", "promises" >>
    /\ \A m \in SafeModules :
         \/ \E a \in SafeParts : m = << a >>
         \/ m = << "timers", "promises" >>
BY DEF EscapeImports, SystemImports, SafeImports, SafeModules, Modules, EscapeModules,
       SystemModules, SafeParts

(* The tables of imports, calls and safe modules                           *)
(* (TypeScriptUnsafeCatalog.cpp, TypeScriptSafePatterns.cpp) give a        *)
(* built-in module one level, and each entry of one is known to the others *)
(* (TablesAgree).                                                          *)
THEOREM TheTablesAgree == TablesAgree
<1>1. \A m \in EscapeImports \cup SystemImports \cup SafeImports : Agreed(m)
    BY Entries, OnePartAgrees, TwoPartsAgree
<1>2. \A a \in EscapeModules \cup SystemModules : ClassifyImport(<< a >>) \notin {"safe", "dep"}
    BY ImportedOne, ModulesDiffer DEF Modules
<1>3. \A m \in SafeModules : ClassifyImport(m) = "safe"
    <2>1. \A a \in SafeParts : ClassifyImport(<< a >>) = "safe"
        BY ImportedOne, ModulesDiffer DEF Modules
    <2> QED
        BY <2>1, Entries, ImportedTwo
<1> QED
    BY <1>1, <1>2, <1>3 DEF TablesAgree, Agreed, LevelOfMember

(* So they do once the deep check has started to go by them (LevelsAgree). *)
THEOREM LevelsAlwaysAgree == Spec => []LevelsAgree
<1>1. LevelsAgree
    BY TheTablesAgree DEF LevelsAgree
<1> QED
    BY <1>1, PTL

=============================================================================
