------------------------------ MODULE Extractor ------------------------------
(***************************************************************************)
(* The process topo-extract-typescript: it reads a request to the end of   *)
(* its stdin, works through the files one by one, and answers on stdout    *)
(* once, at the end (src/topo-check/extractor/index.mjs, main and          *)
(* runSymbolsMode).  Files may vanish while it works, and it may be killed *)
(* at any time, in the middle of its answer included.                      *)
(***************************************************************************)
EXTENDS Declarations, FiniteSets

CONSTANTS
    Files,      \* source files of the project
    Contents,   \* what a file may hold: its declarations, and is it broken
    MaxFaults   \* vanished files, killed tools, lost servers, at most

ASSUME ExtractorAssumption ==
    /\ Files # {} /\ IsFiniteSet(Files)
    /\ Contents \subseteq [broken : BOOLEAN, items : Statements]
    /\ MaxFaults \in Nat

VARIABLES
    content,    \* of each file, its declarations and whether it is broken
    present,    \* the files that can be read
    tool,       \* the extractor process
    faults      \* how many faults happened

toolVars == << content, present, tool, faults >>

(* A request is a JSON document or not; symbols mode is asked for by name. *)
Request(mode, files, functions) ==
    [valid |-> TRUE, mode |-> mode, files |-> files, functions |-> functions]
NoRequest == [valid |-> FALSE, mode |-> "", files |-> <<>>, functions |-> {}]

NoOut == [form |-> "none", functions |-> <<>>, types |-> <<>>, symbols |-> <<>>]

NoTool ==
    [pc |-> "none", request |-> NoRequest, closed |-> FALSE, done |-> 0,
     functions |-> <<>>, types |-> <<>>, symbols |-> <<>>, fatal |-> FALSE,
     status |-> "", out |-> NoOut]

(* The process starts with an open, empty stdin.                           *)
Started == [NoTool EXCEPT !.pc = "stdin"]

ToolInit ==
    /\ present = Files
    /\ tool = NoTool
    /\ faults = 0

Exit(status, out) ==
    [tool EXCEPT !.pc = "exited", !.status = status, !.out = out]

(* readStdin resolves at the end of the stream, not before.                *)
ReadRequest ==
    /\ tool.pc = "stdin" /\ tool.closed
    /\ tool' = IF tool.request.valid THEN [tool EXCEPT !.pc = "work"]
                                     ELSE Exit("1", NoOut)
    /\ UNCHANGED << content, present, faults >>

Remaining == tool.pc = "work" /\ tool.done < Len(tool.request.files)
ThisFile == tool.request.files[tool.done + 1]
Wanted(qname) ==
    tool.request.functions = {} \/ qname \in tool.request.functions

(* What the walks over a file find (functions of the content, so that they *)
(* are worked out once).                                                   *)
LiftedFunctions ==
    [c \in Contents |->
       LET found == CollectFunctions(c.items)
       IN  [i \in DOMAIN found |-> LiftFunction(found[i].qname, found[i].item.decl)]]
LiftedTypes == [c \in Contents |-> CollectTypes(c.items)]
FoundSymbols == [c \in Contents |-> Symbols(c.items)]

(* One file in transpile mode: the functions asked for, and every type.    *)
LiftFile ==
    /\ Remaining
    /\ tool.request.mode # "symbols"
    /\ tool' =
         IF ThisFile \notin present \/ content[ThisFile].broken
         THEN [tool EXCEPT !.done = @ + 1, !.fatal = TRUE]
         ELSE LET lifted == LiftedFunctions[content[ThisFile]]
              IN  [tool EXCEPT
                     !.done = @ + 1,
                     !.functions = @ \o FlattenSeq([i \in DOMAIN lifted |->
                         IF Wanted(lifted[i].qualifiedName) THEN << lifted[i] >> ELSE <<>>]),
                     !.types = @ \o LiftedTypes[content[ThisFile]]]
    /\ UNCHANGED << content, present, faults >>

(* One file in symbols mode: one that cannot be read has no symbols, one   *)
(* that does not parse is walked as far as it was understood.              *)
SymbolFile ==
    /\ Remaining
    /\ tool.request.mode = "symbols"
    /\ tool' = [tool EXCEPT
         !.done = @ + 1,
         !.symbols = IF ThisFile \in present
                     THEN @ \o FoundSymbols[content[ThisFile]] ELSE @]
    /\ UNCHANGED << content, present, faults >>

(* A file that failed is left out of the answer.                           *)
AnswerTheRest ==
    /\ tool.pc = "work" /\ ~Remaining
    /\ tool' = Exit("0", [form |-> "whole", functions |-> tool.functions,
                          types |-> tool.types, symbols |-> tool.symbols])
    /\ UNCHANGED << content, present, faults >>

(* Everything requested must have been found, or nothing is answered.      *)
Answer ==
    /\ tool.pc = "work" /\ ~Remaining
    /\ LET got == {tool.functions[i].qualifiedName : i \in DOMAIN tool.functions}
           missing == tool.request.mode # "symbols"
                      /\ tool.request.functions \ got # {}
       IN  tool' = IF tool.fatal \/ missing
                   THEN Exit("1", NoOut)
                   ELSE Exit("0", [form |-> "whole", functions |-> tool.functions,
                                   types |-> tool.types, symbols |-> tool.symbols])
    /\ UNCHANGED << content, present, faults >>

ToolStep == ReadRequest \/ LiftFile \/ SymbolFile \/ Answer

-----------------------------------------------------------------------------
(* Faults.                                                                 *)

(* The process is killed, before it answers or while it does.              *)
ToolDies ==
    /\ tool.pc \in {"stdin", "work"}
    /\ faults < MaxFaults
    /\ \E form \in {"none", "partial"} :
         /\ form = "partial" => tool.pc = "work" /\ ~Remaining /\ ~tool.fatal
         /\ tool' = Exit("signal", [NoOut EXCEPT !.form = form])
    /\ faults' = faults + 1
    /\ UNCHANGED << content, present >>

FileVanishes ==
    /\ faults < MaxFaults
    /\ \E f \in present : present' = present \ {f}
    /\ faults' = faults + 1
    /\ UNCHANGED << content, tool >>

=============================================================================
