-------------------------------- MODULE Catalog --------------------------------
(***************************************************************************)
(* Which calls of TypeScript code the deep containment check reports:      *)
(* src/topo-check/analysis/catalog, TypeScriptUnsafeCatalog.cpp and        *)
(* TypeScriptSafePatterns.cpp with its .toml, and classifyCallSite of      *)
(* TypeScriptSafetyAnalyzer.cpp.                                           *)
(*                                                                         *)
(* A qualified name is the sequence of the parts between its dots.  Of the *)
(* whitelist, the entries that play a part are named.                      *)
(***************************************************************************)
EXTENDS Naturals, Sequences, SequencesExt

CONSTANT Declared   \* qualified names of the project's SymbolTable

ASSUME CatalogAssumption == \A name \in Declared : name \in Seq(STRING) /\ name # <<>>

-----------------------------------------------------------------------------
(* TypeScriptSafePatterns.                                                 *)

SafeModules ==
    { <<"path">>, <<"util">>, <<"events">>, <<"buffer">>, <<"querystring">>,
      <<"url">>, <<"string_decoder">>, <<"assert">>, <<"timers">>,
      <<"timers", "promises">> }

SafeStdlib ==
    SafeModules \cup { <<"Array">>, <<"Object">>, <<"Map">>, <<"Promise">>,
      <<"Math">>, <<"JSON">>, <<"parseInt">>, <<"setTimeout">>, <<"globalThis">> }

SafeConstructs == {"if", "for", "class", "super", "new", "import", "await", "void"}
UnsafeConstructs == {"eval", "Function"}

(* "Array.push" is safe because "Array" is listed.                         *)
IsStdlibSymbolSafe(name) ==
    \E n \in 1 .. Len(name) : SubSeq(name, 1, n) \in SafeStdlib

-----------------------------------------------------------------------------
(* TypeScriptUnsafeCatalog.                                                *)

EscapeNames ==
    {"eval", "Function", "__dynamic_import__", "require", "Reflect", "Proxy",
     "Atomics"}
EscapeModules == {"child_process", "vm"}
InputNames == {"alert", "prompt", "confirm"}
SystemNames == {"fetch", "XMLHttpRequest", "WebSocket", "EventSource"}
(* A module that was added to the other tables only.                       *)
SystemModulesForgetful ==
    {"fs", "net", "tls", "dgram", "http", "https", "http2", "dns", "process",
     "os", "cluster", "worker_threads", "readline", "repl", "v8"}

SystemModules ==
    {"fs", "net", "tls", "dgram", "http", "https", "http2", "dns", "process",
     "os", "cluster", "worker_threads", "readline", "repl", "v8", "perf_hooks"}
DomNames ==
    {"document", "window", "localStorage", "sessionStorage", "indexedDB",
     "navigator", "location", "history", "console"}

(* Only some of the bare escapes have dangerous members as well.           *)
ClassifyCall(name) ==
    LET bare == Len(name) = 1
        first == Head(name)
    IN  CASE bare /\ first \in EscapeNames -> "escape"
          [] ~bare /\ first \in EscapeModules \cup {"Reflect", "Proxy", "Atomics"} ->
               "escape"
          [] bare /\ first \in InputNames -> "input"
          [] bare /\ first \in SystemNames -> "system"
          [] first \in SystemModules \cup DomNames -> "system"
          [] OTHER -> "safe"

(* Imports have tables of their own.  A specifier is the sequence of its   *)
(* parts between slashes, "node:" taken off; a path into the project       *)
(* starts with "." or "".                                                  *)
EscapeImports == { <<"child_process">>, <<"vm">> }
SystemImports ==
    { <<"fs">>, <<"fs", "promises">>, <<"net">>, <<"tls">>, <<"dgram">>,
      <<"http">>, <<"https">>, <<"http2">>, <<"dns">>, <<"process">>, <<"os">>,
      <<"cluster">>, <<"worker_threads">>, <<"readline">>, <<"repl">>, <<"v8">>,
      <<"perf_hooks">> }
SafeImports ==
    { <<"path">>, <<"util">>, <<"events">>, <<"buffer">>, <<"querystring">>,
      <<"url">>, <<"string_decoder">>, <<"assert">>, <<"timers">>,
      <<"timers", "promises">> }

ClassifyImport(specifier) ==
    CASE specifier \in EscapeImports -> "escape"
      [] specifier \in SystemImports -> "system"
      [] specifier \in SafeImports -> "safe"
      [] Head(specifier) \in {".", "..", ""} -> "safe"
      [] OTHER -> "dep"

-----------------------------------------------------------------------------
(* classifyCallSite: the level a call is reported with, "" for none.       *)

Simple(name) == << Last(name) >>

IsDeclared(name) ==
    \E d \in Declared : d = name \/ d = Simple(name) \/ Simple(d) = Simple(name)

ClassifyCallSite(name) ==
    LET unsafe == Last(name) \in UnsafeConstructs
        level == IF ClassifyCall(name) # "safe" THEN ClassifyCall(name)
                 ELSE ClassifyCall(Simple(name))
    IN  IF \/ IsStdlibSymbolSafe(name)
           \/ Last(name) \in SafeConstructs
           \/ ~unsafe /\ IsDeclared(name)
        THEN ""
        ELSE IF level # "safe" THEN level ELSE IF unsafe THEN "escape" ELSE ""

-----------------------------------------------------------------------------
(* Do the three tables of Node's built-in modules (the catalog's for calls *)
(* and for imports, the whitelist) say the same of each?                   *)
TablesAgree ==
    LET levelOfCalls(m) ==
            IF IsStdlibSymbolSafe(Append(m, "member")) THEN "safe"
            ELSE ClassifyCall(Append(m, "member"))
    IN  /\ \A m \in EscapeImports \cup SystemImports \cup SafeImports :
              /\ ClassifyImport(m) = levelOfCalls(m)
              /\ ClassifyImport(m) = "safe" <=> IsStdlibSymbolSafe(m)
        /\ \A m \in EscapeModules \cup SystemModules :
              ClassifyImport(<<m>>) \notin {"safe", "dep"}
        /\ \A m \in SafeModules : ClassifyImport(m) = "safe"

=============================================================================
