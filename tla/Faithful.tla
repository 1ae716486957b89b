-------------------------------- MODULE Faithful --------------------------------
(***************************************************************************)
(* Does a lifted function mean what its source means?  The promise         *)
(* index.mjs opens with (lines 22-26), checked with the reference          *)
(* interpreter of Meaning.                                                 *)
(***************************************************************************)
EXTENDS AnalysisProvider, Meaning

CONSTANT Cells      \* the variables and array cells a call may start with

(* Besides what the lift overlooks, a self-update whose target has an      *)
(* effect loses meaning and leaves no note, since the target is written    *)
(* twice and lifted once.                                                  *)

HasEffect(n) ==
    \/ n.kind \in {"Call", "Postfix"}
    \/ n.kind = "Prefix" /\ n.text \in {"++", "--"}
    \/ n.kind = "Binary" /\ n.text \in {"=", "+=", "-=", ">>="}

IsQuietlyLost(n) ==
    \/ IsOverlooked(n)
    \/ /\ n.kind = "Binary" /\ n.text = "=" /\ IsSelfUpdate(n)
       /\ HasEffect(n.kids[1]) \/ \E link \in Links[n.kids[1]] : HasEffect(link[1])

(* Does fn do what decl does, on whatever it is called with?  The same     *)
(* calls in the same order, the same values left behind, the same end.     *)
MeansTheSame(fn, decl) ==
    \A cells \in Cells :
        Cardinality({Run(f.params, f.body, cells) :
                       f \in { [params |-> fn.params, body |-> fn.body.kids],
                               [params |-> decl.params, body |-> decl.body] }}) = 1

IsFaithful(fn, decl) ==
    \/ fn.fidelity # "source"
    \/ \E link \in SeenLinksOf(decl) : IsQuietlyLost(link[1])
    \/ MeansTheSame(fn, decl)

(* A function of fidelity "source" means what its source means, but for    *)
(* the quiet losses above; and every body that was asked for and found, in *)
(* every file, is in the answer (index.mjs:22-26).                         *)
LiftIsFaithful == ForEachLifted(IsFaithful)

(* The promise as the code makes it, without exceptions: "never silently   *)
(* dropped: the construct is recorded in the function's `unsupported` list *)
(* and the function fidelity is downgraded" (index.mjs:22-26).             *)
NothingIsDroppedSilently ==
    ForEachLifted(LAMBDA fn, decl :
        fn.fidelity = "source" =>
            /\ \A link \in LinksOf(decl) : ~IsInexpressible(link[1], link[2])
            /\ MeansTheSame(fn, decl))

=============================================================================
