---------------------------- MODULE ScopeMeaning ----------------------------
(***************************************************************************)
(* What a file exports and what is in the scope of a context, as functions  *)
(* of the source tree alone, for trees without import circles: an import    *)
(* stands for the exporting calls of the file, wherever and whenever the    *)
(* file ran first.  ImportScope is compared with them.                      *)
(***************************************************************************)
EXTENDS ImportScope, SequencesExt

CONSTANT Beneath  \* Beneath[f]: the files beneath f in an order of Files

\* The order ends: in every set of files one has no other beneath it.
ASSUME BeneathAssumption ==
    /\ Beneath \in [Files -> SUBSET Files]
    /\ \A F \in (SUBSET Files) \ {{}} : \E f \in F : Beneath[f] \cap F = {}

IsImport(call) == call.op \in {"v_import", "v_export_import"}

Imports(call, f) == IsImport(call) /\ call.file = f

\* The files import downwards: no file imports itself, directly or not.
Downwards(t) ==
    \A f \in Files : \A i \in DOMAIN t[f] :
        IsImport(t[f][i]) => t[f][i].file \in Beneath[f]

\* What call i of a file adds to the exports of the file: itself, if it exports;
\* and if it export-imports a file, the first time, the exports of that one.
ExportsBy(calls, i, exported) ==
    LET call == calls[i]
    IN  IF call.op \in {"export", "export_effort"} THEN <<call>>
        ELSE IF call.op = "v_export_import" /\ \A j \in 1 .. i - 1 : calls[j] # call
             THEN exported[call.file]
        ELSE <<>>

\* The calls that the exports of a file amount to.
Exported(t) ==
    LET exported[f \in Files] ==
            FlattenSeq([i \in DOMAIN t[f] |-> ExportsBy(t[f], i, exported)])
    IN  exported

\* The same for the scope of a context: what call i of its file brings into it,
\* and what is in it after the first k calls.
Brings(calls, i, exported) ==
    LET call == calls[i]
    IN  IF ~IsImport(call) THEN <<call>>
        ELSE IF \A j \in 1 .. i - 1 : ~Imports(calls[j], call.file) THEN exported[call.file]
        ELSE <<>>

InScope(t, c, k) == FlattenSeq([i \in 1..k |-> Brings(t[c], i, Exported(t))])

\* What a sequence of calls declares and which efforts it runs.
Declaring(calls, n) ==
    {i \in DOMAIN calls : calls[i].op \in {"add", "export"} /\ calls[i].name = n}

Declares(calls) ==
    [n \in Names |-> IF Declaring(calls, n) = {} THEN NoThing
                     ELSE calls[Max(Declaring(calls, n))].thing]

RunBy(call) ==
    IF call.op \in {"add_effort", "export_effort"} THEN <<call.effort>> ELSE <<>>

Runs(calls) == FlattenSeq([i \in DOMAIN calls |-> RunBy(calls[i])])

\* The calls that the units of a context have made.
Made(t, c) == Len(t[c.file]) - Len(c.todo)

\* At every moment the scope of every context, the suspended ones included,
\* is what the calls that its units have made mean: it does not depend on
\* which files other contexts had imported before, nor on which of the ways
\* through v_import_helper each import took.
ScopesMean ==
    Downwards(tree) => \A i \in DOMAIN stack :
        LET c     == stack[i]
            calls == InScope(tree, c.file, Made(tree, c))
        IN  c.decls = Declares(calls) /\ c.ran = Runs(calls)

\* What a file leaves in tctx.imported is what its own calls mean, whoever
\* imported it first.
ExportsMean ==
    Downwards(tree) => \A f \in Files :
        Finished(f) => /\ data[f].decls = Declares(Exported(tree)[f])
                       /\ data[f].efforts = Runs(Exported(tree)[f])
=============================================================================
