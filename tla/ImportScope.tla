----------------------------- MODULE ImportScope -----------------------------
(***************************************************************************)
(* What an import brings into scope: v_import_helper of                     *)
(* compiler/stage0/voidc_main.cpp with the contexts, declarations, efforts  *)
(* and export data of compiler/stage0/voidc_target.cpp.                     *)
(*                                                                          *)
(* A file is the sequence of the calls that its units make when they run:   *)
(* add_* and export_* of a declaration or of an effort, v_import and        *)
(* v_export_import.  What the file leaves to its importers is collected,    *)
(* while it runs, in tctx.imported[file] and copied from there into each    *)
(* importing context.  Whether a file runs from its source or from its      *)
(* binary makes no difference here (module ImportCache).                    *)
(*                                                                          *)
(* The six maps of declarations_t behave alike and are one map.  An effort  *)
(* is a function that changes the context it runs in; a context keeps the   *)
(* sequence of the efforts that ran in it, the order being what matters:    *)
(* efforts open and close namespaces and wrap hooks.                        *)
(***************************************************************************)
EXTENDS Naturals, Sequences

CONSTANTS
    Files,    \* the sources that can be imported
    Main,     \* the program given to voidc
    Names,    \* names of declarations
    Things,   \* what a name may stand for
    Efforts,  \* effort functions (with their argument)
    NoThing,  \* the name is not in the map
    Trees     \* the source trees: for each file, and Main, its calls

Contexts == Files \cup {Main}

Declare == [op: {"add", "export"}, name: Names, thing: Things]
Effort == [op: {"add_effort", "export_effort"}, effort: Efforts]
Import == [op: {"v_import", "v_export_import"}, file: Files]
Call == Declare \cup Effort \cup Import

ASSUME MainAssumption == Main \notin Files
ASSUME ThingsAssumption == NoThing \notin Things
ASSUME TreesAssumption == Trees \subseteq [Contexts -> Seq(Call)]

\* A file that export-imports itself appends to the deque it iterates over,
\* which is undefined; the model has no such file.
ASSUME SelfAssumption ==
    \A t \in Trees, f \in Files :
        [op |-> "v_export_import", file |-> f] \notin {t[f][i] : i \in DOMAIN t[f]}

VARIABLES
    tree,   \* the source tree, fixed during a run of voidc
    data,   \* data[f]: tctx.imported[f], the export data of f
    stack   \* the local contexts, the innermost last

vars == <<tree, data, stack>>

Declarations == [Names -> Things \cup {NoThing}]

\* "known": the key is in the map.
ExportData == [known: BOOLEAN, decls: Declarations, efforts: Seq(Efforts)]

\* voidc_local_ctx_t, with the calls that its units have still to make and
\* the kind of import that opened it.
LocalCtx == [file: Contexts, todo: Seq(Call), op: {"v_import", "v_export_import"},
             decls: Declarations, ran: Seq(Efforts),
             imported: SUBSET Files, exported: SUBSET Files]

TypeOK ==
    /\ tree \in Trees
    /\ data \in [Files -> ExportData]
    /\ stack \in Seq(LocalCtx)
    /\ stack # <<>> /\ stack[1].file = Main

----------------------------------------------------------------------------
NoDecls == [n \in Names |-> NoThing]
NoData == [known |-> FALSE, decls |-> NoDecls, efforts |-> <<>>]

\* declarations_t::insert: an inserted name replaces the one that was there.
Insert(decls, other) ==
    [n \in Names |-> IF other[n] = NoThing THEN decls[n] ELSE other[n]]

One(name, thing) == [NoDecls EXCEPT ![name] = thing]

\* What a context gets from an import: the declarations, then the efforts.
Receive(c, d) ==
    [c EXCEPT !.decls = Insert(@, d.decls), !.ran = @ \o d.efforts]

\* The same for the export data of a file that re-exports.
Pass(e, d) ==
    [e EXCEPT !.decls = Insert(@, d.decls), !.efforts = @ \o d.efforts]

\* base_local_ctx_t::base_local_ctx_t.  The declarations of the global context,
\* the same for every file, are left out.
NewCtx(f, op) ==
    [file |-> f, todo |-> tree[f], op |-> op, decls |-> NoDecls, ran |-> <<>>,
     imported |-> {}, exported |-> {}]

Top == stack[Len(stack)]
Below == SubSeq(stack, 1, Len(stack) - 1)

Calling(op) == Top.todo # <<>> /\ Head(Top.todo).op = op

\* The context goes on with its next call.
Goes(c) == [c EXCEPT !.todo = Tail(@)]

\* export_data of a context: none for the program itself.
Exports(c) == c.file \in Files

----------------------------------------------------------------------------
Init ==
    /\ tree \in Trees
    /\ data = [f \in Files |-> NoData]
    /\ stack = <<[file |-> Main, todo |-> tree[Main], op |-> "v_import",
                  decls |-> NoDecls, ran |-> <<>>, imported |-> {}, exported |-> {}]>>

\* add_alias, add_constant, add_symbol, add_intrinsic, add_property, add_overload
Add ==
    /\ Calling("add")
    /\ LET call == Head(Top.todo)
       IN stack' = Append(Below, Goes([Top EXCEPT
                            !.decls = Insert(@, One(call.name, call.thing))]))
    /\ UNCHANGED <<tree, data>>

\* export_alias, export_constant, ...: also for the importers
Export ==
    /\ Calling("export")
    /\ LET call == Head(Top.todo)
           new  == One(call.name, call.thing)
       IN /\ stack' = Append(Below, Goes([Top EXCEPT !.decls = Insert(@, new)]))
          /\ data' = IF Exports(Top)
                     THEN [data EXCEPT ![Top.file].decls = Insert(@, new)]
                     ELSE data
    /\ UNCHANGED tree

AddEffort ==
    /\ Calling("add_effort")
    /\ stack' = Append(Below, Goes([Top EXCEPT
                            !.ran = Append(@, Head(Top.todo).effort)]))
    /\ UNCHANGED <<tree, data>>

ExportEffort ==
    /\ Calling("export_effort")
    /\ LET e == Head(Top.todo).effort
       IN /\ stack' = Append(Below, Goes([Top EXCEPT !.ran = Append(@, e)]))
          /\ data' = IF Exports(Top)
                     THEN [data EXCEPT ![Top.file].efforts = Append(@, e)]
                     ELSE data
    /\ UNCHANGED tree

Importing(op, f) == Calling(op) /\ Head(Top.todo).file = f

\* Mutant of Reimported: the set of imported files is not looked at.
Reimported_Again(c, f) ==
    [Receive(c, data[f]) EXCEPT !.imported = @ \cup {f}]

\* The file is in tctx.imported, completely or, if it is still running, in
\* part: the context gets what is there, once.
Reimported(c, f) ==
    IF f \in c.imported THEN c
    ELSE [Receive(c, data[f]) EXCEPT !.imported = @ \cup {f}]

\* Mutants of ReExported: the copy goes the wrong way, or a file that was
\* imported counts as re-exported.
ReExported_Swapped(c, f) ==
    IF Exports(c) /\ f \notin c.exported
    THEN [data EXCEPT ![f] = Pass(@, data[c.file])]
    ELSE data

ReExported_OnceImported(c, f) ==
    IF Exports(c) /\ f \notin c.imported
    THEN [data EXCEPT ![c.file] = Pass(@, data[f])]
    ELSE data

ReExported(c, f) ==
    IF Exports(c) /\ f \notin c.exported
    THEN [data EXCEPT ![c.file] = Pass(@, data[f])]
    ELSE data

ImportKnown ==
    \E f \in Files :
        /\ Importing("v_import", f) /\ data[f].known
        /\ stack' = Append(Below, Goes(Reimported(Top, f)))
        /\ UNCHANGED <<tree, data>>

MarkExported(c, f) ==
    IF Exports(c) THEN [c EXCEPT !.exported = @ \cup {f}] ELSE c

ExportImportKnown ==
    \E f \in Files :
        /\ Importing("v_export_import", f) /\ data[f].known
        /\ stack' = Append(Below, Goes(MarkExported(Reimported(Top, f), f)))
        /\ data' = ReExported(Top, f)
        /\ UNCHANGED tree

\* Mutant of ImportFirst: the entry is made after the file has run.
ImportFirst_Late ==
    \E f \in Files, op \in {"v_import", "v_export_import"} :
        /\ Importing(op, f) /\ ~data[f].known
        /\ stack' = Append(stack, NewCtx(f, op))
        /\ UNCHANGED <<tree, data>>

\* try_emplace has made the entry; the file runs in a context of its own, and
\* the call of the importer is under way until ImportEnd.
ImportFirst ==
    \E f \in Files, op \in {"v_import", "v_export_import"} :
        /\ Importing(op, f) /\ ~data[f].known
        /\ data' = [data EXCEPT ![f].known = TRUE]
        /\ stack' = Append(stack, NewCtx(f, op))
        /\ UNCHANGED tree

\* Mutant of ImportEnd: the importer notes itself, not the file.
ImportEnd_Parent ==
    /\ Len(stack) > 1 /\ Top.todo = <<>>
    /\ LET c == stack[Len(stack) - 1]
       IN stack' = Append(SubSeq(stack, 1, Len(stack) - 2),
                          Goes([Receive(c, data[Top.file])
                                    EXCEPT !.imported = @ \cup {c.file}]))
    /\ UNCHANGED <<tree, data>>

\* The units of the innermost file have run: its context is destroyed and the
\* importer receives what it exported.
ImportEnd ==
    /\ Len(stack) > 1 /\ Top.todo = <<>>
    /\ LET f  == Top.file
           c  == stack[Len(stack) - 1]
           c1 == [Receive(c, data[f]) EXCEPT !.imported = @ \cup {f}]
           exports == Top.op = "v_export_import" /\ Exports(c)
       IN /\ stack' = Append(SubSeq(stack, 1, Len(stack) - 2),
                             Goes(IF exports THEN MarkExported(c1, f) ELSE c1))
          /\ data' = IF exports
                     THEN [data EXCEPT ![c.file] = Pass(@, data[f])]
                     ELSE data
    /\ UNCHANGED tree

Next ==
    \/ Add
    \/ Export
    \/ AddEffort
    \/ ExportEffort
    \/ ImportKnown
    \/ ExportImportKnown
    \/ ImportFirst
    \/ ImportEnd

Spec == Init /\ [][Next]_vars

----------------------------------------------------------------------------
OnStack(f) == \E i \in DOMAIN stack : stack[i].file = f

Finished(f) == data[f].known /\ ~OnStack(f)

\* A file runs at most once at a time, and Main only once, whatever circles
\* the imports make: try_emplace makes the entry before the file runs.
OneActivation ==
    \A i, j \in DOMAIN stack : stack[i].file = stack[j].file => i = j

\* A file that runs, or has run, is known; so it never runs again.
RunningKnown ==
    \A i \in DOMAIN stack : stack[i].file \in Files => data[stack[i].file].known

\* The export data that v_import_helper copies to later importers, and keeps
\* a pointer to, never changes once the file has run.
KeepsFinished == \A f \in Files : Finished(f) => Finished(f)' /\ data'[f] = data[f]
FinishedFrozen == [][KeepsFinished]_vars
=============================================================================
