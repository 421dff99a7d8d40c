----------------------------- MODULE UnitBuffers -----------------------------
(***************************************************************************)
(* What a unit leaves in the binary of its file, and what it does when it   *)
(* is run from there (compiler/stage0/voidc_main.cpp: v_import_helper;      *)
(* voidc_target.cpp: load_module_helper and skip_load).                     *)
(*                                                                          *)
(* The object code of a unit is run and then written to the binary, unless  *)
(* the unit has cleared it or put other code in its place while it ran.     *)
(* A unit that ends a module does the latter: it loads the module at once   *)
(* and leaves code that will load it when the binary is used.               *)
(*                                                                          *)
(* A file is imported once for each target of the compiler, but its module  *)
(* belongs to the compiler itself.  The library therefore asks, in the unit *)
(* before the last, whether the module is there, and if so for the next     *)
(* load to be skipped.                                                      *)
(***************************************************************************)
EXTENDS Naturals, Sequences

CONSTANTS
    Files,        \* files of the library that hold a module each
    Targets,      \* the targets that they are imported for
    MaxProcesses  \* bound on the processes that run one after the other

VARIABLES
    binary,     \* binary[f, t]: the units in the binary; none when there is no file
    imported,   \* the imports that the process has begun
    current,    \* the import that is running
    loads,      \* loads[f]: how often the module of f was loaded into this process
    skip_load,  \* the loads that are to be skipped
    processes   \* processes started so far

vars == <<binary, imported, current, loads, skip_load, processes>>

\* library/import: voidc_unit_begin_module, the question, voidc_unit_end_module.
Source == <<"begin", "ask", "end">>

\* What is left of them: the code of the first is cleared, that of the last
\* replaced.
Stored(unit) ==
    CASE unit = "begin" -> <<>>
      [] unit = "ask" -> <<"ask">>
      [] unit = "end" -> <<"load">>

\* units: those still to run; out: those written so far.
NoImport == [busy |-> FALSE]
Import(f, t, b) == [busy |-> TRUE, file |-> f, target |-> t, use_binary |-> b # <<>>,
                    units |-> IF b # <<>> THEN b ELSE Source, out |-> <<>>]

Init ==
    /\ binary = [ft \in Files \X Targets |-> <<>>]
    /\ imported = {}
    /\ current = NoImport
    /\ loads = [f \in Files |-> 0]
    /\ skip_load = 0
    /\ processes = 1

\* v_import_helper: the first import of f for the target t.
ImportBegin(f, t) ==
    /\ ~current.busy
    /\ <<f, t>> \notin imported
    /\ imported' = imported \cup {<<f, t>>}
    /\ current' = Import(f, t, binary[f, t])
    /\ UNCHANGED <<binary, loads, skip_load, processes>>

\* voidc_skip_object_file_load(1), when the module is found.
Ask(f) ==
    /\ skip_load' = IF loads[f] > 0 THEN skip_load + 1 ELSE skip_load
    /\ UNCHANGED loads

\* voidc_object_file_load_to_jit_internal_helper.
LoadFromBinary(f) ==
    IF skip_load > 0
    THEN skip_load' = skip_load - 1 /\ UNCHANGED loads
    ELSE loads' = [loads EXCEPT ![f] = @ + 1] /\ UNCHANGED skip_load

\* load_module_helper, with do_load.
LoadAtOnce(f) == loads' = [loads EXCEPT ![f] = @ + 1] /\ UNCHANGED skip_load

\* run_unit_action, and what the import does with the unit's code after it.
RunUnit ==
    /\ current.busy /\ current.units # <<>>
    /\ LET unit == Head(current.units)
           f == current.file
       IN  /\ CASE unit = "begin" -> UNCHANGED <<loads, skip_load>>
                [] unit = "ask" -> Ask(f)
                [] unit = "load" -> LoadFromBinary(f)
                [] unit = "end" -> LoadAtOnce(f)
           /\ current' = [current EXCEPT
                !.units = Tail(@),
                !.out = IF current.use_binary THEN @ ELSE @ \o Stored(unit)]
    /\ UNCHANGED <<binary, imported, processes>>

ImportEnd ==
    /\ current.busy /\ current.units = <<>>
    /\ binary' = IF current.use_binary THEN binary
                 ELSE [binary EXCEPT ![current.file, current.target] = current.out]
    /\ current' = NoImport
    /\ UNCHANGED <<imported, loads, skip_load, processes>>

\* The process ends, whatever it is at, and another one starts.
NextProcess ==
    /\ processes < MaxProcesses
    /\ processes' = processes + 1
    /\ imported' = {}
    /\ current' = NoImport
    /\ loads' = [f \in Files |-> 0]
    /\ skip_load' = 0
    /\ UNCHANGED binary

Next ==
    \/ \E f \in Files, t \in Targets : ImportBegin(f, t)
    \/ RunUnit \/ ImportEnd \/ NextProcess

Spec == Init /\ [][Next]_vars

\* The module of a file that was imported is there, once: that is what the
\* library asks for, "if (v_find_symbol_value(...)) voidc_skip_object_file_load(1)",
\* before it ends its modules.
LoadedOnce ==
    \A f \in Files, t \in Targets :
        <<f, t>> \in imported /\ ~(current.busy /\ current.file = f) => loads[f] = 1
=============================================================================
