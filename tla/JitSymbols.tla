----------------------------- MODULE JitSymbols -----------------------------
(***************************************************************************)
(* Compiled code and the names by which it is found                         *)
(* (compiler/stage0/voidc_target.cpp: voidc_template_ctx_t,                 *)
(* voidc_local_ctx_t).                                                      *)
(*                                                                          *)
(* The global context and each local one, of an import in progress, have a  *)
(* dylib for absolute symbols (base_jd) and a deque of dylibs, one for each *)
(* module that was loaded.  Which of them a name is looked for in, and in   *)
(* which order, is decided in two places: find_symbol_value and, for code   *)
(* that is being loaded, setup_link_order.  Absolute symbols wait for the   *)
(* end of a unit.  A context that ends runs the cleaners of its modules,    *)
(* their term_func, and then removes its dylibs.                            *)
(*                                                                          *)
(* A definition is a number: a module or an absolute symbol.  A module is   *)
(* what it defines and, for each name it refers to, what the name was bound *)
(* to when it was linked.                                                   *)
(***************************************************************************)
EXTENDS Naturals, Sequences

CONSTANTS
    Names,         \* the names of symbols
    External,      \* those that the executable itself defines
    Objects,       \* the object files: what each defines and refers to
    Units,         \* the units: the names that each refers to
    MaxMade,       \* bound on the modules loaded and symbols added
    MaxContexts,   \* bound on the contexts (imports in progress)
    MaxScopes      \* bound on the scopes of a context

ASSUME NamesAssumption == External \subseteq Names
ASSUME ObjectsAssumption == Objects \subseteq [defs: SUBSET Names, refs: SUBSET Names]
ASSUME UnitsAssumption == Units \subseteq SUBSET Names
ASSUME BoundsAssumption == MaxMade \in Nat /\ MaxContexts \in Nat /\ MaxScopes \in Nat

VARIABLES
    stack,   \* the local contexts, the innermost first
    global,  \* the global context
    code,    \* code[d]: the module d
    made,    \* the definitions 1 .. made have been made, in this order
    ended,   \* the modules whose term_func has run, in that order
    removed  \* the modules whose dylib was removed

vars == <<stack, global, code, made, ended, removed>>

-----------------------------------------------------------------------------
None == 0
TheExecutable == MaxMade + 1
Definition == 1 .. MaxMade
Table == [Names -> Definition \cup {None, TheExecutable}]
Module == [defs: SUBSET Names, bound: Table]

\* base_jd in a deque_jd; any other entry is the module of that number.
BASE == 0

\* cleaners has one list for each scope, the innermost first; bound is what
\* the unit that the context runs was linked to.
Global == [base_jd: Table, unit_symbols: Table, deque_jd: Seq(Definition), cleaners: Seq(Definition)]
Context == [base_jd: Table, unit_symbols: Table, deque_jd: Seq(Definition \cup {BASE}),
            cleaners: Seq(Seq(Definition)), running: BOOLEAN, bound: Table]

NoSymbols == [n \in Names |-> None]
NoModule == [defs |-> {}, bound |-> NoSymbols]

\* Numbers that a sequence holds.
Entries(s) == {s[i] : i \in DOMAIN s}

TypeOK ==
    /\ stack \in Seq(Context)
    /\ global \in Global
    /\ code \in [Definition -> Module]
    /\ made \in 0 .. MaxMade
    /\ ended \in Seq(Definition)
    /\ removed \subseteq Definition
    /\ \A i \in DOMAIN stack : stack[i].cleaners # <<>>

-----------------------------------------------------------------------------
(* Looking a name up.                                                       *)

Ctx == Head(stack)
Become(ctx) == stack' = <<ctx>> \o Tail(stack)

\* The symbols of a module's dylib.
Symbols(d) == [n \in Names |-> IF n \in code[d].defs THEN d ELSE None]

\* The symbol tables of a context's dylibs, in the order of its deque.
Tables(ctx) ==
    [i \in DOMAIN ctx.deque_jd |->
        IF ctx.deque_jd[i] = BASE THEN ctx.base_jd ELSE Symbols(ctx.deque_jd[i])]

\* The first dylib that has the name.
Found(tables, n) ==
    LET has == {i \in DOMAIN tables : tables[i][n] # None}
    IN  IF has = {} THEN None ELSE tables[CHOOSE i \in has : \A j \in has : i <= j][n]

FindOrder(ctx) == Tables(ctx) \o Tables(global) \o <<global.base_jd>>

find_symbol_value(n) == Found(FindOrder(Ctx), n)

\* Mutants of LocalLinkOrder and GlobalLinkOrder: exported code is preferred to
\* that of the context; exported code is linked to all of the context.
LocalLinkOrder_GlobalFirst(own, ctx) ==
    <<own>> \o Tables(global) \o Tables(ctx) \o <<global.base_jd>>
GlobalLinkOrder_WholeContext(own, ctx) ==
    <<own>> \o Tables(ctx) \o Tables(global) \o <<global.base_jd>>

\* setup_link_order.  Code of a context sees all of it; exported code sees only
\* the absolute symbols of the context it is made in.
LocalLinkOrder(own, ctx) == <<own>> \o Tables(ctx) \o Tables(global) \o <<global.base_jd>>
GlobalLinkOrder(own, ctx) ==
    <<own, ctx.base_jd>> \o Tables(global) \o <<global.base_jd>>

\* Everything that code refers to is looked up when it is added, so this is
\* what it is bound to for good.
Linked(order, refs) == [n \in Names |-> IF n \in refs THEN Found(order, n) ELSE None]

\* Every name that is referred to is defined somewhere: otherwise the linker
\* reports it and the code cannot be run.
Resolved(order, refs) == \A n \in refs : Found(order, n) # None

NewContext ==
    [base_jd |-> NoSymbols, unit_symbols |-> NoSymbols, deque_jd |-> <<BASE>>,
     cleaners |-> <<<<>>>>, running |-> FALSE, bound |-> NoSymbols]

Init ==
    /\ stack = <<NewContext>>
    /\ global = [base_jd |-> [n \in Names |-> IF n \in External THEN TheExecutable ELSE None],
                 unit_symbols |-> NoSymbols, deque_jd |-> <<>>, cleaners |-> <<>>]
    /\ code = [d \in Definition |-> NoModule]
    /\ made = 0
    /\ ended = <<>>
    /\ removed = {}

-----------------------------------------------------------------------------
(* What the code of a unit does.                                            *)

Running == stack # <<>> /\ Ctx.running

Make == made < MaxMade /\ made' = made + 1

\* The symbol table of the dylib that is being added.
OwnSymbols(defs) == [n \in Names |-> IF n \in defs THEN made + 1 ELSE None]

\* lctx.add_object_file_to_jit: the module is linked, initialized, put in front
\* of the deque, and its term_func becomes a cleaner of the innermost scope.
LoadLocal(defs, refs) ==
    LET order == LocalLinkOrder(OwnSymbols(defs), Ctx) IN
    /\ Running /\ Make
    /\ Resolved(order, refs)
    /\ code' = [code EXCEPT ![made + 1] = [defs |-> defs, bound |-> Linked(order, refs)]]
    /\ Become([Ctx EXCEPT !.deque_jd = <<made + 1>> \o @, !.cleaners[1] = <<made + 1>> \o @])
    /\ UNCHANGED <<global, ended, removed>>

\* Mutant of LoadExported: the term_func becomes a cleaner of the context.
LoadExported_LocalCleaner(defs, refs) ==
    LET order == GlobalLinkOrder(OwnSymbols(defs), Ctx) IN
    /\ Running /\ Make
    /\ Resolved(order, refs)
    /\ code' = [code EXCEPT ![made + 1] = [defs |-> defs, bound |-> Linked(order, refs)]]
    /\ global' = [global EXCEPT !.deque_jd = <<made + 1>> \o @]
    /\ Become([Ctx EXCEPT !.cleaners[1] = <<made + 1>> \o @])
    /\ UNCHANGED <<ended, removed>>

\* gctx.add_object_file_to_jit: the same for the global context.
LoadExported(defs, refs) ==
    LET order == GlobalLinkOrder(OwnSymbols(defs), Ctx) IN
    /\ Running /\ Make
    /\ Resolved(order, refs)
    /\ code' = [code EXCEPT ![made + 1] = [defs |-> defs, bound |-> Linked(order, refs)]]
    /\ global' = [global EXCEPT !.deque_jd = <<made + 1>> \o @, !.cleaners = <<made + 1>> \o @]
    /\ UNCHANGED <<stack, ended, removed>>

\* Mutant of add_symbol_value: a symbol that the dylib has is given again.
add_symbol_value_Again(ctx, n, v) == [ctx EXCEPT !.unit_symbols[n] = v]

\* A symbol that base_jd has keeps its value; one that only a module defines
\* is added all the same.
add_symbol_value(ctx, n, v) ==
    IF ctx.base_jd[n] # None THEN ctx ELSE [ctx EXCEPT !.unit_symbols[n] = v]

\* v_add_symbol and v_export_symbol, with a value.
AddSymbol(n) ==
    /\ Running /\ Make
    /\ Become(add_symbol_value(Ctx, n, made + 1))
    /\ UNCHANGED <<global, code, ended, removed>>

ExportSymbol(n) ==
    /\ Running /\ Make
    /\ global' = add_symbol_value(global, n, made + 1)
    /\ UNCHANGED <<stack, code, ended, removed>>

\* base_jd->define refuses the lot when it has one of the names already.
flush_unit_symbols_helper(ctx) ==
    [ctx EXCEPT
        !.unit_symbols = NoSymbols,
        !.base_jd = IF \E n \in Names : @[n] # None /\ ctx.unit_symbols[n] # None THEN @
                    ELSE [n \in Names |-> IF @[n] # None THEN @[n] ELSE ctx.unit_symbols[n]]]

\* voidc_flush_unit_symbols.
FlushUnitSymbols ==
    /\ Running
    /\ Become(flush_unit_symbols_helper(Ctx))
    /\ global' = flush_unit_symbols_helper(global)
    /\ UNCHANGED <<code, made, ended, removed>>

-----------------------------------------------------------------------------
(* Units.                                                                   *)

\* run_unit_action, until the unit's action is called.
RunUnit(refs) ==
    LET order == LocalLinkOrder(NoSymbols, Ctx) IN
    /\ stack # <<>> /\ ~Ctx.running
    /\ Resolved(order, refs)
    /\ Become([Ctx EXCEPT !.running = TRUE, !.bound = Linked(order, refs)])
    /\ UNCHANGED <<global, code, made, ended, removed>>

\* run_unit_action, from the return of the unit's action: the symbols are
\* flushed, the dylib of the unit is removed.
FinishUnit ==
    /\ Running
    /\ Become([flush_unit_symbols_helper(Ctx) EXCEPT !.running = FALSE, !.bound = NoSymbols])
    /\ global' = flush_unit_symbols_helper(global)
    /\ UNCHANGED <<code, made, ended, removed>>

-----------------------------------------------------------------------------
(* Scopes and contexts.                                                     *)

push_variables ==
    /\ Running /\ Len(Ctx.cleaners) < MaxScopes
    /\ Become([Ctx EXCEPT !.cleaners = <<<<>>>> \o @])
    /\ UNCHANGED <<global, code, made, ended, removed>>

\* Mutant of pop_variables: the cleaners of a held scope go behind the others.
pop_variables_Behind(held) ==
    /\ Running /\ Len(Ctx.cleaners) > 1
    /\ LET inner == Ctx.cleaners[1]
           outer == Ctx.cleaners[2]
       IN  /\ Become([Ctx EXCEPT !.cleaners =
                       <<IF held THEN outer \o inner ELSE outer>> \o Tail(Tail(@))])
           /\ ended' = IF held THEN ended ELSE ended \o inner
    /\ UNCHANGED <<global, code, made, removed>>

\* Mutant of pop_variables: the cleaners of the outer scope are not restored.
pop_variables_NotRestored(held) ==
    /\ Running /\ Len(Ctx.cleaners) > 1
    /\ Become([Ctx EXCEPT !.cleaners = Tail(Tail(@))])
    /\ ended' = IF held THEN ended ELSE ended \o Ctx.cleaners[1]
    /\ UNCHANGED <<global, code, made, removed>>

\* The modules of the scope end, unless the state is held; their dylibs stay.
pop_variables(held) ==
    /\ Running /\ Len(Ctx.cleaners) > 1
    /\ LET inner == Ctx.cleaners[1]
           outer == Ctx.cleaners[2]
       IN  /\ Become([Ctx EXCEPT !.cleaners =
                       <<IF held THEN inner \o outer ELSE outer>> \o Tail(Tail(@))])
           /\ ended' = IF held THEN ended ELSE ended \o inner
    /\ UNCHANGED <<global, code, made, removed>>

\* v_import: a new context, whose units run before the importing one goes on.
ImportBegin ==
    /\ Running /\ Len(stack) < MaxContexts
    /\ stack' = <<NewContext>> \o stack
    /\ UNCHANGED <<global, code, made, ended, removed>>

\* ~voidc_local_ctx_t, then ~voidc_template_ctx_t, then ~base_local_ctx_t.
EndContext ==
    /\ ended' = ended \o Ctx.cleaners[1]
    /\ removed' = removed \cup (Entries(Ctx.deque_jd) \ {BASE})
    /\ stack' = Tail(stack)

ImportEnd ==
    /\ Len(stack) > 1 /\ ~Ctx.running /\ Len(Ctx.cleaners) = 1
    /\ EndContext
    /\ UNCHANGED <<global, code, made>>

\* The program's own context ends, and static_terminate follows.
Terminate ==
    /\ Len(stack) = 1 /\ ~Ctx.running /\ Len(Ctx.cleaners) = 1
    /\ stack' = <<>>
    /\ ended' = ended \o Ctx.cleaners[1] \o global.cleaners
    /\ removed' = removed \cup (Entries(Ctx.deque_jd) \ {BASE}) \cup Entries(global.deque_jd)
    /\ global' = [global EXCEPT !.cleaners = <<>>]
    /\ UNCHANGED <<code, made>>

Next ==
    \/ \E refs \in Units : RunUnit(refs)
    \/ \E o \in Objects : LoadLocal(o.defs, o.refs) \/ LoadExported(o.defs, o.refs)
    \/ \E n \in Names : AddSymbol(n) \/ ExportSymbol(n)
    \/ FlushUnitSymbols \/ FinishUnit
    \/ push_variables \/ \E held \in BOOLEAN : pop_variables(held)
    \/ ImportBegin \/ ImportEnd \/ Terminate

Spec == Init /\ [][Next]_vars

-----------------------------------------------------------------------------
(* Properties.                                                              *)

\* The modules that can be run: loaded, and their dylib not removed.
Loaded == (1 .. made) \ removed

\* No code is left with calls into code that is gone: while the dylib of a
\* module is there, or a unit runs, what it was bound to is there, whichever
\* imports have ended since.
NoDanglingCode ==
    /\ \A d \in Loaded, n \in Names : code[d].bound[n] \notin removed
    /\ \A i \in DOMAIN stack, n \in Names : stack[i].bound[n] \notin removed

\* Of the modules that end in one step none is bound to one that ends before
\* it, and none that is bound to one of them is left waiting for its own end:
\* over scopes, held or not, contexts and the process, whoever uses a module
\* ends first.
UsersEndFirst ==
    [][LET now == SubSeq(ended', Len(ended) + 1, Len(ended'))
           waiting == Loaded \ Entries(ended')
       IN  \A i \in DOMAIN now, n \in Names :
             /\ \A j \in DOMAIN now : i < j => code[now[j]].bound[n] # now[i]
             /\ \A d \in waiting : code[d].bound[n] # now[i]]_vars

\* Each module ends once: not before the process does when it was exported,
\* which is when files that do not know of the import it was made in may use it,
\* and in any case before its dylib is removed.
EndsInTime ==
    /\ \A i, j \in DOMAIN ended : i # j => ended[i] # ended[j]
    /\ stack # <<>> => Entries(global.deque_jd) \cap Entries(ended) = {}
    /\ removed \subseteq Entries(ended)

\* A unit, and a module of a context for what it does not define itself, is
\* bound to what find_symbol_value would have answered to the code that loads
\* it: compile time and link time agree about every name.
LinkedAsFound ==
    [][/\ \A n \in Names :
            stack # <<>> /\ Len(stack') = Len(stack) /\ Head(stack').bound[n] # Ctx.bound[n]
                => Head(stack').bound[n] \in {None, find_symbol_value(n)}
       /\ \A n \in Names :
            Len(stack) > 0 /\ Len(stack') = Len(stack) /\ made' # made
              /\ Head(stack').deque_jd # Ctx.deque_jd
                => code'[made'].bound[n] \in {None, made', find_symbol_value(n)}]_vars

-----------------------------------------------------------------------------
(* Dylibs implement scopes of names.                                        *)

\* What the names of a context mean, and what waits where nothing is defined.
Meaning(tables) == [n \in Names |-> Found(tables, n)]
Waiting(tables, ctx) ==
    [n \in Names |-> IF Found(tables, n) # None THEN None ELSE ctx.unit_symbols[n]]

ScopeOf(tables, ctx) == [meaning |-> Meaning(tables), waiting |-> Waiting(tables, ctx)]

Scopes == INSTANCE SymbolScopes WITH
    scopes <- [i \in DOMAIN stack |-> ScopeOf(Tables(stack[i]), stack[i])],
    process <- ScopeOf(Tables(global) \o <<global.base_jd>>, global)

\* Loading, adding, flushing and importing mean to a program what SymbolScopes
\* says: the newest code wins, a value never replaces a definition, and what
\* an import defines for itself ends with it.
Meant == Scopes!AbsSpec
=============================================================================
