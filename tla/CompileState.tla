---------------------------- MODULE CompileState ----------------------------
(***************************************************************************)
(* The state of compilation and what belongs to it: push_variables,         *)
(* pop_variables with its hold_state, prepare_function, finish_function,    *)
(* and the cleaners of a scope, of a context and of the process             *)
(* (compiler/stage0/voidc_target.cpp and voidc_target.h).                   *)
(*                                                                          *)
(* Code of the language levels allocates a block of data, leaves its        *)
(* address in the compiler or in the declarations (an intrinsic's "aux",    *)
(* a hook, a namespace), and registers a cleaner that frees it.  Which list *)
(* the cleaner is in decides when: the question is whether something that   *)
(* can still be looked up was freed.                                        *)
(*                                                                          *)
(* The compiler (a visitor) and the declarations are persistent maps that   *)
(* are saved and restored together; here they are one map, from names to    *)
(* blocks.  Of the variables only whether there are any matters.            *)
(***************************************************************************)
EXTENDS Naturals, Sequences

CONSTANTS
    Names,          \* names that can be declared
    MaxBlocks,      \* bound on the blocks allocated
    MaxScopes,      \* bound on the scopes of a context
    MaxContexts,    \* bound on the contexts (imports in progress)
    MaxHold         \* bound on what v_hold_compilation_state is given

ASSUME BoundsAssumption ==
    MaxBlocks \in Nat /\ MaxScopes \in Nat /\ MaxContexts \in Nat /\ MaxHold \in Nat

VARIABLES
    stack,      \* the local contexts, the innermost first
    global,     \* the cleaners of the global context
    hold_state, \* static: shared by all contexts
    made,       \* the blocks 1 .. made have been allocated, in this order
    freed       \* the blocks whose cleaner has run

vars == <<stack, global, hold_state, made, freed>>

-----------------------------------------------------------------------------
Block == 1 .. MaxBlocks
NoBlock == 0
Decls == [Names -> Block \cup {NoBlock}]

\* An entry of vars_stack; some_vars is vars.size() # 0.
Saved == [decls: Decls, cleaners: Seq(Block), some_vars: BOOLEAN]

\* vars_stack has the innermost scope first.
Context == [decls: Decls, cleaners: Seq(Block), some_vars: BOOLEAN,
            vars_stack: Seq(Saved), export_data: Decls]

TypeOK ==
    /\ stack \in Seq(Context)
    /\ global \in Seq(Block)
    /\ hold_state \in 0 .. MaxHold
    /\ made \in 0 .. MaxBlocks
    /\ freed \subseteq 1 .. made

-----------------------------------------------------------------------------
NoDecls == [n \in Names |-> NoBlock]

NewContext == [decls |-> NoDecls, cleaners |-> <<>>, some_vars |-> FALSE,
               vars_stack |-> <<>>, export_data |-> NoDecls]

Insert(decls, other) ==
    [n \in Names |-> IF other[n] = NoBlock THEN decls[n] ELSE other[n]]

Blocks(s) == {s[i] : i \in DOMAIN s}

Ctx == Head(stack)

\* The innermost context becomes ctx.
Become(ctx) == stack' = <<ctx>> \o Tail(stack)

Init ==
    /\ stack = <<NewContext>>
    /\ global = <<>>
    /\ hold_state = 0
    /\ made = 0
    /\ freed = {}

-----------------------------------------------------------------------------
(* Declaring.                                                               *)

\* v_add_local_cleaner(free, block) and v_add_intrinsic(n, f, block).
DeclareLocal(n) ==
    /\ stack # <<>> /\ made < MaxBlocks
    /\ made' = made + 1
    /\ Become([Ctx EXCEPT !.decls[n] = made + 1, !.cleaners = <<made + 1>> \o @])
    /\ UNCHANGED <<global, hold_state, freed>>

\* v_add_cleaner(free, block) and v_export_intrinsic(n, f, block).  The program
\* itself has no export_data; what is noted for it is never read.
DeclareExported(n) ==
    /\ stack # <<>> /\ made < MaxBlocks
    /\ made' = made + 1
    /\ Become([Ctx EXCEPT !.decls[n] = made + 1, !.export_data[n] = made + 1])
    /\ global' = <<made + 1>> \o global
    /\ UNCHANGED <<hold_state, freed>>

\* A statement names a value; v_clear_variables.
SetVariables(some) ==
    /\ stack # <<>>
    /\ Ctx.some_vars # some
    /\ Become([Ctx EXCEPT !.some_vars = some])
    /\ UNCHANGED <<global, hold_state, made, freed>>

-----------------------------------------------------------------------------
(* Scopes.                                                                  *)

\* push_variables, and what vars is afterwards.
push_variables(some) ==
    /\ stack # <<>> /\ Len(Ctx.vars_stack) < MaxScopes
    /\ Become([Ctx EXCEPT
            !.cleaners = <<>>,
            !.some_vars = some,
            !.vars_stack =
                <<[decls |-> Ctx.decls, cleaners |-> Ctx.cleaners, some_vars |-> Ctx.some_vars]>>
                    \o @])
    /\ UNCHANGED <<global, hold_state, made, freed>>

Top == Head(Ctx.vars_stack)

\* pop_variables, and what vars is afterwards: the scope ends.
Close_CountsDown(some) ==
    /\ hold_state = 0
    /\ freed' = freed \cup Blocks(Ctx.cleaners)
    /\ Become([Ctx EXCEPT !.decls = Top.decls, !.cleaners = Top.cleaners,
                          !.some_vars = some, !.vars_stack = Tail(@)])
    /\ hold_state' = hold_state - 1

Close(some) ==
    /\ hold_state = 0
    /\ freed' = freed \cup Blocks(Ctx.cleaners)
    /\ Become([Ctx EXCEPT !.decls = Top.decls, !.cleaners = Top.cleaners,
                          !.some_vars = some, !.vars_stack = Tail(@)])
    /\ UNCHANGED hold_state

\* pop_variables when the state is held: the scope becomes a part of the one
\* around it, with its compiler, its declarations and its cleaners.
Hold_RunsCleaners(some) ==
    /\ hold_state > 0
    /\ freed' = freed \cup Blocks(Ctx.cleaners)
    /\ Become([Ctx EXCEPT !.cleaners = Top.cleaners,
                          !.some_vars = some, !.vars_stack = Tail(@)])
    /\ hold_state' = hold_state - 1

Hold_DropsCleaners(some) ==
    /\ hold_state > 0
    /\ Become([Ctx EXCEPT !.cleaners = Top.cleaners,
                          !.some_vars = some, !.vars_stack = Tail(@)])
    /\ hold_state' = hold_state - 1
    /\ UNCHANGED freed

Hold_NotReversed(some) ==
    /\ hold_state > 0
    /\ Become([Ctx EXCEPT
            !.cleaners = [i \in DOMAIN @ |-> @[Len(@) + 1 - i]] \o Top.cleaners,
            !.some_vars = some, !.vars_stack = Tail(@)])
    /\ hold_state' = hold_state - 1
    /\ UNCHANGED freed

Hold(some) ==
    /\ hold_state > 0
    /\ Become([Ctx EXCEPT !.cleaners = @ \o Top.cleaners,
                          !.some_vars = some, !.vars_stack = Tail(@)])
    /\ hold_state' = hold_state - 1
    /\ UNCHANGED freed

pop_variables(some) ==
    /\ stack # <<>> /\ Ctx.vars_stack # <<>>
    /\ Close(some) \/ Hold(some)
    /\ UNCHANGED <<global, made>>

v_save_variables == stack # <<>> /\ push_variables(Ctx.some_vars)

v_restore_variables == stack # <<>> /\ Ctx.vars_stack # <<>> /\ pop_variables(Top.some_vars)

\* assert(vars.size() == 0), then a scope with the variables of the function.
prepare_function ==
    /\ stack # <<>> /\ ~Ctx.some_vars
    /\ push_variables(TRUE)

finish_function == pop_variables(FALSE)

v_hold_compilation_state(n) ==
    /\ stack # <<>>
    /\ hold_state' = n
    /\ UNCHANGED <<stack, global, made, freed>>

-----------------------------------------------------------------------------
(* Contexts.                                                                *)

\* v_import_helper: the file runs in a context of its own.
ImportBegin ==
    /\ stack # <<>> /\ Len(stack) < MaxContexts
    /\ stack' = <<NewContext>> \o stack
    /\ UNCHANGED <<global, hold_state, made, freed>>

\* The units have run, each with its scopes closed.  ~voidc_local_ctx_t runs the
\* cleaners; then the importing context takes what was exported, and passes it
\* on when the import is v_export_import.
ImportEnd(passed_on) ==
    /\ Len(stack) > 1
    /\ Ctx.vars_stack = <<>>
    /\ freed' = freed \cup Blocks(Ctx.cleaners)
    /\ LET importer == stack[2]
           data == Ctx.export_data
       IN  stack' = <<[importer EXCEPT
                            !.decls = Insert(@, data),
                            !.export_data = IF passed_on THEN Insert(@, data) ELSE @]>>
                        \o Tail(Tail(stack))
    /\ UNCHANGED <<global, hold_state, made>>

\* The end of main: ~voidc_local_ctx_t of the program, then static_terminate.
Terminate ==
    /\ Len(stack) = 1
    /\ Ctx.vars_stack = <<>>
    /\ freed' = freed \cup Blocks(Ctx.cleaners) \cup Blocks(global)
    /\ stack' = <<>>
    /\ global' = <<>>
    /\ UNCHANGED <<hold_state, made>>

Next ==
    \/ \E n \in Names : DeclareLocal(n) \/ DeclareExported(n)
    \/ \E some \in BOOLEAN : SetVariables(some)
    \/ v_save_variables \/ v_restore_variables
    \/ prepare_function \/ finish_function
    \/ \E n \in 0 .. MaxHold : v_hold_compilation_state(n)
    \/ ImportBegin
    \/ \E passed_on \in BOOLEAN : ImportEnd(passed_on)
    \/ Terminate

Spec == Init /\ [][Next]_vars

-----------------------------------------------------------------------------
(* What cleaners promise.                                                   *)

\* The lists of cleaners of a context: 0 is that of the open scope, k > 0 the one
\* that vars_stack keeps for the k-th scope around it.
Levels(ctx) == 0 .. Len(ctx.vars_stack)
Cleaners(ctx, k) == IF k = 0 THEN ctx.cleaners ELSE ctx.vars_stack[k].cleaners

\* What is not freed before the k-th scope is closed.
KeptBy(ctx, k) == UNION {Blocks(Cleaners(ctx, j)) : j \in {j \in Levels(ctx) : j >= k}}

Local == UNION {KeptBy(stack[i], 0) : i \in DOMAIN stack}

\* What the declarations of the k-th scope refer to.
DeclsAt(ctx, k) == IF k = 0 THEN ctx.decls ELSE ctx.vars_stack[k].decls
Declared(decls) == {decls[n] : n \in Names} \ {NoBlock}

\* NoDangling: nothing that a lookup may still find has been freed: not in the
\* declarations of the open scope of any context, not in those that a later
\* pop_variables brings back, not in what importers will be given; whatever
\* scopes were held open, and whichever context used the hold up.
NoDangling ==
    \A i \in DOMAIN stack :
        /\ Declared(stack[i].export_data) \cap freed = {}
        /\ \A k \in Levels(stack[i]) : Declared(DeclsAt(stack[i], k)) \cap freed = {}

\* CleanedOnce: every block that was allocated either has been freed or waits in
\* the lists of the contexts or in the global one, and in one of these only: none
\* is freed twice, none is forgotten, and when the process has ended all are freed.
CleanedOnce ==
    /\ Local \cup Blocks(global) \cup freed = 1 .. made
    /\ Local \cap freed = {} /\ Blocks(global) \cap (Local \cup freed) = {}

\* NewestFirst: cleaners run in the reverse of the order in which the blocks were
\* made: within a list, over the scopes of a context, and over the contexts that
\* are open; holding a scope open keeps it so.
Descending(s) == \A p, q \in DOMAIN s : p < q => s[p] > s[q]
Above(s, t) == \A a \in s, b \in t : a > b

NewestFirst ==
    /\ Descending(global)
    /\ \A i \in DOMAIN stack : \A k \in Levels(stack[i]) :
        /\ Descending(Cleaners(stack[i], k))
        /\ Above(Blocks(Cleaners(stack[i], k)), KeptBy(stack[i], k + 1))
    /\ \A i, j \in DOMAIN stack : i < j => Above(KeptBy(stack[i], 0), KeptBy(stack[j], 0))

=============================================================================
