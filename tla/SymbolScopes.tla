---------------------------- MODULE SymbolScopes ----------------------------
(***************************************************************************)
(* What a name means to a program: the promise of find_symbol_value and of  *)
(* the linker.  Every import opens a scope of names that ends with it;      *)
(* behind all of them lie the names of the process.  Code that is loaded    *)
(* takes its names over at once.  A value that is given to a name waits for *)
(* the end of the unit, and never replaces a meaning that the name has.     *)
(*                                                                          *)
(* Nothing is said of dylibs, link orders or symbol tables: that is         *)
(* JitSymbols, which implements this specification.                         *)
(***************************************************************************)
EXTENDS Naturals, Sequences

CONSTANTS
    Names,     \* the names
    External,  \* those that the executable itself defines
    MaxMade    \* bound on the definitions made

VARIABLES
    scopes,   \* the scopes of the imports in progress, the innermost first
    process,  \* the scope of the process
    made      \* the definitions 1 .. made have been made

absVars == <<scopes, process, made>>

-----------------------------------------------------------------------------
Undefined == 0
TheExecutable == MaxMade + 1
Definition == 1 .. MaxMade
Meanings == [Names -> Definition \cup {Undefined, TheExecutable}]

\* A scope: what its names mean, and the values that wait for the unit's end.
Scope == [meaning: Meanings, waiting: [Names -> Definition \cup {Undefined}]]

NoNames == [n \in Names |-> Undefined]

EmptyScope == [meaning |-> NoNames, waiting |-> NoNames]

AbsInit ==
    /\ scopes = <<EmptyScope>>
    /\ process = [EmptyScope EXCEPT !.meaning =
                    [n \in Names |-> IF n \in External THEN TheExecutable ELSE Undefined]]
    /\ made = 0

\* Loaded code defines names, whatever they meant and whatever waits for them.
TakeOver(scope, names, d) ==
    [meaning |-> [n \in Names |-> IF n \in names THEN d ELSE scope.meaning[n]],
     waiting |-> [n \in Names |-> IF n \in names THEN Undefined ELSE scope.waiting[n]]]

\* A value is given to a name that has no meaning.
Give(scope, n, d) ==
    IF scope.meaning[n] = Undefined THEN [scope EXCEPT !.waiting[n] = d] ELSE scope

\* The values that wait become meanings.
Settle(scope) ==
    [meaning |-> [n \in Names |-> IF scope.meaning[n] = Undefined THEN scope.waiting[n]
                                  ELSE scope.meaning[n]],
     waiting |-> NoNames]

-----------------------------------------------------------------------------
MakeDefinition == made < MaxMade /\ made' = made + 1

AbsLoad ==
    /\ scopes # <<>>
    /\ MakeDefinition
    /\ \E names \in SUBSET Names :
         \/ /\ scopes' = <<TakeOver(Head(scopes), names, made + 1)>> \o Tail(scopes)
            /\ UNCHANGED process
         \/ /\ process' = TakeOver(process, names, made + 1)
            /\ UNCHANGED scopes

AbsGive ==
    /\ scopes # <<>>
    /\ MakeDefinition
    /\ \E n \in Names :
         \/ /\ scopes' = <<Give(Head(scopes), n, made + 1)>> \o Tail(scopes)
            /\ UNCHANGED process
         \/ /\ process' = Give(process, n, made + 1)
            /\ UNCHANGED scopes

AbsSettle ==
    /\ scopes # <<>>
    /\ scopes' = <<Settle(Head(scopes))>> \o Tail(scopes)
    /\ process' = Settle(process)
    /\ UNCHANGED made

AbsEnter ==
    /\ scopes # <<>>
    /\ scopes' = <<EmptyScope>> \o scopes
    /\ UNCHANGED <<process, made>>

AbsLeave ==
    /\ scopes # <<>>
    /\ scopes' = Tail(scopes)
    /\ UNCHANGED <<process, made>>

AbsNext == AbsLoad \/ AbsGive \/ AbsSettle \/ AbsEnter \/ AbsLeave

AbsSpec == AbsInit /\ [][AbsNext]_absVars
=============================================================================
