# voidc in TLA+

Models of the "Starter" of voidc, the C++ program under `compiler/stage0/` that
parses, compiles and runs the units of a Void program one by one, and on which
the levels of the Void language are built. Every definition is translated from
the source; `PROJECT.json` ("map") names the lines of each. Code outside `src/`
(LLVM, the file system) is modelled from how the source uses it, and marked
external there.

1. [The system](#1-the-system)
2. [Modules](#2-modules)
3. [Runs](#3-runs)
4. [Proofs](#4-proofs)
5. [Where the code differs from what it says](#5-where-the-code-differs-from-what-it-says)
6. [What is not modelled](#6-what-is-not-modelled)
7. [Plan](#7-plan)

## 1. The system

A voidc process is one thread. `main` reads a program unit by unit: `parse_unit`
runs the packrat parser of the current grammar on the input, the visitor
`lctx.compiler` turns the syntax tree into an LLVM module, the module becomes an
object file, and `run_unit_action` links and runs it. A unit may do anything to
the compiler that it runs in: change the grammar, the compiler and the
declarations, and import other files, which starts the same loop again inside
the call (`v_import_helper`). Imported files are kept as binaries beside their
sources: the object files of their units and the list of what they import.

There are no threads and no locks. What is hard is re-entrance (a unit that runs
imports a file whose units run), state that must or must not survive such a
call, memos and caches, and files that several compilers share. Nothing in
`stage0` catches: an exception ends the process, without unwinding.

### Components

**Import cache** (`voidc_main.cpp` 249-400, 420-700). *State:* sources and
binaries on disk with their write times; `import_state`, the verdict on each
file for the life of the process; `tctx.imported`; the activations of
`check_import_state` and of `v_import_helper`. *Operations:* check a binary and,
recursively, those of what it imports; run a binary; compile a source and
replace its binary. *Hard:* other compilers, editors, kills and power loss
between any two file operations; circles of imports; write times as the only
evidence. *Correct when:* what is imported was made from the current sources;
the header of a binary judged good is there when it is opened; a finished
import leaves nothing to do for the next compiler; a process mixes no two
versions of a source; every compiler comes to its end.

**Export data** (`voidc_main.cpp` 480-562, 753-785; `voidc_target.cpp` 271-450).
*State:* per file `export_data` in `tctx.imported`; per context its
declarations, `imported` and `exported`. *Operations:* `v_import`,
`v_export_import`, `export_*`, `add_*`, efforts. *Hard:* whoever imports a file
first computes its exports for all; what was imported may be export-imported
later; circles. *Correct when:* a scope holds what the calls mean, whatever was
imported before by others; the exports of a file that has run never change; no
file runs while it is running.

**Compile state** (`voidc_target.cpp` 857-976, 2913-3010, 3500-3600;
`voidc_target.h`). *State:* `vars_stack` with the saved compiler, declarations
and cleaners; cleaners of the global context; `hold_state`, one for all
contexts. *Operations:* `push_variables`, `pop_variables`, `prepare_function`,
`finish_function`, `v_hold_compilation_state`, `add_cleaner`, begin and end of a
context. *Hard:* a scope held open passes on its declarations; an import inside
a held scope uses the hold up. *Correct when:* nothing that can be looked up has
been freed; every cleaner runs once, newest first.

**Conversions** (`voidc_target.cpp` 862-911, 1062-1430). *State:* `result_type`
and `result_value` of the context. *Operations:* `try_to_adopt`,
`try_to_convert`. *Hard:* combined conversions are begun on a predicate and
finished by steps that may refuse; signs and widths change on the way; LLVM's
pointers have no type that would show a mistake. *Correct when:* type and value
agree; numbers convert as in C; addresses stay addresses of the same object; a
"no" has built nothing.

**Starter compiler** (`voidc_compiler.cpp`; `voidc_target.cpp` 979-1059,
1431-1449). *State:* the names of the function that is compiled, `result_type`
and `result_value`, which say what is wanted of a visit and then what it gave, the
stack of temporaries with their cleaners. *Operations:* one visitor method for
each kind of node, the intrinsics, `make_temporary`, `add_temporary_cleaner`, begin
and end of a statement. *Hard:* the two fields are one pair for a visit and the
visits of its parts; an expression is compiled differently for each use of it;
the mark of the temporaries (`stacksave`) is emitted where the first one is made.
*Correct when:* compiled code does what the program means; a temporary is alive
while its statement runs and ended once, and a variable outlives the statement
that makes it.

**JIT symbols** (`voidc_target.cpp` 1455-1757, 2035-2281). *State:* the dylibs of
the global and the local contexts, the order in which they are searched,
`unit_symbols`, the cleaners that end modules. *Operations:* load a module, add a
symbol, run a unit, flush, begin and end an import. *Hard:* a name is looked up in
an order that is written down three times; modules end with scopes that can be
held open. *Correct when:* linker and `find_symbol_value` agree, and answer what
the scopes of names say; no code calls what is gone; who uses a module ends
before it.

**Units in binaries** (`voidc_main.cpp` 640-700; `voidc_target.cpp` 2700-2900).
*State:* the object code of each unit of a binary; `skip_load`, a counter of the
process. *Operations:* run a unit and write it, replace it by code that loads a
module, skip a load. *Correct when:* a module is loaded once, whichever targets its
file is imported for.

**Parser** (`vpeg_parser.cpp`, `vpeg_grammar.cpp`, `vpeg_context.h`,
`voidc_main.cpp` 40-130). *State:* position, variables (values and caught
strings), the memo, the grammar. *Operations:* `parse` of each of 14 kinds of
parsers, `grammar_parse_default` with the growth of left-recursive rules,
`parse_unit`. *Hard:* failure must restore what kids have changed; the memo
answers for rules that are growing; a unit replaces the grammar under the memo.
*Correct when:* a unit is parsed to what its grammar means without a memo; no
action sees an unbound variable; parsing ends.

**Level-0 grammar** (`vpeg_voidc.cpp`). *State:* none. *Operations:* its rules
and actions. *Correct when:* trees are read back as written, numbers are exact
or refused.

**Expressions** (`level-01/expression.void`, operators in `expr_util.void`). *State:*
the stack of precedences. *Operations:* eight actions that push, pop and look at
it, two that build. *Hard:* the actions have effects, and the memo decides how
often they run. *Correct when:* formulas group by precedence and associativity;
a formula that is read leaves the stack as it was.

**Input** (`vpeg_context.cpp`). *State:* the buffer, the starts of lines, a flag
for a carriage return. *Operations:* `read_character`, `get_line_column`,
`take_string`. *Hard:* a carriage return ends a line only when it is known what
follows it. *Correct when:* characters, caught strings, lines and columns are
those of the text, however much of it has been read.

**Quarks** (`voidc_quark.cpp`): interned strings, in two tables that must agree.
**Types** (`voidc_types.cpp`): interned types and their cached LLVM types.
**Visitors and grammars** (`voidc_visitor.cpp`, `vpeg_grammar.h`): persistent
maps with a chain of parents. **Syntax trees** (`voidc_ast.cpp`): immutable
data. **Utilities** (`voidc_util.cpp`, `voidc_stdio.cpp`): forwarding.
**Other language levels** (`compiler/import/**`): written in Void, data to the
Starter except where a module says otherwise.

### Interactions

    main / v_import_helper --> Parser --> Level-0 grammar, or what units install (Expressions)
          |    ^                 |
          |    |  v_import       v  syntax tree
          |    +------------- Starter compiler --> Conversions
          |   (a unit runs)      |                  Compile state
          v                      v  object file
      Import cache           JIT symbols --> the unit runs
          |
          v
      Export data --> declarations of the importing context

All calls are synchronous. What one component does to another it does through
the local context: the compiler and declarations (persistent maps, saved and
restored by Compile state), the cleaners, and the grammar, which the parser reads
anew for each unit.

## 2. Modules

### ImportCache

One process per compiler (`Procs`), all on one tree. The recursion of
`check_import_state` and of `v_import_helper` is a stack per process (`checks`,
`imps`); a step is the code between two file operations, so that another
compiler, an editor, a kill or a power loss can come between any two.

| In the model | In the code |
|---|---|
| `src[f]`: version, write time, existence | a source file, as `fs::last_write_time` sees it |
| `bin[f]`: write time, header, provenance | the `.voidc` binary: its header is written last (`out_binary_t`), then it is renamed into place |
| `import_state[p][f]` | the static map of `ist_unknown`, `ist_good`, `ist_bad` |
| `imported[p]`, `loaded[p]` | the keys of `tctx.imported`, and what their units were made from |
| `CheckStat`, `CheckOpen`, `CheckImport`, `CheckDone` | `check_import_state` up to the comparison of times, up to the header, one import, the end |
| `ImportFirst`, `ImportAgain` | `v_import_helper` for a file not yet, or already, in `tctx.imported` |
| `OpenBinary`, `BinaryDone` | running the units of a binary |
| `OpenSource`, `CloseBinary`, `Rename` | compiling a source into a temporary file, and replacing the binary |
| `Kill`, `PowerLoss`, `Edit`, `Remove` | what happens around a compiler |

`ImportProgress` counts the steps that a compiler has left (`StepsLeft`): the memo of
verdicts limits its checks, `tctx.imported` its imports.

`prov` is a history variable: the versions whose units went into the
binary, those of its imports included. It says what the write times only hint
at, and the properties compare the two.

### ImportScope, ScopeMeaning

A source tree is data: for each file the sequence of the calls that its units
make. `stack` holds a context per file being imported, `data` the export data of
`tctx.imported`. `v_import_helper` has three ways through it, and each is an
action: the file is known (`ImportKnown`, `ExportImportKnown`), it starts
(`ImportFirst`), it ends (`ImportEnd`). `ScopeMeaning` says, as functions of the
tree alone, what a file exports (`Exported`) and what is in scope after some calls
(`InScope`); it knows no order of importing.

### CompileState

The contexts, each with its `vars_stack`, the global cleaners and `hold_state`. A
block stands for data whose address is left in the compiler or in the
declarations, and that a cleaner frees. `DeclareLocal` and `DeclareExported` pair
the two calls as the language levels do (an intrinsic with its `aux`: a local one
with `v_add_local_cleaner`, an exported one with `v_add_cleaner`). That convention is
an assumption of `NoDangling`: who exports what a local cleaner frees breaks it. `pop_variables`
is `Close` or `Hold`, as `hold_state` decides.

### ConversionRules, Conversions

A value is what the LLVM value will be when the generated code runs: a number of
so many bits, an address, an array; and whether LLVM knows it as a constant,
which the code asks (`LLVMIsNull`, constant globals for references to
constants). `Convert` follows `base_try_to_convert_default` case by case, with the
answers "yes", "no", "throws" (an inner `convert_to_type` failed) and "forever". The
code calls itself; the model has one operator per level of calls (`Convert1` to
`Convert`), and a fifth level answers "forever". Theorem `RefusalsQuiet` shows that this is
no cut: what four levels do not decide is only what `BegunInVain` names.
`ConversionRules` holds the rules, which StarterCompiler uses too; in `Conversions`
there is one step, the call of `try_to_adopt`, and what is checked is the outcome
for every pair of types and every value.

### StarterCompiler, StarterMeaning

A statement of the Starter has no branches, so its code is run as it is
compiled: `lctx` is the local context together with the stack and the memory of
the function. There is one operator for each method and intrinsic (`compile_expr_call`,
`v_alloca`, `v_assign`, ...), each from context to context, with what is wanted in
`result_type`; `Statement` is the one action, `compile_stmt` from
`initialize_temporaries_stack_front` to `pop_temporaries`. What may go wrong in the code
(reading what is gone) is the answer "undefined".

`StarterMeaning` is a semantics of the same programs that knows of no
`result_type`: an expression has a value, which is converted where it is used
(`As`, `Operand`), and what a reference is made to lives until the statement ends.
`MeansItself` compares names, memory and the ends of objects after every
statement. Where the meaning is undefined nothing is asked of the code.

### JitSymbols, SymbolScopes

`stack` holds the local contexts, each with its `base_jd`, its `deque_jd`, its pending
`unit_symbols` and one list of cleaners for each scope. `code[d].bound` is what a
module was linked to. Loading follows `add_object_file_to_jit` (link order, `init_func`,
deque, `term_func` as a cleaner); `FinishUnit` is the end of `run_unit_action` with the
flush of the symbols; `ImportEnd` and `Terminate` are the destructors.

`SymbolScopes` says what a program may rely on: an import opens a scope of names,
loaded code takes names over at once, a value that is given to a name waits for
the end of the unit and replaces nothing. `JitSymbols` implements it
(`Meant == Scopes!AbsSpec`): a scope's meaning of a name is the first of its
context's tables that has it, and what waits is `unit_symbols` where none of the
tables has the name. Lookup (`find_symbol_value`) searches the tables of the context,
then those of the process, as the scopes are nested.

### UnitBuffers

The units of a library file that holds a module: `begin`, the question whether
the module is there, `end`. What is left of them in the binary is `Stored`;
`RunUnit` runs one, from the source or from a binary; `NextProcess` starts the program
again with the binaries that were left.

### VpegParser, VpegMeaning, VpegScoping, VpegEnding, VpegVoidc, VpegExpression

A grammar is data: terms built by one constructor per class of `vpeg_parser.h`.
The recursion of the parse functions is a stack; a step is the entry into a
parser (`Enter`, `ParseLeaf`), the return into its caller (`KidReturn`), or the
return into `grammar_parse_default` (`RuleReturn`, `GrowReturn`, `GrownReturn`).
`MainLoop` is the loop of `voidc_main.cpp`: the shebang, a unit, the memo
cleared, the unit run, which may install another grammar (`Effect`).

`VpegMeaning` gives the reference: the result of a parser at a place by recursion
on the parser, with neither memo nor stack; a left-recursive rule is the limit of
its bounded expansions. Actions run wherever the text makes them, each on what the
one before left. `VpegScoping` says which grammars never ask for a variable, a string or
a rule that is not there (section 4), `VpegEnding` which let no parse go on for ever: a star or
plus moves each time (`RepeatsMove`), and a rule that may enter itself where it began is
marked as left-recursive and does so by no other rule (`CirclesGrow`). `VpegVoidc` is the level-0 grammar of `vpeg_voidc.cpp`: its
rules and its actions, with words of `Bits` bits.

`VpegExpression` is what `voidc_enable_expression` makes of it: the rules for
operators, and as `aux` the stack of precedences that their actions push and pop
while the text is read. Those actions do not run again when the memo answers, run
several times while a left-recursive rule grows, and have run for nothing when an
alternative is given up. `UnitMeansItself` says that all this is as good as reading
without a memo, for the tree and, when a unit is read, for the stack; `ReadsBack`
that formulas group as the table of precedences says, from a definition that
knows formulas only (`Grown`). The models show one more thing: in a text that is
refused because an operand is missing twice (`x+x*)`), the second miss is answered
by the memo, so that `expr_cleanup` does not run and a precedence stays on the
stack. In this grammar no operator begins with what may follow an expression,
so that such a text is never read, and a parse error ends the process.

### VpegInput

The reader as a function of the bytes of a text and of how many characters have
been asked for (`HavingRead`), with `get_line_column` and `take_string` on what has been
read; the loop of `take_string` that finds the length of a string (`SizeOf`) and the one
that writes its bytes (`Encoded`) are two, and have to agree. Beside it stands what UTF-8 and lines are (`Utf8`, `PlaceOf`), and
`ReadAsWritten` compares the two at every stage of reading.

## 3. Runs

Each passing run also has, for each property, a mutant of the code in
`PROJECT.json` ("mutants") that TLC finds to violate it under the same
configuration.

    cd tla
    tlc -workers 2 -config ImportCache_race.cfg MCImportCache.tla

| Run | Instance | States | Shows |
|---|---|---|---|
| `import_race` | a and b import each other; two compilers at once, three in a row, two versions of each source, kills and power loss | 1.0 M | nothing stale is imported (`FreshImports`), the header of an accepted binary is there (`HeaderAsserted`), every compiler uses up its steps (`StepsRunOut`) |
| `import_edits` | a imports b and c, b imports c; sources change and vanish while the compiler runs | 1.0 M | a process never mixes two versions of a source (`OneVersion`), a finished import leaves the cache settled (`ImportSettles`), a settled file is not compiled again (`NoNeedlessCompile`) |
| `import_circle_usable` | a imports b and c, b imports a | | violated: section 5 |
| `scope_trees` | trees of a program and three files, circles included | 0.7 M | scopes and exports are what the calls mean (`ScopesMean`, `ExportsMean`), no file runs twice (`OneActivation`), exports are final (`FinishedFrozen`) |
| `compile_state` | two contexts, three scopes each, three blocks of one name, holds of up to two | 0.8 M | `NoDangling`, `CleanedOnce`, `NewestFirst` |
| `conversions` | 37 types of up to three levels to each other, every value | 26 k | `NumbersAsInC`, `SameObject`, `Unreferenced`, `QuietNo` |
| `conversions_decay` | the same | | violated: section 5 |
| `starter_programs` | every program of up to three of 58 statements, integers of 1 to 4 bits | 0.2 M | compiled code does what the program means (`MeansItself`), temporaries and objects go with their statement, variables stay (`TemporariesEnd`) |
| `jit_symbols` | three modules or symbols, two names, one of them the executable's, two contexts of two scopes | 0.3 M | `NoDanglingCode`, `EndsInTime`, `UsersEndFirst`, `LinkedAsFound`, and that SymbolScopes is implemented (`Meant`) |
| `unit_buffers` | two library files, two targets, two processes | | violated: section 5 |
| `vpeg_small` | two grammars that install each other and use every kind of parser; all sources of up to five characters out of five | 0.3 M | a unit means what its grammar says (`UnitMeansItself`), `FailureRestores`, `StringsInside`, `NeverAborts`, `Terminates` |
| `voidc_sources` | the level-0 grammar; all short texts, all numbers of up to three characters, trees printed with four kinds of blanks, all mixtures of up to five ends of lines and letters and of two characters of every length; the grammar of operators, all formulas of up to five tokens and scraps of up to three | 1.2 M | `UnitMeansItself` for the real grammars, numbers are exact or refused (`NumbersExact`), trees are read back (`ReadsBack`), and so are characters, strings, lines and columns (`TextAsWritten`) |

### Bounds

- *ImportCache.* Two files are enough for one to be replaced between the check
  and the use of the other, and a circle of two for a check and an import to meet
  themselves; a version that is mixed, or a binary that is not settled, needs a
  file reached along two paths, which is the triangle. Three compilers in a row
  (`MaxRuns`) are one to make binaries, one to make some of them anew after an
  edit, and one to be misled. Two versions are enough to tell old from new. Write times come from a clock that gives each write its own; the bound on
  writes follows from the others. The proofs of section 4 have no bounds.
- *ImportScope.* A diamond, a file imported both ways, and a circle need two or
  three files. One name shows which declaration wins; three efforts show the
  order in which they run.
- *CompileState.* One name, so that every declaration hides another; three blocks
  are one each for two scopes and what hides them; two contexts are an import in
  a held scope; a hold of two spans two scopes or an import.
- *Conversions.* Widths of 1 to 3 bits with every number in them are the cases of
  equal, smaller and larger width and of both signs. The levels of types are
  those that the combined conversions look at.
- *StarterCompiler.* Three statements are one to make something, one to change or
  end it and one to look. The 58 pass on a literal, a name, a temporary, a
  constant, an array, an object of the library in every way that two methods can
  meet; with `int` of 3 bits and `intptr_t` of 4 every literal near a border is met.
- *JitSymbols.* Three definitions are a user, what it uses, and what hides that;
  a scope inside a scope and an import inside an import are the places that they
  can be made in.
- *Parser.* Sources of five characters are the shortest in which a left-recursive
  rule grows twice. `aux` is one state: the actions of these grammars keep none;
  those of the grammar of operators do.
- *Input.* Five characters hold every order of two ends of lines with something
  before, between and after; characters are the first and last of each length.
- *Level-0.* A six-bit `intptr_t` overflows within two digits, so every way to
  wrap is met in three characters.
- *Expressions.* Seven of the 41 operators: infix, prefix and postfix, of both
  associativities and six precedences, and with texts that begin alike (`+`, `++`;
  `==` and the `=` of a statement). Two
  infix operators in five tokens meet in every order of precedence; a scrap of
  five tokens leaves the stack of precedences with one too many.

### Fairness

`VpegParser!FairSpec` is weak fairness of `Next`, whose steps are those of one thread
that nothing waits for: termination is a statement about the code's recursion,
not about its scheduling. `Terminates` is checked on the two small grammars; of these and
of the real ones TLC evaluates what it rests on, that they are as `VpegEnding` asks
(`EndingAssumption`). With a star over an option in one of them TLC finds a parse that goes on
for ever, and the assumption is false. That compilers end is stated without fairness, by a
measure: each step of a compiler lowers the number of steps it has left
(`StepsRunOut`), whatever others do to the files meanwhile. The other modules have no
loop that could fail to end: their steps are calls that programs choose to make.

`CHECK_DEADLOCK FALSE` is set where the system may stop: the bounds on processes
and versions are used up (ImportCache, UnitBuffers), the program has ended
(ImportScope, CompileState, StarterCompiler, JitSymbols), the call has returned
(Conversions). A parser that has ended stutters (`Ended`).

## 4. Proofs

    tlapm ImportCacheProofs.tla

| Theorem | Module | For every ... |
|---|---|---|
| `TypeCorrect` (`TypeOK`) | ImportCacheProofs | set of files, import graph and set of processes |
| `NoStaleImport` (`FreshImports`), `HeaderHolds` (`HeaderAsserted`) | ImportCacheProofs | the same, without circles, sources changing between runs only |
| `CompilersEnd` (`StepsRunOut`) | ImportCacheProofs | any finite set of files, circles included, any number of compilers, sources that change at any moment |
| `NoneNeedless` (`NoNeedlessCompile`) | ImportCacheSettledProofs | set of files and import graph, circles included, with one compiler at a time; sources change at any moment |
| `OneVersionEach` (`OneVersion`), `CacheSettles` (`ImportSettles`) | ImportCacheSettledProofs | the same, without circles |
| `TypeCorrect` (`TypeOK`), `FailureAlwaysRestores` (`FailureRestores`), `CaughtAlwaysInside` (`StringsInside`) | VpegParserProofs | grammar and source, and all actions that stay among the values |
| `ScopedNeverAborts` (`NeverAborts`) | VpegParserProofs | the same, when the grammars have a scoping |
| `TypeCorrect` (`TypeOK`), `NoFileTwice` (`OneActivation`), `ExportsFrozen` (`FinishedFrozen`) | ImportScopeProofs | source tree, with circles too |
| `ScopesAreMeant` (`ScopesMean`), `ExportsAreMeant` (`ExportsMean`) | ImportScopeProofs | source tree without circles, any number of files, calls and contexts |
| `TypeCorrect` (`TypeOK`), `CleanersRunOnce` (`CleanedOnce`), `InReverse` (`NewestFirst`), `NothingDangles` (`NoDangling`) | CompileStateProofs | names, and any number of blocks, scopes, contexts and held scopes |
| `TypeCorrect` (`TypeOK`), `LinkersAgree` (`LinkedAsFound`), `NoneIsLeftDangling` (`NoDanglingCode`), `ModulesEndOnce` (`EndsInTime`), `UsersAreFirst` (`UsersEndFirst`) | JitSymbolsProofs | names, objects and units, and any number of definitions, contexts and scopes |
| `ImplementsScopes` (`Meant`) | JitScopesProofs | the same |
| `TypeCorrect` (`TypeOK`), `NumbersConvert` (`NumbersAsInC`), `ObjectsKept` (`SameObject`), `OperandsGiven` (`Unreferenced`), `RefusalsQuiet` (`QuietNo`) | ConversionsProofs | two types, and every value of the first in a memory of any objects; integers of any width |

**ImportCache.** `TypeOK` carries, beside the types, that no write time is in the
future, and is inductive. `FreshImports` is not: it says nothing of the binaries
on disk nor of checks that are half done. `FreshInv` adds

- `BinInv`: a whole binary holds something of every file it reaches, and what it
  holds is current unless the source is newer than the binary;
- `CheckInv(p)`: a verdict "good" means that the binary is fresh, and a check that
  has passed some imports has seen no source below them newer than its binary, or
  the binary has been replaced meanwhile by a fresh one (`FrameInv`);
- `ImportInv(p)`: what the units of a running import have brought in so far is
  current (`LoadedInv`), and so is every finished one.

That another process can only replace a binary by a fresh one is what makes the
three hold together, and why two compilers may share a tree without a lock.
`Acyclic` is needed: with circles "unknown" counts as good (section 5).
`~EditWhileRunning` is needed: a source may change between its check and its use.

The theorems of ImportCacheSettledProofs let sources change at any moment and have one
compiler on the tree instead (`Alone`; it may be killed and started again, and the
power may fail). That no usable file is compiled rests on `VerdictInv`: a file judged
bad and not yet imported is not usable (`BadInv`), and one that has been replaced is
newer than all that have not, so that a check that finds a bad import either finds
it not usable or finds it newer than the binary it is checking. This holds with circles:
a check that meets itself is optimistic, never pessimistic. The other two theorems need the rest of
`SettledInv`, in which nothing is said of the sources as they are now:

- `GoodInv(p)`: below a good binary are good ones, none newer;
- `HoldsInv(p)`: an import that runs from its source holds that source and what finished
  imports below it hold (`Holds`), and a finished one what its binary does, with
  finished imports whose binaries are not newer (`Finished`);
- `HeldInv(f)`: while nothing below f has been replaced since (`Whole`), what the
  binary of f holds of another file is what that file's binary holds; of itself it
  holds one version.

So whatever two finished imports hold of a third file is what its binary holds, which
is one version. A new binary is newer than all others: whatever reaches it is not whole
until it has been compiled again, which is why `HeldInv` survives `Rename`. TLC finds
counterexamples without the hypotheses: two compilers break each of the three
properties (one replaces a binary that the other has judged, or judged and not yet
loaded), circles break `OneVersion` and `ImportSettles`.

`CompilersEnd` needs no invariant but `TypeOK` and has no hypothesis but that the files are
finitely many. `StepsLeft` adds up what each activation can still do by itself, over both
stacks, and `Cardinality(Files) + 4` for every call that the memo and `tctx.imported` still
allow; an activation never has more than that. So a step either uses up something
of the activation on top (`CheckUses`, `ImportUses`, `AskUses`), or enters a new one and uses
up a call (`CallUses`), and what others do is nothing to a compiler (`OthersKeep`).
`StepLess` weighs the two against each other; `TotalLaws`, `ChecksLaws` and
`ImportsLaws` say how a sum over a stack changes with its top.

**VpegParser.** `ParserInv` adds to `TypeOK` that positions and caught strings are
inside the source (`Good`); that the stack is a chain of calls, each activation
having called the next in a state it can have reached (`Linked`), in its own
initial state if it is one that passes the state on (`Passes`); that the memo
holds no result beyond the source nor a failure that moves (`MemoInv`); and what a
return may look like (`ReturnInv`). `Linked` is the reason that a failure
restores: a choice or an option relies on its kid, the kid on its own. The theorems
have the hypothesis `OperatorsTyped`: that `Act`, `ActAux` and `PosValue`, which
are operators given as constants, yield values.

That nothing aborts cannot hold for every grammar: one may ask for a variable that it
never binds. `ScopedNeverAborts` says for which it does. A scoping (`VpegScoping`) is a
table of what every parser needs to find bound, of what its success adds, and of what
a sequence has gained before each of its kids, such that needs are covered and gains
are earned; a lookahead, an option and a star give nothing, a choice only what all of its
kids give, a rule nothing to its caller. It is a judgement about the terms of a grammar,
without sources, states or a memo. `ScopeInv` ties the parser to it: every activation
was called with what its parser needs and has called its kid with what was gained besides
(`StackScoped`), the activation above it is one of that kid, and a success returns with
what the kid's entry promises. That states are restored by failures and lookaheads, that
a memo answers for a rule with none of its variables, and that a left-recursive rule
starts again with fresh ones is what the proof goes through. `VpegScopes` computes a
table, and TLC evaluates that it is a scoping (`ScopingAssumption`) for the grammars of both
runs: so, as long as the actions yield values (`OperatorsTyped`), as those of the code do,
the level-0 grammar of `vpeg_voidc.cpp` and that of the operators ask for nothing that is
not there in any source, not only in those that are checked.

**ImportScope.** `Inv` adds to `TypeOK` and `OneActivation` that a running file is
known (`RunningKnown`), so that it never starts again; that a suspended context is
in the middle of its call (`CallPending`); and that above the program there are
only files (`FilesAbove`). Steps are of three kinds (`StepKinds`): the innermost
context goes on, starts a file or ends; `ExportsFrozen` follows from these.

`ScopesMean` and `ExportsMean` hold up each other and need to know more of every
context. `Meant` is inductive with `Inv`, in trees whose files import downwards (`Downwards`):

- `CtxMeans`: a context has made the first calls of its file (`Progress`); its declarations
  and efforts are what these mean, and its `imported` and `exported` are the files that
  they import and re-export;
- `DataMeans`: the export data of a file that runs is what its calls so far export, of one
  that has run what all of them do, and of one that has not been started nothing;
- `Pending`: a suspended context is at the call that the one above it runs for, the first
  that imports that file;
- what a context has imported is known to `tctx.imported`. It has also run to its end
  (`KnownHasRun`): a file that is running is above the context, and imports go downwards.

One lemma per way through `v_import_helper` (`PlainAdvances`, `ImportReceives`, ...) says
that a step takes a context from the meaning of k calls to that of k + 1. They rest
on what joining sequences of calls does to the declarations and efforts they mean
(`DeclaresAppend`, `RunsAppend`, `MeaningOfBoth`): an import inserts the export data of a file, and
inserting one after the other is inserting what both amount to. `BeneathAssumption`, that the
order of files ends, is what makes `Exported`, which recurs through imports, a
definition (`ExportedIs`); every finite tree without circles has such an order.

**CompileState.** `IInv` is `TypeOK`, `CleanedOnce`, `NewestFirst` and `Kept`.
`CleanedOnce` and `NewestFirst` need each other: that closing a scope frees nothing
twice rests on the lists being in a strict order, which leaves no block in two of
them, and that a new block goes in front of an ordered list rests on every block
that waits being older. `NoDangling` is not inductive, since it does not say why a
block that is declared has not been freed; `Kept` does: what a scope declares waits
in its own list, in those of the scopes around it or in the global one, and what is
exported waits in the global one. The lemmas on `Inside` are about a scope that is
opened or closed, those on `Fronted` about what is put in front of the open
scope's list: a declaration's cleaner, or the list of a scope that was held.

**JitSymbols.** `NoDanglingCode` says nothing of who may be linked to whom, and
`UsersEndFirst` nothing of the order in which cleaners wait; neither is inductive.
`IInv` is `TypeOK` and `EndsInTime` with

- `OneOwner`: a module that was loaded belongs to one context, or is exported, or has
  been removed with its context, and each was made before it was loaded;
- `InOrder`: the cleaners of a context are in the reverse of the order of making,
  inner scopes before outer ones, and account for exactly those of its modules that
  have not ended; those of the global context are its deque;
- `Bindings`: a module is bound to nothing newer than itself; an exported one only to
  what is exported, the executable, or values, and one of a context to these and to
  modules of its own context;
- `Tabled`: `base_jd` and `unit_symbols` hold values, never modules.

`Bindings` is why removing the dylibs of an import leaves nobody with calls into
them; with `InOrder` it is why users end first: the order of ending is that of
making reversed, and nobody is bound forwards. `GlobalLinkOrder`, which shows
exported code only `base_jd` of the context, is what keeps the middle one true.

That JitSymbols implements SymbolScopes needs two facts more (`RInv`): `base_jd` lies
behind all modules of a context (`Based`), so that what is found is the newest module's
or else a value; and no name has a value in `base_jd` and another one that waits
(`OneTable`), so that `define` never refuses what a unit has added, and a flush is
`Settle`. `LoadMeans`, `AddMeans`, `FlushMeans` and `NewMeans` say of one scope what loading, adding,
flushing and a new context do to it; `RStep` goes through the actions.

**Conversions.** `QuietNo` with the typing of values is what the others need: `Inv` is
the conjunction of the five, with `Asked`, which is what holds before the call. A conversion
is at most two or three primary ones in a row, and the proof follows the code: what is
decided at once (`Directly`) keeps types, numbers and objects (`DirectStep`), and each combined
way is a way of such steps (`TwoSteps`, `ThreeSteps`; `LoadThenScalar`, `ScalarThenPlace`,
`LoadScalarPlace`, `ArrayReferenceToVoid`, `ArrayToPointer`, ...). `ConvertKeeps` puts these together, and
`VainWays` with `Vain1` to `Vain4` is what the two ways that lead nowhere come to.
Numbers need arithmetic modulo powers of two: `Division` and `Modulo` are proved from the
definitions, since the provers know `%` by numerals only, and `IntegerCast`, `IntegerFlip` say what
`LLVMBuildCast` keeps when widths grow or signs differ. The hypotheses are that `Types` are types (`TypesAssumption`:
a positive width, an element that is not `void` except behind a pointer) and that a value
given has its type in the memory given with it (`GivenAssumption`). `NumbersAsInC` follows three
references and `HasType` looks at two levels of arrays, which is as far as the code's
rules reach: they look at a type, its element and the element of that.

**How recursion is reasoned about.** The library's induction theorems take an operator as a
parameter, which the provers cannot instantiate. A set of numbers has a least one,
though (`WFMin` with `NatLessThanWellFounded`, both about sets), and from this follow
induction over a set of numbers (`LeastOne`, `Induction`) and that a recursive function is what its definition says
(`Recursion`, `Pow2Def`, `FlatExists`, `JoinedIs`, `TotalIs`). So powers, quotients, sums over
stacks and the sequences that `FlattenSeq` joins could be reasoned about. `RECURSIVE` operators could not: the provers do
not take modules that declare one.

**Only model-checked.** Liveness (`Terminates`) is out of the prover's reach. `UnitMeansItself`,
`ReadsBack`, `NumbersExact` and `TextAsWritten` compare with `RECURSIVE` definitions over terms and texts, and the
`TypeOK`, `MeansItself` and `TemporariesEnd` of StarterMeaning rest on recursive operators too: the compiler
calls itself for the parts of an expression.

## 5. Where the code differs from what it says

**A binary judged good that is not** (`import_circle_usable`, `GoodIsUsable`). In a
circle of imports the check of a file meets itself, answers "unknown => kinda
good" (`voidc_main.cpp:269`) and lets the importer be recorded as `ist_good`,
"Usable binary", before its own verdict is found. With a -> {b, c}, b -> a and an
edit of c, a is compiled again while b is loaded from a binary made from the old
c.

**An array does not convert to `*void`** (`conversions_decay`, `ArraysDecay`). The
comments at `voidc_target.cpp:1414-1419` say `T[_] ->> *void` by way of
`T[_] ->> *T`; line 1416 makes a reference to the element, to which no array
converts, so that the call throws, and goes on for ever when the element is
itself a `*void`.

**A module that is loaded twice** (`unit_buffers`, `LoadedOnce`). The library asks
for the next load to be skipped when its module is there
(`library/import/cstdarg.void:236-239`). Only the load from a binary looks at the
counter (`voidc_target.cpp:2741-2750`); a unit that ends a module loads it at once
(`voidc_target.cpp:2798`). A file imported for a second target with no binary for it
yet loads its module again, and the load that is skipped is that of the next file.

What the models of the Starter keep as the code has it, and nothing contradicts:

- The size given to `v_alloca` is compiled like any argument (`voidc_compiler.cpp:396`):
  when it makes a temporary, the end of the statement releases the array too
  (`TemporariesEnd` says where; `MeansItself` leaves such statements out).
- A positive literal counts as unsigned with the fewest bits that hold it, so that 5
  is accepted where an `int` of three bits is wanted, and is -3 there.
- An unsigned index is widened only when it is narrower than 32 bits
  (`voidc_compiler.cpp:436`); at exactly 32 LLVM reads it as signed. The model has the
  border at `IndexWidth`.
- In a text that ends in a carriage return the last line is counted when one more
  character has been read, which the end of the file is not.

## 6. What is not modelled

- *Targets other than voidc*: their contexts find export data by file name.
- *The search for files*: an import names one file; import paths and the mapping
  of sources to binaries are fixed.
- *Results of file operations*: the code looks at none of `fwrite`, `fclose`,
  `mkstemp`; a full disk is a hazard without a property.
- *A power loss that tears a binary*: in the model a file loses its header with its
  data. Nothing is synced before the rename (`voidc_main.cpp:455-460`), so a header
  can reach the disk and later blocks not; such a binary would be taken for a whole
  one, and `FreshImports` would not hold.
- *Positions of trees* (`pos_start`, `pos_end`) and the functions with which Void
  code builds parsers: data, and forwarding.
- *Structures, vectors and functions in conversions*: they convert to themselves
  and to references only, by the code that arrays take.
- *LLVM*: optimisation and code generation; `Cast`, `Load` and the like are what
  the source uses of it.
- *In the Starter compiler*: objects of static types, `v_getelementptr` with several
  indices, casts of vectors, addresses as numbers, and whatever intrinsics a
  program declares; among these are the branches of `&&` and `||`, in which a first
  temporary would put its `stacksave`.
- *Calls into a module after its end*: a module whose scope has ended has run its
  `term_func` and stays in the deque of its context, so that later code can still be
  linked to it. JitSymbols has this behaviour; nothing says what such code may
  expect.
- *Types*: interning is a lookup in maps, so types are terms. What the maps do not
  show is that an array or function type of a struct without a body caches LLVM's
  `{}` for it (`voidc_types.cpp:137`) and keeps it when the body is set. Nothing says
  that such a type may be asked for its LLVM type, so there is no promise to state.
- *Quarks, visitors, grammars as maps*: interned strings and persistent maps; a
  lookup in them is a function application in the modules that use them.
- *How operators are compiled* (`expr_util.void` from 580): methods and intrinsics
  in Void on what the Starter offers; only their grammar is modelled.
- *The text of the other language levels*: about 50 thousand lines of Void. Where they
  drive the Starter in a way that matters (cleaners, held scopes, blocks), the
  model of the Starter takes the calls they make.
- *Syntax trees, utilities*: immutable data and forwarding.

The hazards without a property are listed with their reasons in `PROJECT.json`.

## 7. Plan

Done, in this order: ImportCache, VpegParser with its meaning and the level-0
grammar, ImportScope, Conversions, CompileState, JitSymbols, UnitBuffers,
StarterCompiler, VpegInput, VpegExpression; then the proofs of section 4. If the models
are extended:

1. **Namespaces** (`level-03/namespaces.void`) on ImportScope.
