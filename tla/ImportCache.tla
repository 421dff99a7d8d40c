----------------------------- MODULE ImportCache -----------------------------
(***************************************************************************)
(* The import cache of compiler/stage0/voidc_main.cpp: the binaries kept    *)
(* beside the sources (obtain_import_bin_filepath), the recursive check of  *)
(* their freshness (check_import_state), the import of one file             *)
(* (v_import_helper) and the write of a new binary (out_binary_t).          *)
(*                                                                          *)
(* Several compilers (Procs) may run on one tree.  A source is a version    *)
(* number and a write time.  A binary is a write time, whether its header   *)
(* holds the magic, and its provenance: the source versions whose units     *)
(* went into it, its own and those of everything it imported when it was    *)
(* compiled.  The recursion of the code is an explicit stack per process,   *)
(* one for the imports and, above its top, one for the checks.              *)
(***************************************************************************)
EXTENDS Naturals, Sequences

CONSTANTS
    Files,             \* the sources that can be imported
    Imports,           \* Imports[f]: the files that the units of f import
    Programs,          \* the programs: what each imports itself
    Procs,             \* compiler processes that share the tree
    MaxVer,            \* bound: versions of one source
    MaxRuns,           \* bound: processes started
    EditWhileRunning,  \* may a source change while a compiler runs?
    Faults             \* what else happens: "remove" a source, lose "power"

ASSUME ImportsAssumption == Imports \in [Files -> SUBSET Files]
ASSUME BoundsAssumption == MaxVer \in Nat \ {0} /\ MaxRuns \in Nat
ASSUME EditAssumption == EditWhileRunning \in BOOLEAN
ASSUME ProgramsAssumption == Programs \subseteq SUBSET Files
ASSUME FaultsAssumption == Faults \subseteq {"remove", "power"}

VARIABLES
    clock,         \* the last write time given out by the file system
    src,           \* src[f]: the source file
    bin,           \* bin[f]: the binary at its final path
    running,       \* the processes that are running
    main,          \* main[p]: imports that the program of p has still to make
    import_state,  \* import_state[p][f]: the memo of check_import_state
    imported,      \* imported[p]: the keys of tctx.imported
    loaded,        \* loaded[p][f]: provenance of f as p has it in memory
    checks,        \* checks[p]: the activations of check_import_state
    imps,          \* imps[p]: the activations of v_import_helper
    runs           \* processes started so far

fileVars == <<clock, src, bin>>
procVars == <<running, main, import_state, imported, loaded, checks, imps>>
vars == <<fileVars, procVars, runs>>

Time == Nat
Prov == SUBSET (Files \X (1..MaxVer))
Source == [ver: 1..MaxVer, time: Time, exists: BOOLEAN]
Binary == [exists: BOOLEAN, magic: BOOLEAN, time: Time, prov: Prov]

\* import_state_t; "none" stands for a key that is not in the map.
import_state_t == {"none", "unknown", "good", "bad"}

CheckFrame == [file: Files, phase: {"stat", "open", "imports"},
               time: Time, todo: SUBSET Files]
ImportFrame == [file: Files, phase: {"check", "binary", "compile", "closed"},
                time: Time, todo: SUBSET Files]

TypeOK ==
    /\ clock \in Time
    /\ src \in [Files -> Source]
    /\ bin \in [Files -> Binary]
    /\ running \in SUBSET Procs
    /\ main \in [Procs -> SUBSET Files]
    /\ import_state \in [Procs -> [Files -> import_state_t]]
    /\ imported \in [Procs -> SUBSET Files]
    /\ loaded \in [Procs -> [Files -> Prov]]
    /\ checks \in [Procs -> Seq(CheckFrame)]
    /\ imps \in [Procs -> Seq(ImportFrame)]
    /\ runs \in 0..MaxRuns
    /\ \A f \in Files : src[f].time <= clock /\ bin[f].time <= clock
    /\ \A p \in Procs : \A i \in DOMAIN imps[p] : imps[p][i].time <= clock

(***************************************************************************)
(* Files and what they import.                                              *)
(***************************************************************************)

\* The files that f imports, directly or not, and f itself.
Closed(S) == \A g \in S : Imports[g] \subseteq S
Reach(f) == {g \in Files : \A S \in SUBSET Files : f \in S /\ Closed(S) => g \in S}

\* What a compilation of f from the sources as they are now would contain.
Current(f) == {<<g, src[g].ver>> : g \in Reach(f)}

NoBinary == [exists |-> FALSE, magic |-> FALSE, time |-> 0, prov |-> {}]

(***************************************************************************)
(* Stacks.  The last element of a sequence is the running activation.       *)
(***************************************************************************)
Top(s) == s[Len(s)]
Pop(s) == SubSeq(s, 1, Len(s) - 1)
SetTop(s, e) == [s EXCEPT ![Len(s)] = e]

Checking(p) == checks[p] # <<>>
Importing(p) == ~Checking(p) /\ imps[p] # <<>>

\* f is imported by p to the end: its activation has returned.
Done(p, f) == f \in imported[p] /\ \A i \in DOMAIN imps[p] : imps[p][i].file # f

Init ==
    /\ clock = 0
    /\ src = [f \in Files |-> [ver |-> 1, time |-> 0, exists |-> TRUE]]
    /\ bin = [f \in Files |-> NoBinary]
    /\ running = {}
    /\ main = [p \in Procs |-> {}]
    /\ import_state = [p \in Procs |-> [f \in Files |-> "none"]]
    /\ imported = [p \in Procs |-> {}]
    /\ loaded = [p \in Procs |-> [f \in Files |-> {}]]
    /\ checks = [p \in Procs |-> <<>>]
    /\ imps = [p \in Procs |-> <<>>]
    /\ runs = 0

(***************************************************************************)
(* check_import_state.                                                      *)
(***************************************************************************)
CheckCall(f) == [file |-> f, phase |-> "stat", time |-> 0, todo |-> {}]

\* Return from the running check with a verdict; the memo keeps it.
CheckReturn(p, verdict) ==
    /\ checks' = [checks EXCEPT ![p] = Pop(@)]
    /\ import_state' = [import_state EXCEPT ![p][Top(checks[p]).file] = verdict]

\* "First, check bin_absolute itself": missing, or older than its source.
CheckStat(p) ==
    /\ Checking(p)
    /\ LET fr == Top(checks[p]) IN
       /\ fr.phase = "stat"
       /\ bin[fr.file].exists => src[fr.file].exists
       /\ IF ~bin[fr.file].exists \/ src[fr.file].time > bin[fr.file].time
          THEN CheckReturn(p, "bad")
          ELSE /\ checks' = [checks EXCEPT ![p] =
                     SetTop(@, [fr EXCEPT !.phase = "open", !.time = bin[fr.file].time])]
               /\ UNCHANGED import_state
    /\ UNCHANGED <<fileVars, running, main, imported, loaded, imps, runs>>

\* Mutant of CheckOpen: the header is not looked at.
CheckOpen_NoMagic(p) ==
    /\ Checking(p)
    /\ LET fr == Top(checks[p]) IN
       /\ fr.phase = "open"
       /\ checks' = [checks EXCEPT ![p] =
             SetTop(@, [fr EXCEPT !.phase = "imports", !.todo = Imports[fr.file]])]
    /\ UNCHANGED <<fileVars, running, main, import_state, imported, loaded, imps, runs>>

\* "Second, check for header": a binary without the magic is bad.
CheckOpen(p) ==
    /\ Checking(p)
    /\ LET fr == Top(checks[p]) IN
       /\ fr.phase = "open"
       /\ IF ~bin[fr.file].magic
          THEN CheckReturn(p, "bad")
          ELSE /\ checks' = [checks EXCEPT ![p] =
                     SetTop(@, [fr EXCEPT !.phase = "imports", !.todo = Imports[fr.file]])]
               /\ UNCHANGED import_state
    /\ UNCHANGED <<fileVars, running, main, imported, loaded, imps, runs>>

\* Mutants of ImportUsable: the times are not compared, or the wrong way round.
ImportUsable_NoTime(p, c, t) == import_state[p][c] # "bad"
ImportUsable_Swapped(p, c, t) == import_state[p][c] # "bad" /\ ~(t > bin[c].time)

\* Is the binary of an import, already judged in this process, usable in one
\* written at time t?  "unknown" counts as usable, a newer binary does not.
ImportUsable(p, c, t) == import_state[p][c] # "bad" /\ ~(bin[c].time > t)

\* Mutant of CheckImport: the memo is left to the return of the recursive call.
CheckImport_MemoLate(p, c) ==
    /\ Checking(p)
    /\ src[c].exists
    /\ LET fr == Top(checks[p]) IN
       /\ fr.phase = "imports"
       /\ c \in fr.todo
       /\ \/ /\ import_state[p][c] = "none"
             /\ checks' = [checks EXCEPT ![p] = Append(@, CheckCall(c))]
             /\ UNCHANGED import_state
          \/ /\ import_state[p][c] # "none"
             /\ ImportUsable(p, c, fr.time)
             /\ checks' = [checks EXCEPT ![p] = SetTop(@, [fr EXCEPT !.todo = @ \ {c}])]
             /\ UNCHANGED import_state
          \/ /\ import_state[p][c] # "none"
             /\ ~ImportUsable(p, c, fr.time)
             /\ CheckReturn(p, "bad")
    /\ UNCHANGED <<fileVars, running, main, imported, loaded, imps, runs>>

\* "Now, check for imports": one entry of the list in the binary.  An import
\* without a memo is checked first, by a recursive call.
CheckImport(p, c) ==
    /\ Checking(p)
    /\ src[c].exists
    /\ LET fr == Top(checks[p]) IN
       /\ fr.phase = "imports"
       /\ c \in fr.todo
       /\ \/ /\ import_state[p][c] = "none"
             /\ checks' = [checks EXCEPT ![p] = Append(@, CheckCall(c))]
             /\ import_state' = [import_state EXCEPT ![p][c] = "unknown"]
          \/ /\ import_state[p][c] # "none"
             /\ ImportUsable(p, c, fr.time)
             /\ checks' = [checks EXCEPT ![p] = SetTop(@, [fr EXCEPT !.todo = @ \ {c}])]
             /\ UNCHANGED import_state
          \/ /\ import_state[p][c] # "none"
             /\ ~ImportUsable(p, c, fr.time)
             /\ CheckReturn(p, "bad")
    /\ UNCHANGED <<fileVars, running, main, imported, loaded, imps, runs>>

CheckDone(p) ==
    /\ Checking(p)
    /\ Top(checks[p]).phase = "imports"
    /\ Top(checks[p]).todo = {}
    /\ CheckReturn(p, "good")
    /\ UNCHANGED <<fileVars, running, main, imported, loaded, imps, runs>>

(***************************************************************************)
(* v_import_helper.                                                         *)
(***************************************************************************)

\* The units that run next ask for f: those of the program of p, or those of
\* the file whose import is running.
Wants(p, f) ==
    /\ p \in running
    /\ ~Checking(p)
    /\ IF imps[p] = <<>> THEN f \in main[p]
       ELSE Top(imps[p]).phase \in {"binary", "compile"} /\ f \in Top(imps[p]).todo

\* The import stack of p, and its program, once they have asked for f.
Asked(p, f) ==
    IF imps[p] = <<>> THEN <<>> ELSE SetTop(imps[p], [Top(imps[p]) EXCEPT !.todo = @ \ {f}])
AskedMain(p, f) ==
    main' = IF imps[p] = <<>> THEN [main EXCEPT ![p] = @ \ {f}] ELSE main

\* The provenance of the units of a caller that is being compiled takes in
\* that of the file it has just imported.
Merge(p, stack, f) ==
    IF stack # <<>> /\ Top(stack).phase = "compile"
    THEN [loaded EXCEPT ![p][Top(stack).file] = @ \cup loaded[p][f]]
    ELSE loaded

\* "Already imported": finished, or still running further down the stack.
ImportAgain(p, f) ==
    /\ Wants(p, f)
    /\ src[f].exists
    /\ f \in imported[p]
    /\ imps' = [imps EXCEPT ![p] = Asked(p, f)]
    /\ AskedMain(p, f)
    /\ loaded' = Merge(p, imps[p], f)
    /\ UNCHANGED <<fileVars, running, import_state, imported, checks, runs>>

\* Mutant of ImportFirst: the verdict of an earlier check is not used.
ImportFirst_NoMemo(p, f) ==
    /\ Wants(p, f)
    /\ src[f].exists
    /\ f \notin imported[p]
    /\ imported' = [imported EXCEPT ![p] = @ \cup {f}]
    /\ AskedMain(p, f)
    /\ imps' = [imps EXCEPT ![p] =
          Append(Asked(p, f), [file |-> f, phase |-> "check", time |-> 0, todo |-> {}])]
    /\ checks' = [checks EXCEPT ![p] = <<CheckCall(f)>>]
    /\ import_state' = [import_state EXCEPT ![p][f] = "unknown"]
    /\ UNCHANGED <<fileVars, running, loaded, runs>>

\* The first import of f: it is noted at once, and its binary is checked
\* unless this process has done so already.
ImportFirst(p, f) ==
    /\ Wants(p, f)
    /\ src[f].exists
    /\ f \notin imported[p]
    /\ imported' = [imported EXCEPT ![p] = @ \cup {f}]
    /\ AskedMain(p, f)
    /\ imps' = [imps EXCEPT ![p] =
          Append(Asked(p, f), [file |-> f, phase |-> "check", time |-> 0, todo |-> {}])]
    /\ IF import_state[p][f] = "none"
       THEN /\ checks' = [checks EXCEPT ![p] = <<CheckCall(f)>>]
            /\ import_state' = [import_state EXCEPT ![p][f] = "unknown"]
       ELSE UNCHANGED <<checks, import_state>>
    /\ UNCHANGED <<fileVars, running, loaded, runs>>

\* use_binary: the units of the binary, as it is at this moment, are run.
OpenBinary(p) ==
    /\ Importing(p)
    /\ LET fr == Top(imps[p]) IN
       /\ fr.phase = "check"
       /\ import_state[p][fr.file] # "bad"
       /\ loaded' = [loaded EXCEPT ![p][fr.file] = bin[fr.file].prov]
       /\ imps' = [imps EXCEPT ![p] =
             SetTop(@, [fr EXCEPT !.phase = "binary", !.todo = Imports[fr.file]])]
    /\ UNCHANGED <<fileVars, running, main, import_state, imported, checks, runs>>

\* !use_binary: the source is opened and a temporary file is created.
OpenSource(p) ==
    /\ Importing(p)
    /\ LET fr == Top(imps[p]) IN
       /\ fr.phase = "check"
       /\ import_state[p][fr.file] = "bad"
       /\ src[fr.file].exists
       /\ loaded' = [loaded EXCEPT ![p][fr.file] = {<<fr.file, src[fr.file].ver>>}]
       /\ imps' = [imps EXCEPT ![p] =
             SetTop(@, [fr EXCEPT !.phase = "compile", !.todo = Imports[fr.file]])]
    /\ UNCHANGED <<fileVars, running, main, import_state, imported, checks, runs>>

\* Mutant of CloseBinary: the time of the file is not one the clock has shown.
CloseBinary_Ahead(p) ==
    /\ Importing(p)
    /\ LET fr == Top(imps[p]) IN
       /\ fr.phase = "compile"
       /\ fr.todo = {}
       /\ imps' = [imps EXCEPT ![p] = SetTop(@, [fr EXCEPT !.phase = "closed", !.time = clock + 1])]
    /\ UNCHANGED <<clock, src, bin, running, main, import_state, imported, loaded, checks, runs>>

\* All units done: the list of imports and, last, the header are written and
\* the temporary file is closed.
CloseBinary(p) ==
    /\ Importing(p)
    /\ LET fr == Top(imps[p]) IN
       /\ fr.phase = "compile"
       /\ fr.todo = {}
       /\ imps' = [imps EXCEPT ![p] = SetTop(@, [fr EXCEPT !.phase = "closed", !.time = clock + 1])]
    /\ clock' = clock + 1
    /\ UNCHANGED <<src, bin, running, main, import_state, imported, loaded, checks, runs>>

\* The activation returns to its caller.
ImportReturn(p) ==
    /\ imps' = [imps EXCEPT ![p] = Pop(@)]
    /\ loaded' = Merge(p, Pop(imps[p]), Top(imps[p]).file)

\* Mutant of Rename: the header of zeros was not overwritten.
Rename_NoHeader(p) ==
    /\ Importing(p)
    /\ LET fr == Top(imps[p]) IN
       /\ fr.phase = "closed"
       /\ bin' = [bin EXCEPT ![fr.file] = [exists |-> TRUE, magic |-> FALSE,
                                           time |-> fr.time, prov |-> loaded[p][fr.file]]]
    /\ ImportReturn(p)
    /\ UNCHANGED <<clock, src, running, main, import_state, imported, checks, runs>>

\* ~out_binary_t: the closed temporary file is renamed to its final path.
Rename(p) ==
    /\ Importing(p)
    /\ LET fr == Top(imps[p]) IN
       /\ fr.phase = "closed"
       /\ bin' = [bin EXCEPT ![fr.file] = [exists |-> TRUE, magic |-> TRUE,
                                           time |-> fr.time, prov |-> loaded[p][fr.file]]]
    /\ ImportReturn(p)
    /\ UNCHANGED <<clock, src, running, main, import_state, imported, checks, runs>>

BinaryDone(p) ==
    /\ Importing(p)
    /\ Top(imps[p]).phase = "binary"
    /\ Top(imps[p]).todo = {}
    /\ ImportReturn(p)
    /\ UNCHANGED <<fileVars, running, main, import_state, imported, checks, runs>>

(***************************************************************************)
(* The life of a process.                                                   *)
(***************************************************************************)

\* The maps of the processes in P are gone with them.  A temporary file that
\* was not renamed stays behind under a name that nothing reads.
Exit(P) ==
    /\ running' = running \ P
    /\ main' = [p \in Procs |-> IF p \in P THEN {} ELSE main[p]]
    /\ import_state' = [p \in Procs |-> IF p \in P THEN [f \in Files |-> "none"] ELSE import_state[p]]
    /\ imported' = [p \in Procs |-> IF p \in P THEN {} ELSE imported[p]]
    /\ loaded' = [p \in Procs |-> IF p \in P THEN [f \in Files |-> {}] ELSE loaded[p]]
    /\ checks' = [p \in Procs |-> IF p \in P THEN <<>> ELSE checks[p]]
    /\ imps' = [p \in Procs |-> IF p \in P THEN <<>> ELSE imps[p]]

Start(p) ==
    /\ p \notin running
    /\ runs < MaxRuns
    /\ \E roots \in Programs : main' = [main EXCEPT ![p] = roots]
    /\ running' = running \cup {p}
    /\ runs' = runs + 1
    /\ UNCHANGED <<fileVars, import_state, imported, loaded, checks, imps>>

Finish(p) ==
    /\ p \in running
    /\ ~Checking(p)
    /\ imps[p] = <<>>
    /\ main[p] = {}
    /\ Exit({p})
    /\ UNCHANGED <<fileVars, runs>>

\* The source of f is gone: "Import file not found", an exception of
\* last_write_time, or a null FILE.  None of them is survived.
NeedsSource(p, f) ==
    \/ Wants(p, f)
    \/ /\ Checking(p)
       /\ LET fr == Top(checks[p]) IN
          \/ fr.phase = "imports" /\ f \in fr.todo
          \/ fr.phase = "stat" /\ f = fr.file /\ bin[f].exists
    \/ /\ Importing(p)
       /\ LET fr == Top(imps[p]) IN
          fr.phase = "check" /\ f = fr.file /\ import_state[p][f] = "bad"

NotFound(p) ==
    /\ p \in running
    /\ \E f \in Files : ~src[f].exists /\ NeedsSource(p, f)
    /\ Exit({p})
    /\ UNCHANGED <<fileVars, runs>>

\* A parse error, abort() in a unit, or a signal: no destructor runs.
Kill(p) ==
    /\ p \in running
    /\ Exit({p})
    /\ UNCHANGED <<fileVars, runs>>

(***************************************************************************)
(* The world around the compilers.                                          *)
(***************************************************************************)
Edit(f) ==
    /\ EditWhileRunning \/ running = {}
    /\ src[f].ver < MaxVer
    /\ clock' = clock + 1
    /\ src' = [src EXCEPT ![f] = [ver |-> @.ver + 1, time |-> clock + 1, exists |-> TRUE]]
    /\ UNCHANGED <<bin, procVars, runs>>

Remove(f) ==
    /\ "remove" \in Faults
    /\ EditWhileRunning \/ running = {}
    /\ src[f].exists
    /\ src' = [src EXCEPT ![f].exists = FALSE]
    /\ UNCHANGED <<clock, bin, procVars, runs>>

\* The machine stops.  Nothing syncs a binary before it is renamed, so a name
\* can survive without its data: such a file reads as zeros.  Header and data
\* go together here; that a header outlives its data is not modelled.
PowerLoss ==
    /\ "power" \in Faults
    /\ \E lost \in SUBSET Files :
         bin' = [f \in Files |-> IF f \in lost THEN [bin[f] EXCEPT !.magic = FALSE, !.prov = {}]
                                 ELSE bin[f]]
    /\ Exit(Procs)
    /\ UNCHANGED <<clock, src, runs>>

(***************************************************************************)
(* The specification.                                                       *)
(***************************************************************************)

\* What a running compiler does next.
Step(p) ==
    \/ CheckStat(p) \/ CheckOpen(p) \/ CheckDone(p)
    \/ \E f \in Files : CheckImport(p, f) \/ ImportAgain(p, f) \/ ImportFirst(p, f)
    \/ OpenBinary(p) \/ OpenSource(p) \/ CloseBinary(p) \/ Rename(p) \/ BinaryDone(p)
    \/ Finish(p) \/ NotFound(p)

Next ==
    \/ \E p \in Procs : Step(p) \/ Start(p) \/ Kill(p)
    \/ \E f \in Files : Edit(f) \/ Remove(f)
    \/ PowerLoss

Spec == Init /\ [][Next]_vars

(***************************************************************************)
(* Properties.                                                              *)
(***************************************************************************)

\* No stale import: whatever v_import_helper has brought into a process, from
\* a binary or from its source, was made from the sources as they are, its
\* own and those of everything it imports, directly or not.
FreshImports ==
    \A p \in running, f \in Files : Done(p, f) => loaded[p][f] = Current(f)

\* One version of each source in a process: however sources change while it
\* runs, no two of the imports it has finished were made from different
\* versions of a third file.
OneVersion ==
    \A p \in running, f, g \in Files :
        Done(p, f) /\ Done(p, g)
        => \A x \in loaded[p][f], y \in loaded[p][g] : x[1] = y[1] => x[2] = y[2]

\* The assert(strcmp(magic, ...) == 0) of v_import_helper: between the verdict
\* of check_import_state and the fopen of the binary nothing has taken it away.
HeaderAsserted ==
    \A p \in running :
        Importing(p) /\ Top(imps[p]).phase = "check"
                     /\ import_state[p][Top(imps[p]).file] # "bad"
        => bin[Top(imps[p]).file].exists /\ bin[Top(imps[p]).file].magic

\* "ist_good //- Usable binary": what a binary judged good holds was made from
\* no source that has changed since.
GoodIsUsable ==
    \A p \in running, f \in Files :
        import_state[p][f] = "good" => bin[f].prov \subseteq Current(f)

\* The binaries of f and of all it imports are there and whole, none is older
\* than the binary of something it imports, and none, except where its source
\* has changed since p read it, is older than its source.
Settled(p, f) ==
    \A g \in Reach(f) :
        /\ bin[g].exists /\ bin[g].magic
        /\ <<g, src[g].ver>> \in loaded[p][f] => src[g].time <= bin[g].time
        /\ \A c \in Imports[g] : bin[c].time <= bin[g].time

\* An import leaves the cache in order: once v_import_helper has returned for
\* f, the next process will find every binary it needs for f usable, unless a
\* source was changed in the meantime.
ImportSettles ==
    \A p \in running, f \in Files : Done(p, f) => Settled(p, f)

\* Nothing about the binary of f calls for another compilation.
Usable(f) ==
    \A g \in Reach(f) :
        /\ bin[g].exists /\ bin[g].magic
        /\ src[g].time <= bin[g].time
        /\ \A c \in Imports[g] : bin[c].time <= bin[g].time

\* A usable file is never compiled again.
NoNeedlessCompile ==
    [][\A p \in Procs : OpenSource(p) => ~Usable(Top(imps[p]).file)]_vars

=============================================================================
