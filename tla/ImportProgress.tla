---------------------------- MODULE ImportProgress ----------------------------
(***************************************************************************)
(* Why a compiler comes to its end, also when files import each other in a  *)
(* circle: each of its steps uses up some of what it can still do.  The     *)
(* memo of check_import_state is what limits the checks, the entry that     *)
(* v_import_helper makes in tctx.imported is what limits the imports.       *)
(***************************************************************************)
EXTENDS ImportCache, FiniteSets

ASSUME FilesAssumption == IsFiniteSet(Files)

\* The sum of a sequence of numbers.
Total(s) ==
    LET sum[i \in 0..Len(s)] == IF i = 0 THEN 0 ELSE sum[i - 1] + s[i]
    IN  sum[Len(s)]

\* The steps that one activation can take at most before it returns, those
\* of the activations that it calls not counted.
CheckLeft(fr) ==
    CASE fr.phase = "stat" -> Cardinality(Files) + 3
      [] fr.phase = "open" -> Cardinality(Files) + 2
      [] fr.phase = "imports" -> Cardinality(fr.todo) + 1

ImportLeft(fr) ==
    CASE fr.phase = "check" -> Cardinality(Files) + 3
      [] fr.phase = "compile" -> Cardinality(fr.todo) + 2
      [] fr.phase = "binary" -> Cardinality(fr.todo) + 1
      [] fr.phase = "closed" -> 1

\* The same for all activations of a stack.
ChecksLeft(stack) == Total([i \in 1..Len(stack) |-> CheckLeft(stack[i])])
ImportsLeft(stack) == Total([i \in 1..Len(stack) |-> ImportLeft(stack[i])])

\* Activations that can still be entered: one check and one import of a file.
CallsLeft(p) ==
    Cardinality({f \in Files : import_state[p][f] = "none"}) + Cardinality(Files \ imported[p])

\* The steps that p can take at most.
StepsLeft(p) ==
    Cardinality(main[p]) + (Cardinality(Files) + 4) * CallsLeft(p)
      + ChecksLeft(checks[p]) + ImportsLeft(imps[p])

\* What decides the next step of p.
Local(p) == <<main[p], import_state[p], imported[p], checks[p], imps[p]>>

\* A compiler that goes on running uses up, with every step that it takes, some
\* of the steps it has left, whatever the files import and whatever happens to
\* them and to its binaries meanwhile: check_import_state and v_import_helper
\* return, also in a circle of imports.
StepsRunOut ==
    [][\A p \in running \cap running' :
         Local(p)' = Local(p) \/ StepsLeft(p)' < StepsLeft(p)]_vars

=============================================================================
