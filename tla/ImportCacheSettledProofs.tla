---------------------- MODULE ImportCacheSettledProofs ----------------------
(***************************************************************************)
(* Theorems about one compiler at a time, for any files, with sources that  *)
(* may change at any moment: it compiles nothing that is usable; and,       *)
(* without circles of imports, it leaves the cache settled and has one      *)
(* version of each source.                                                  *)
(***************************************************************************)
EXTENDS ImportCacheProofs

\* No two compilers share the tree.
Alone == \A p, q \in Procs : p = q

(***************************************************************************)
(* The invariant of the verdicts.  A binary judged bad is not usable until  *)
(* it has been replaced, and then it is newer than all that are still old.  *)
(***************************************************************************)

Replaced(p, f) == import_state[p][f] = "bad" /\ Done(p, f)

\* An activation of check_import_state: of a file without a verdict, with the
\* time of its binary.
Checked(p, fr) ==
    /\ import_state[p][fr.file] = "unknown" /\ ~Done(p, fr.file)
    /\ fr.todo \subseteq Imports[fr.file]
    /\ fr.phase # "stat" => bin[fr.file].exists /\ bin[fr.file].time = fr.time
    /\ fr.phase = "imports" => bin[fr.file].magic

ChecksInv(p) ==
    /\ \A i, j \in DOMAIN checks[p] : i # j => checks[p][i].file # checks[p][j].file
    /\ \A i \in DOMAIN checks[p] : Checked(p, checks[p][i])
    /\ \A f \in Files : import_state[p][f] = "unknown"
                           => \E i \in DOMAIN checks[p] : checks[p][i].file = f

\* One of v_import_helper: a binary is run if it was judged good, a source
\* compiled if not, and a temporary file that was closed is newer than all.
Ran(p, fr) ==
    /\ fr.file \in imported[p]
    /\ fr.phase = "binary" => import_state[p][fr.file] = "good"
    /\ fr.phase \in {"compile", "closed"} => import_state[p][fr.file] = "bad"
    /\ fr.phase = "closed" => \A g \in Files : bin[g].time < fr.time

RunsInv(p) ==
    /\ \A i, j \in DOMAIN imps[p] : i # j => imps[p][i].file # imps[p][j].file
    /\ \A i \in DOMAIN imps[p] :
          Ran(p, imps[p][i]) /\ (i # Len(imps[p]) => imps[p][i].phase \in {"binary", "compile"})
    /\ \A f \in imported[p] : import_state[p][f] # "none"

BadInv(p) ==
    \A f \in Files : import_state[p][f] = "bad" =>
        /\ ~Done(p, f) => ~Usable(f)
        /\ Done(p, f) => \A g \in Files : ~Replaced(p, g) => bin[g].time < bin[f].time

VerdictInv == TypeOK /\ \A p \in Procs : IdleInv(p) /\ ChecksInv(p) /\ RunsInv(p) /\ BadInv(p)

(***************************************************************************)
(* The invariant of what is settled.                                        *)
(***************************************************************************)

\* Nothing that f reaches has been replaced later than what imports it.
Whole(f) ==
    \A g \in Reach(f) : /\ bin[g].exists /\ bin[g].magic
                        /\ \A c \in Imports[g] : bin[c].time <= bin[g].time

\* Then what the binary of f holds of another file is what the binary of that
\* file holds; of itself it holds one version, the current one only if it is
\* newer than the source.
HeldInv(f) ==
    /\ Whole(f) => \A x \in bin[f].prov : x[1] \in Reach(f) /\ x \in bin[x[1]].prov
    /\ \A x, y \in bin[f].prov : x[1] = f /\ y[1] = f => x = y
    /\ \A x \in bin[f].prov : x[2] <= src[x[1]].ver
    /\ <<f, src[f].ver>> \in bin[f].prov => src[f].time <= bin[f].time

\* A binary judged good has only good ones below it, none of them newer.
Sound(p, f) ==
    /\ bin[f].exists /\ bin[f].magic
    /\ \A c \in Imports[f] : import_state[p][c] = "good" /\ bin[c].time <= bin[f].time

\* So have the imports that a check has been through.
Handled(p, fr) ==
    fr.phase = "imports" =>
        \A c \in Imports[fr.file] \ fr.todo : import_state[p][c] = "good" /\ bin[c].time <= fr.time

GoodInv(p) ==
    /\ Ordered(checks[p])
    /\ \A i \in DOMAIN checks[p] : Handled(p, checks[p][i])
    /\ \A f \in Files : import_state[p][f] = "good" => Sound(p, f)

\* What the units of an activation hold: those of a binary what is in it, those
\* of a source that source and what they have got from its imports.
Holds(p, fr) ==
    /\ fr.phase # "check" => Imports[fr.file] \ fr.todo \subseteq imported[p]
    /\ fr.phase = "binary" => loaded[p][fr.file] = bin[fr.file].prov
    /\ fr.phase \in {"compile", "closed"} =>
         /\ \A x \in loaded[p][fr.file] :
               /\ x[2] <= src[x[1]].ver
               /\ x[1] = fr.file \/ \E c \in Under(fr.file) : Done(p, c) /\ x \in loaded[p][c]
         /\ \A x, y \in loaded[p][fr.file] : x[1] = fr.file /\ y[1] = fr.file => x = y
    /\ fr.phase = "closed" =>
         /\ fr.todo = {}
         /\ <<fr.file, src[fr.file].ver>> \in loaded[p][fr.file] => src[fr.file].time <= fr.time

\* And a finished import is what its binary holds.
Finished(p, f) ==
    /\ loaded[p][f] = bin[f].prov
    /\ bin[f].exists /\ bin[f].magic
    /\ \A c \in Imports[f] : Done(p, c) /\ bin[c].time <= bin[f].time

HoldsInv(p) ==
    /\ Ordered(imps[p])
    /\ \A i \in DOMAIN imps[p] : Holds(p, imps[p][i])
    /\ \A f \in Files : Done(p, f) => Finished(p, f)

SettledInv ==
    /\ VerdictInv
    /\ \A f \in Files : HeldInv(f)
    /\ \A p \in Procs : GoodInv(p) /\ HoldsInv(p)

(***************************************************************************)
(* What makes a binary not usable.                                          *)
(***************************************************************************)

\* Write times are numbers that the clock has reached.
LEMMA FileTimes ==
    ASSUME TypeOK
    PROVE  /\ clock \in Nat
           /\ \A f \in Files : bin[f].time \in Nat /\ src[f].time \in Nat /\ src[f].ver \in Nat
           /\ \A f \in Files : bin[f].time <= clock /\ src[f].time <= clock
  BY DEF TypeOK, Source, Binary, Time

\* A file that imports, at whatever distance, one that is not usable is not
\* usable either.
LEMMA ImportNotUsable ==
    ASSUME NEW f \in Files, NEW c \in Reach(f), ~Usable(c)
    PROVE  ~Usable(f)
  BY ReachTransitive DEF Usable

\* Whatever f reaches, other than f, is imported by another that f reaches.
LEMMA Importer ==
    ASSUME NEW f \in Files, NEW g \in Reach(f), g # f
    PROVE  \E h \in Reach(f) : h # g /\ g \in Imports[h]
  <1> SUFFICES ASSUME \A h \in Reach(f) : h # g => g \notin Imports[h]
               PROVE  FALSE
    OBVIOUS
  <1> DEFINE S == Reach(f) \ {g}
  <1>1. S \in SUBSET Files /\ f \in S
    BY ReachClosed
  <1>2. Closed(S)
    BY ReachClosed DEF Closed
  <1>3. g \in S
    BY <1>1, <1>2 DEF Reach
  <1> QED
    BY <1>3

\* Usable says something of the files that f reaches only.
LEMMA UsableKept ==
    ASSUME NEW f \in Files, UNCHANGED src, \A g \in Reach(f) : bin'[g] = bin[g]
    PROVE  Usable(f)' <=> Usable(f)
  BY ReachClosed DEF Usable

(***************************************************************************)
(* Stacks, seen without their lengths: the top is at position n.            *)
(***************************************************************************)

Popped(s, t, n) ==
    /\ n \in DOMAIN s /\ Top(s) = s[n] /\ Len(s) = n
    /\ n \notin DOMAIN t
    /\ \A i \in DOMAIN s : i # n => i \in DOMAIN t
    /\ \A i \in DOMAIN t : i \in DOMAIN s /\ t[i] = s[i]

Retopped(s, t, n, e) ==
    /\ n \in DOMAIN s /\ Top(s) = s[n] /\ Len(s) = n /\ Len(t) = n
    /\ DOMAIN t = DOMAIN s /\ t[n] = e
    /\ \A i \in DOMAIN s : i # n => t[i] = s[i]

Pushed(s, t, n, e) ==
    /\ n \notin DOMAIN s /\ n \in DOMAIN t /\ t[n] = e /\ Len(t) = n
    /\ \A i \in DOMAIN t : i # n => i \in DOMAIN s
    /\ \A i \in DOMAIN s : i \in DOMAIN t /\ t[i] = s[i]

\* Pop, SetTop and Append do that.
LEMMA StackShapes ==
    ASSUME NEW S, NEW s \in Seq(S)
    PROVE  /\ s # <<>> => Popped(s, Pop(s), Len(s))
           /\ s # <<>> => \A e \in S : Retopped(s, SetTop(s, e), Len(s), e)
           /\ \A e \in S : Pushed(s, Append(s, e), Len(s) + 1, e)
  <1>1. ASSUME s # <<>> PROVE Popped(s, Pop(s), Len(s))
    <2>1. /\ Len(s) \in Nat \ {0} /\ DOMAIN s = 1..Len(s)
          /\ DOMAIN Pop(s) = 1..(Len(s) - 1)
          /\ \A i \in 1..(Len(s) - 1) : Pop(s)[i] = s[i]
      BY <1>1, PopLemma, LenProperties
    <2>2. /\ Len(s) \in 1..Len(s) /\ Len(s) \notin 1..(Len(s) - 1)
          /\ \A i \in 1..Len(s) : i # Len(s) => i \in 1..(Len(s) - 1)
          /\ 1..(Len(s) - 1) \subseteq 1..Len(s)
      BY <2>1, Indices
    <2>3. Top(s) = s[Len(s)]
      BY DEF Top
    <2> QED
      BY <2>1, <2>2, <2>3, Zenon DEF Popped
  <1>2. ASSUME s # <<>>, NEW e \in S PROVE Retopped(s, SetTop(s, e), Len(s), e)
    <2>1. /\ DOMAIN SetTop(s, e) = 1..Len(s) /\ Len(SetTop(s, e)) = Len(s)
          /\ SetTop(s, e)[Len(s)] = e
          /\ \A i \in 1..Len(s) : i # Len(s) => SetTop(s, e)[i] = s[i]
      BY <1>2, SetTopLemma
    <2>2. Len(s) \in Nat \ {0} /\ DOMAIN s = 1..Len(s) /\ Len(s) \in 1..Len(s)
      BY <1>2, PopLemma, LenProperties, Indices
    <2>3. Top(s) = s[Len(s)]
      BY DEF Top
    <2> QED
      BY <2>1, <2>2, <2>3, Zenon DEF Retopped
  <1>3. ASSUME NEW e \in S PROVE Pushed(s, Append(s, e), Len(s) + 1, e)
    <2>1. /\ Len(s) \in Nat /\ DOMAIN s = 1..Len(s)
          /\ DOMAIN Append(s, e) = 1..(Len(s) + 1) /\ Len(Append(s, e)) = Len(s) + 1
          /\ Append(s, e)[Len(s) + 1] = e
          /\ \A i \in 1..Len(s) : Append(s, e)[i] = s[i]
      BY AppendProperties, LenProperties
    <2>2. \A n \in Nat : /\ n + 1 \in 1..(n + 1) /\ n + 1 \notin 1..n
                         /\ \A i \in 1..(n + 1) : i # n + 1 => i \in 1..n
                         /\ 1..n \subseteq 1..(n + 1)
      OBVIOUS
    <2>3. /\ Len(s) + 1 \in 1..(Len(s) + 1) /\ Len(s) + 1 \notin 1..Len(s)
          /\ \A i \in 1..(Len(s) + 1) : i # Len(s) + 1 => i \in 1..Len(s)
          /\ 1..Len(s) \subseteq 1..(Len(s) + 1)
      BY <2>1, <2>2
    <2> QED
      BY <2>1, <2>3, Zenon DEF Pushed
  <1> QED
    BY <1>1, <1>2, <1>3

\* The same for the stacks of checks and of imports.
LEMMA CheckShapes ==
    \A s \in Seq(CheckFrame) :
        /\ s # <<>> => Popped(s, Pop(s), Len(s))
        /\ s # <<>> => \A e \in CheckFrame : Retopped(s, SetTop(s, e), Len(s), e)
        /\ \A e \in CheckFrame : Pushed(s, Append(s, e), Len(s) + 1, e)
  BY StackShapes

LEMMA ImportShapes ==
    \A s \in Seq(ImportFrame) :
        /\ s # <<>> => Popped(s, Pop(s), Len(s))
        /\ s # <<>> => \A e \in ImportFrame : Retopped(s, SetTop(s, e), Len(s), e)
        /\ \A e \in ImportFrame : Pushed(s, Append(s, e), Len(s) + 1, e)
  BY StackShapes

(***************************************************************************)
(* The verdicts: steps of check_import_state.                               *)
(***************************************************************************)

\* The running check is that of a running process, on a file without a verdict.
LEMMA VerdictCheck ==
    ASSUME TypeOK, NEW p \in Procs, IdleInv(p), ChecksInv(p), Checking(p)
    PROVE  LET fr == Top(checks[p]) IN
           /\ p \in running
           /\ checks[p] \in Seq(CheckFrame) /\ checks[p] # <<>>
           /\ fr \in CheckFrame /\ fr.file \in Files /\ fr.time \in Nat
           /\ Len(checks[p]) \in DOMAIN checks[p] /\ fr = checks[p][Len(checks[p])]
           /\ fr.todo \subseteq Imports[fr.file] /\ fr.todo \subseteq Files
           /\ import_state[p][fr.file] = "unknown" /\ ~Done(p, fr.file)
           /\ fr.phase # "stat" => bin[fr.file].exists /\ bin[fr.file].time = fr.time
           /\ fr.phase = "imports" => bin[fr.file].magic
  <1> DEFINE fr == Top(checks[p])
  <1>1. p \in running /\ checks[p] # <<>> /\ checks[p] \in Seq(CheckFrame)
    BY DEF IdleInv, Checking, TypeOK
  <1>2. /\ fr \in CheckFrame /\ fr.file \in Files /\ fr.time \in Nat
        /\ Len(checks[p]) \in DOMAIN checks[p] /\ fr = checks[p][Len(checks[p])]
    BY <1>1, CheckStackFacts DEF CheckFrame, Time
  <1>3. /\ fr.todo \subseteq Imports[fr.file]
        /\ import_state[p][fr.file] = "unknown" /\ ~Done(p, fr.file)
        /\ fr.phase # "stat" => bin[fr.file].exists /\ bin[fr.file].time = fr.time
        /\ fr.phase = "imports" => bin[fr.file].magic
    BY <1>2 DEF ChecksInv, Checked
  <1> QED
    BY <1>1, <1>2, <1>3, ImportsAssumption

\* The activations of check_import_state are on files.
LEMMA CheckFiles ==
    ASSUME TypeOK, NEW p \in Procs
    PROVE  \A i \in DOMAIN checks[p] : checks[p][i] \in CheckFrame /\ checks[p][i].file \in Files
  <1>1. checks[p] \in Seq(CheckFrame)
    BY DEF TypeOK
  <1>2. \A i \in DOMAIN checks[p] : checks[p][i] \in CheckFrame
    BY <1>1, ElementOfSeq, LenProperties
  <1> QED
    BY <1>2 DEF CheckFrame

\* What an activation has found stays so while its binary does.
LEMMA CheckedKept ==
    ASSUME NEW p \in Procs, NEW fr, Checked(p, fr), UNCHANGED bin,
           import_state'[p][fr.file] = import_state[p][fr.file],
           ~Done(p, fr.file)'
    PROVE  Checked(p, fr)'
  BY DEF Checked

\* Checks leave alone what has a verdict; the imports rely on nothing else.
LEMMA JudgedKept ==
    ASSUME TypeOK, NEW p \in Procs, p \in running, RunsInv(p), BadInv(p),
           UNCHANGED <<src, bin, running, imported, imps>>,
           \A f \in Files : import_state[p][f] \in {"good", "bad"} => import_state'[p][f] = import_state[p][f],
           \A f \in Files : import_state[p][f] # "none" => import_state'[p][f] # "none",
           \A f \in Files : import_state'[p][f] = "bad" /\ import_state[p][f] # "bad"
                               => ~Done(p, f) /\ ~Usable(f)
    PROVE  IdleInv(p)' /\ RunsInv(p)' /\ BadInv(p)'
  <1>1. IdleInv(p)'
    BY DEF IdleInv
  <1>2. \A f \in Files : (Done(p, f)' <=> Done(p, f)) /\ (Usable(f)' <=> Usable(f))
    BY DEF Done, Usable
  <1>3. RunsInv(p)'
    <2>1. ASSUME NEW i \in DOMAIN imps[p] PROVE Ran(p, imps[p][i])'
      <3>1. imps[p][i].file \in Files
        BY ImportFiles
      <3>2. Ran(p, imps[p][i])
        BY DEF RunsInv
      <3> QED
        BY <3>1, <3>2 DEF Ran
    <2>2. imported[p] \subseteq Files
      BY DEF TypeOK
    <2> QED
      BY <2>1, <2>2 DEF RunsInv
  <1>4. BadInv(p)'
    <2>1. ASSUME NEW f \in Files PROVE Replaced(p, f) => Replaced(p, f)'
      BY <1>2 DEF Replaced
    <2>2. ASSUME NEW f \in Files, import_state'[p][f] = "bad", ~Done(p, f)' PROVE ~Usable(f)'
      BY <1>2, <2>2 DEF BadInv
    <2>3. ASSUME NEW f \in Files, import_state'[p][f] = "bad", Done(p, f)',
                 NEW g \in Files, ~Replaced(p, g)'
          PROVE  bin'[g].time < bin'[f].time
      <3>1. import_state[p][f] = "bad" /\ Done(p, f) /\ ~Replaced(p, g)
        BY <1>2, <2>1, <2>3
      <3> QED
        BY <3>1 DEF BadInv
    <2> QED
      BY <2>2, <2>3 DEF BadInv
  <1> QED
    BY <1>1, <1>3, <1>4

\* A stack of checks that has changed.
LEMMA ChecksChange ==
    ASSUME NEW p \in Procs, NEW t, checks'[p] = t,
           \A i, j \in DOMAIN t : i # j => t[i].file # t[j].file,
           \A i \in DOMAIN t : Checked(p, t[i])',
           \A f \in Files : import_state'[p][f] = "unknown" => \E i \in DOMAIN t : t[i].file = f
    PROVE  ChecksInv(p)'
  BY DEF ChecksInv

\* A check returns with a verdict: bad only for what is not usable.
LEMMA VerdictReturns ==
    ASSUME TypeOK, NEW p \in Procs, IdleInv(p), ChecksInv(p), RunsInv(p), BadInv(p), Checking(p),
           NEW verdict \in {"good", "bad"}, CheckReturn(p, verdict),
           verdict = "bad" => ~Usable(Top(checks[p]).file),
           UNCHANGED <<fileVars, running, main, imported, loaded, imps, runs>>
    PROVE  IdleInv(p)' /\ ChecksInv(p)' /\ RunsInv(p)' /\ BadInv(p)'
  <1>0. PICK s, t, n, f0 : s = checks[p] /\ t = Pop(s) /\ n = Len(s) /\ f0 = Top(s).file
    OBVIOUS
  <1>1. s \in Seq(CheckFrame) /\ s # <<>> /\ checks'[p] = t /\ f0 \in Files /\ p \in running
    BY <1>0, VerdictCheck DEF CheckReturn, TypeOK
  <1>2. Popped(s, t, n)
    BY <1>0, <1>1, CheckShapes
  <1>3. /\ import_state'[p][f0] = verdict
        /\ \A f \in Files : f # f0 => import_state'[p][f] = import_state[p][f]
    BY <1>0, <1>1 DEF CheckReturn, TypeOK
  <1>4. /\ import_state[p][f0] = "unknown" /\ ~Done(p, f0)
    BY <1>0, VerdictCheck
  <1>5. UNCHANGED <<src, bin, running, imported, imps>>
    BY DEF fileVars
  <1>6. IdleInv(p)' /\ RunsInv(p)' /\ BadInv(p)'
    BY <1>0, <1>1, <1>3, <1>4, <1>5, JudgedKept
  <1>7. /\ \A i, j \in DOMAIN s : i # j => s[i].file # s[j].file
        /\ \A i \in DOMAIN s : Checked(p, s[i]) /\ s[i].file \in Files
        /\ \A f \in Files : import_state[p][f] = "unknown" => \E i \in DOMAIN s : s[i].file = f
    BY <1>0, CheckFiles DEF ChecksInv
  <1>8. s[n].file = f0
    BY <1>0, <1>2 DEF Popped
  <1>9. ASSUME NEW i \in DOMAIN t PROVE Checked(p, t[i])'
    <2>1. Checked(p, s[i]) /\ t[i] = s[i] /\ s[i].file # f0 /\ s[i].file \in Files
      BY <1>2, <1>7, <1>8 DEF Popped
    <2>2. ~Done(p, s[i].file)'
      BY <1>5, <2>1 DEF Checked, Done
    <2>3. Checked(p, s[i])'
      BY <1>3, <1>5, <2>1, <2>2, CheckedKept
    <2> QED
      BY <2>1, <2>3
  <1>10. \A i, j \in DOMAIN t : i # j => t[i].file # t[j].file
    BY <1>2, <1>7 DEF Popped
  <1>11. ASSUME NEW f \in Files, import_state'[p][f] = "unknown"
         PROVE  \E i \in DOMAIN t : t[i].file = f
    <2>1. f # f0 /\ import_state[p][f] = "unknown"
      BY <1>3, <1>11
    <2>2. PICK i \in DOMAIN s : s[i].file = f
      BY <1>7, <2>1
    <2> QED
      BY <1>2, <1>8, <2>1, <2>2 DEF Popped
  <1>12. ChecksInv(p)'
    BY <1>1, <1>9, <1>10, <1>11, ChecksChange
  <1> QED
    BY <1>6, <1>12

\* A check goes on.
LEMMA VerdictGoesOn ==
    ASSUME TypeOK, NEW p \in Procs, IdleInv(p), ChecksInv(p), RunsInv(p), BadInv(p), Checking(p),
           NEW e \in CheckFrame, e.file = Top(checks[p]).file, e.todo \subseteq Imports[e.file],
           e.phase # "stat" => bin[e.file].exists /\ bin[e.file].time = e.time,
           e.phase = "imports" => bin[e.file].magic,
           checks' = [checks EXCEPT ![p] = SetTop(checks[p], e)],
           UNCHANGED <<import_state, fileVars, running, main, imported, loaded, imps, runs>>
    PROVE  IdleInv(p)' /\ ChecksInv(p)' /\ RunsInv(p)' /\ BadInv(p)'
  <1>0. PICK s, t, n : s = checks[p] /\ t = SetTop(s, e) /\ n = Len(s)
    OBVIOUS
  <1>1. s \in Seq(CheckFrame) /\ s # <<>> /\ checks'[p] = t /\ p \in running
    BY <1>0, VerdictCheck DEF TypeOK
  <1>2. Retopped(s, t, n, e)
    BY <1>0, <1>1, CheckShapes
  <1>3. s[n].file = e.file
    BY <1>0, <1>2 DEF Retopped
  <1>4. UNCHANGED <<src, bin, running, imported, imps, import_state>>
    BY DEF fileVars
  <1>5. IdleInv(p)' /\ RunsInv(p)' /\ BadInv(p)'
    BY <1>1, <1>4, JudgedKept
  <1>6. /\ \A i, j \in DOMAIN s : i # j => s[i].file # s[j].file
        /\ \A i \in DOMAIN s : Checked(p, s[i])
        /\ \A f \in Files : import_state[p][f] = "unknown" => \E i \in DOMAIN s : s[i].file = f
    BY <1>0 DEF ChecksInv
  <1>7. \A i \in DOMAIN s : t[i].file = s[i].file
    BY <1>2, <1>3 DEF Retopped
  <1>8. ASSUME NEW i \in DOMAIN t PROVE Checked(p, t[i])'
    <2>1. Checked(p, s[i]) /\ t[i].file = s[i].file
      BY <1>2, <1>6, <1>7 DEF Retopped
    <2>2. ~Done(p, s[i].file)' /\ import_state'[p][s[i].file] = "unknown"
      BY <1>4, <2>1 DEF Checked, Done
    <2>3. CASE i = n
      <3>1. t[i] = e /\ e.file = s[i].file
        BY <1>2, <1>3, <2>3 DEF Retopped
      <3>2. Checked(p, e)'
        BY <1>4, <2>2, <3>1 DEF Checked
      <3> QED
        BY <3>1, <3>2
    <2>4. CASE i # n
      <3>1. t[i] = s[i] /\ import_state'[p][s[i].file] = import_state[p][s[i].file]
        BY <1>2, <1>4, <2>4 DEF Retopped
      <3>2. Checked(p, s[i])'
        BY <1>4, <2>1, <2>2, <3>1, CheckedKept
      <3> QED
        BY <3>1, <3>2
    <2> QED
      BY <2>3, <2>4
  <1>9. \A i, j \in DOMAIN t : i # j => t[i].file # t[j].file
    BY <1>2, <1>6, <1>7 DEF Retopped
  <1>10. \A f \in Files : import_state'[p][f] = "unknown" => \E i \in DOMAIN t : t[i].file = f
    BY <1>2, <1>4, <1>6, <1>7 DEF Retopped
  <1>11. ChecksInv(p)'
    <2>1. \A i \in DOMAIN t : Checked(p, t[i])'
      BY <1>8
    <2>2. checks'[p] = t
      BY <1>1
    <2> HIDE <1>1
    <2> QED
      BY <1>9, <1>10, <2>1, <2>2 DEF ChecksInv
  <1> QED
    BY <1>5, <1>11

\* A check of c is called; c has no verdict and has not been imported, or is
\* being imported now.
LEMMA VerdictIsCalled ==
    ASSUME TypeOK, NEW p \in Procs, ChecksInv(p), NEW c \in Files,
           import_state[p][c] = "none", ~Done(p, c)',
           checks' = [checks EXCEPT ![p] = Append(checks[p], CheckCall(c))],
           import_state' = [import_state EXCEPT ![p][c] = "unknown"],
           UNCHANGED <<src, bin>>,
           \A f \in Files : f # c => (Done(p, f)' <=> Done(p, f))
    PROVE  ChecksInv(p)'
  <1>0. PICK s, e, t, n : s = checks[p] /\ e = CheckCall(c) /\ t = Append(s, e) /\ n = Len(s) + 1
    OBVIOUS
  <1>1. s \in Seq(CheckFrame) /\ checks'[p] = t
    BY <1>0 DEF TypeOK
  <1>2. e \in CheckFrame /\ e.file = c /\ e.phase = "stat" /\ e.todo = {}
    BY <1>0 DEF CheckCall, CheckFrame, Time
  <1>3. Pushed(s, t, n, e)
    BY <1>0, <1>1, <1>2, CheckShapes
  <1>4. /\ \A i, j \in DOMAIN s : i # j => s[i].file # s[j].file
        /\ \A i \in DOMAIN s : Checked(p, s[i]) /\ s[i].file \in Files
        /\ \A f \in Files : import_state[p][f] = "unknown" => \E i \in DOMAIN s : s[i].file = f
    BY <1>0, CheckFiles DEF ChecksInv
  <1>5. /\ import_state'[p][c] = "unknown"
        /\ \A f \in Files : f # c => import_state'[p][f] = import_state[p][f]
    BY DEF TypeOK
  <1>6. ASSUME NEW i \in DOMAIN s PROVE s[i].file # c /\ Checked(p, s[i])'
    <2>1. s[i].file # c /\ ~Done(p, s[i].file)
      BY <1>4 DEF Checked
    <2>2. ~Done(p, s[i].file)'
      BY <1>4, <2>1
    <2>3. import_state'[p][s[i].file] = import_state[p][s[i].file]
      BY <1>4, <1>5, <2>1
    <2> QED
      BY <1>4, <2>1, <2>2, <2>3, CheckedKept
  <1>7. ASSUME NEW i \in DOMAIN t PROVE Checked(p, t[i])'
    <2>1. CASE i = n
      <3>1. t[i] = e
        BY <1>3, <2>1 DEF Pushed
      <3>2. Checked(p, e)'
        BY <1>2, <1>5 DEF Checked
      <3> QED
        BY <3>1, <3>2
    <2>2. CASE i # n
      <3>1. t[i] = s[i] /\ i \in DOMAIN s
        BY <1>3, <2>2 DEF Pushed
      <3> QED
        BY <1>6, <3>1
    <2> QED
      BY <2>1, <2>2
  <1>8. \A i, j \in DOMAIN t : i # j => t[i].file # t[j].file
    BY <1>2, <1>3, <1>4, <1>6 DEF Pushed
  <1>9. ASSUME NEW f \in Files, import_state'[p][f] = "unknown"
        PROVE  \E i \in DOMAIN t : t[i].file = f
    <2>1. CASE f = c
      BY <1>2, <1>3, <2>1 DEF Pushed
    <2>2. CASE f # c
      <3>1. PICK i \in DOMAIN s : s[i].file = f
        BY <1>4, <1>5, <1>9, <2>2
      <3> QED
        BY <1>3, <3>1 DEF Pushed
    <2> QED
      BY <2>1, <2>2
  <1> QED
    BY <1>1, <1>7, <1>8, <1>9, ChecksChange

\* Every step of check_import_state.
LEMMA CheckVerdict ==
    ASSUME TypeOK, NEW p \in Procs, IdleInv(p), ChecksInv(p), RunsInv(p), BadInv(p),
           NEW c \in Files, CheckStat(p) \/ CheckOpen(p) \/ CheckImport(p, c) \/ CheckDone(p)
    PROVE  IdleInv(p)' /\ ChecksInv(p)' /\ RunsInv(p)' /\ BadInv(p)'
  <1> DEFINE fr == Top(checks[p])
             Kept == IdleInv(p)' /\ ChecksInv(p)' /\ RunsInv(p)' /\ BadInv(p)'
  <1>1. Checking(p)
    BY DEF CheckStat, CheckOpen, CheckImport, CheckDone
  <1>2. /\ p \in running /\ fr \in CheckFrame /\ fr.file \in Files /\ fr.time \in Nat
        /\ fr.todo \subseteq Imports[fr.file] /\ fr.todo \subseteq Files
        /\ import_state[p][fr.file] = "unknown" /\ ~Done(p, fr.file)
        /\ fr.phase # "stat" => bin[fr.file].exists /\ bin[fr.file].time = fr.time
        /\ fr.phase = "imports" => bin[fr.file].magic
        /\ fr.file \in Reach(fr.file)
    BY <1>1, VerdictCheck, ReachClosed
  <1>3. CASE CheckStat(p)
    <2>1. CASE ~bin[fr.file].exists \/ src[fr.file].time > bin[fr.file].time
      <3>1. ~Usable(fr.file)
        BY <1>2, <2>1, FileTimes DEF Usable
      <3> QED
        BY <1>1, <1>3, <2>1, <3>1, VerdictReturns DEF CheckStat
    <2>2. CASE ~(~bin[fr.file].exists \/ src[fr.file].time > bin[fr.file].time)
      <3> DEFINE e == [fr EXCEPT !.phase = "open", !.time = bin[fr.file].time]
      <3>1. e \in CheckFrame /\ e.file = fr.file /\ e.todo = fr.todo /\ e.phase = "open" /\ e.time = bin[fr.file].time
        BY <1>2 DEF CheckFrame, TypeOK, Binary
      <3>2. /\ checks' = [checks EXCEPT ![p] = SetTop(checks[p], e)]
            /\ UNCHANGED <<import_state, fileVars, running, main, imported, loaded, imps, runs>>
        BY <1>3, <2>2 DEF CheckStat
      <3> HIDE DEF e
      <3> QED
        BY <1>1, <1>2, <2>2, <3>1, <3>2, VerdictGoesOn
    <2> QED
      BY <2>1, <2>2
  <1>4. CASE CheckOpen(p)
    <2>0. fr.phase = "open"
      BY <1>4 DEF CheckOpen
    <2>1. CASE ~bin[fr.file].magic
      <3>1. ~Usable(fr.file)
        BY <1>2, <2>1 DEF Usable
      <3> QED
        BY <1>1, <1>4, <2>1, <3>1, VerdictReturns DEF CheckOpen
    <2>2. CASE bin[fr.file].magic
      <3> DEFINE e == [fr EXCEPT !.phase = "imports", !.todo = Imports[fr.file]]
      <3>1. /\ e \in CheckFrame /\ e.file = fr.file /\ e.todo = Imports[fr.file]
            /\ e.phase = "imports" /\ e.time = fr.time
        BY <1>2, ImportsAssumption DEF CheckFrame
      <3>2. /\ checks' = [checks EXCEPT ![p] = SetTop(checks[p], e)]
            /\ UNCHANGED <<import_state, fileVars, running, main, imported, loaded, imps, runs>>
        BY <1>4, <2>2 DEF CheckOpen
      <3> HIDE DEF e
      <3> QED
        BY <1>1, <1>2, <2>0, <2>2, <3>1, <3>2, VerdictGoesOn
    <2> QED
      BY <2>1, <2>2
  <1>5. CASE CheckImport(p, c)
    <2>1. /\ c \in fr.todo /\ c \in Imports[fr.file] /\ fr.phase = "imports"
          /\ UNCHANGED <<fileVars, running, main, imported, loaded, imps, runs>>
      BY <1>2, <1>5 DEF CheckImport
    <2>2. CASE import_state[p][c] # "none" /\ ~ImportUsable(p, c, fr.time)
      <3>1. CheckReturn(p, "bad")
        BY <1>5, <2>2 DEF CheckImport
      <3>2. CASE bin[c].time > fr.time
        <4>1. ~(bin[c].time <= bin[fr.file].time)
          BY <1>2, <2>1, <3>2, FileTimes
        <4>2. ~Usable(fr.file)
          BY <1>2, <2>1, <4>1 DEF Usable
        <4> QED
          BY <1>1, <2>1, <3>1, <4>2, VerdictReturns
      <3>3. CASE ~(bin[c].time > fr.time)
        <4>1. import_state[p][c] = "bad"
          BY <2>2, <3>3 DEF ImportUsable
        <4>2. ~Done(p, c)
          <5>1. ~Replaced(p, fr.file) /\ bin[fr.file].time = fr.time
            BY <1>2, <2>1 DEF Replaced
          <5>2. ~(bin[fr.file].time < bin[c].time)
            BY <1>2, <3>3, <5>1, FileTimes
          <5> QED
            BY <1>2, <4>1, <5>1, <5>2 DEF BadInv
        <4>3. ~Usable(c) /\ c \in Reach(fr.file)
          BY <1>2, <2>1, <4>1, <4>2, ReachClosed DEF BadInv
        <4>4. ~Usable(fr.file)
          BY <1>2, <4>3, ImportNotUsable
        <4> QED
          BY <1>1, <2>1, <3>1, <4>4, VerdictReturns
      <3> QED
        BY <3>2, <3>3
    <2>3. CASE import_state[p][c] # "none" /\ ImportUsable(p, c, fr.time)
      <3> DEFINE e == [fr EXCEPT !.todo = @ \ {c}]
      <3>1. /\ e \in CheckFrame /\ e.file = fr.file /\ e.todo = fr.todo \ {c}
            /\ e.phase = "imports" /\ e.time = fr.time
        BY <1>2, <2>1 DEF CheckFrame
      <3>2. /\ checks' = [checks EXCEPT ![p] = SetTop(checks[p], e)]
            /\ UNCHANGED <<import_state, fileVars, running, main, imported, loaded, imps, runs>>
        BY <1>5, <2>1, <2>3 DEF CheckImport
      <3>3. e.todo \subseteq Imports[e.file]
        BY <1>2, <3>1
      <3> HIDE DEF e
      <3> QED
        BY <1>1, <1>2, <2>1, <3>1, <3>2, <3>3, VerdictGoesOn
    <2>4. CASE import_state[p][c] = "none"
      <3>1. /\ checks' = [checks EXCEPT ![p] = Append(checks[p], CheckCall(c))]
            /\ import_state' = [import_state EXCEPT ![p][c] = "unknown"]
            /\ UNCHANGED <<src, bin, running, imported, imps>>
        BY <1>5, <2>1, <2>4 DEF CheckImport, fileVars
      <3>2. ~Done(p, c) /\ \A f \in Files : Done(p, f)' <=> Done(p, f)
        BY <2>4, <3>1 DEF Done, RunsInv
      <3>3. ChecksInv(p)'
        BY <2>4, <3>1, <3>2, VerdictIsCalled
      <3>4. \A f \in Files : f # c => import_state'[p][f] = import_state[p][f]
        BY <3>1 DEF TypeOK
      <3>5. import_state'[p][c] = "unknown"
        BY <3>1 DEF TypeOK
      <3>6. IdleInv(p)' /\ RunsInv(p)' /\ BadInv(p)'
        BY <1>2, <2>4, <3>1, <3>4, <3>5, JudgedKept
      <3> QED
        BY <3>3, <3>6
    <2> QED
      BY <2>2, <2>3, <2>4
  <1>6. CASE CheckDone(p)
    BY <1>1, <1>6, VerdictReturns DEF CheckDone
  <1> QED
    BY <1>3, <1>4, <1>5, <1>6

(***************************************************************************)
(* The verdicts: steps of v_import_helper.                                  *)
(***************************************************************************)

\* A running import is that of a running process, and no check is open.
LEMMA VerdictImport ==
    ASSUME TypeOK, NEW p \in Procs, IdleInv(p), ChecksInv(p), RunsInv(p), ~Checking(p), imps[p] # <<>>
    PROVE  LET fr == Top(imps[p])  n == Len(imps[p]) IN
           /\ p \in running /\ checks[p] = <<>>
           /\ imps[p] \in Seq(ImportFrame)
           /\ fr \in ImportFrame /\ fr.file \in Files /\ fr.time \in Nat
           /\ n \in DOMAIN imps[p] /\ fr = imps[p][n]
           /\ Ran(p, fr)
  <1>1. p \in running /\ checks[p] = <<>> /\ imps[p] \in Seq(ImportFrame)
    BY DEF IdleInv, Checking, TypeOK
  <1>2. /\ Top(imps[p]) \in ImportFrame /\ Top(imps[p]).file \in Files /\ Top(imps[p]).time \in Nat
        /\ Len(imps[p]) \in DOMAIN imps[p] /\ Top(imps[p]) = imps[p][Len(imps[p])]
    BY <1>1, ImportStackFacts DEF ImportFrame, Time
  <1>3. Ran(p, Top(imps[p]))
    BY <1>2 DEF RunsInv
  <1> QED
    BY <1>1, <1>2, <1>3

\* When no check is open every file that was asked about has its verdict.
LEMMA AllJudged ==
    ASSUME NEW p \in Procs, ChecksInv(p), checks[p] = <<>>
    PROVE  \A f \in Files : import_state[p][f] # "unknown"
  <1>1. DOMAIN <<>> = {}
    BY EmptySeq, LenProperties
  <1> QED
    BY <1>1 DEF ChecksInv

\* The invariant of no checks at all.
LEMMA NoChecks ==
    ASSUME NEW p \in Procs, checks'[p] = <<>>, \A f \in Files : import_state'[p][f] # "unknown"
    PROVE  ChecksInv(p)'
  <1>1. DOMAIN <<>> = {}
    BY EmptySeq, LenProperties
  <1> QED
    BY <1>1, ChecksChange

\* A stack of imports that has changed.
LEMMA RunsChange ==
    ASSUME NEW p \in Procs, NEW t, imps'[p] = t,
           \A i, j \in DOMAIN t : i # j => t[i].file # t[j].file,
           \A i \in DOMAIN t : Ran(p, t[i])',
           \A i \in DOMAIN t : i # Len(t) => t[i].phase \in {"binary", "compile"},
           \A f \in imported'[p] : import_state'[p][f] # "none"
    PROVE  RunsInv(p)'
  BY DEF RunsInv

\* What an activation relies on stays so.
LEMMA RanKept ==
    ASSUME NEW p \in Procs, NEW fr, Ran(p, fr), fr.phase = "closed" => UNCHANGED bin,
           import_state'[p][fr.file] = import_state[p][fr.file],
           imported[p] \subseteq imported'[p]
    PROVE  Ran(p, fr)'
  BY DEF Ran

\* While the same files are done, what is said of the bad ones stays true.
LEMMA BadKept ==
    ASSUME NEW p \in Procs, BadInv(p), UNCHANGED <<src, bin>>, import_state'[p] = import_state[p],
           \A f \in Files : import_state[p][f] = "bad" => (Done(p, f)' <=> Done(p, f))
    PROVE  BadInv(p)'
  <1>1. \A f \in Files : Usable(f)' <=> Usable(f)
    BY DEF Usable
  <1>2. \A f \in Files : Replaced(p, f)' <=> Replaced(p, f)
    BY DEF Replaced
  <1>3. ASSUME NEW f \in Files, import_state'[p][f] = "bad", ~Done(p, f)' PROVE ~Usable(f)'
    BY <1>1, <1>3 DEF BadInv
  <1>4. ASSUME NEW f \in Files, import_state'[p][f] = "bad", Done(p, f)',
               NEW g \in Files, ~Replaced(p, g)'
        PROVE  bin'[g].time < bin'[f].time
    BY <1>2, <1>4 DEF BadInv
  <1> QED
    BY <1>3, <1>4 DEF BadInv

\* An import that goes on.
LEMMA RunsGoOn ==
    ASSUME TypeOK, NEW p \in Procs, IdleInv(p), ChecksInv(p), RunsInv(p), BadInv(p),
           ~Checking(p), imps[p] # <<>>,
           NEW e \in ImportFrame, e.file = Top(imps[p]).file,
           imps' = [imps EXCEPT ![p] = SetTop(imps[p], e)],
           UNCHANGED <<src, bin, running, checks, import_state, imported>>,
           Ran(p, e)
    PROVE  IdleInv(p)' /\ ChecksInv(p)' /\ RunsInv(p)' /\ BadInv(p)'
  <1>0. PICK s, t, n : s = imps[p] /\ t = SetTop(s, e) /\ n = Len(s)
    OBVIOUS
  <1>1. s \in Seq(ImportFrame) /\ s # <<>> /\ imps'[p] = t /\ p \in running /\ checks[p] = <<>>
    BY <1>0, VerdictImport DEF TypeOK
  <1>2. Retopped(s, t, n, e)
    BY <1>0, <1>1, ImportShapes
  <1>3. s[n].file = e.file
    BY <1>0, <1>2 DEF Retopped
  <1>4. \A i \in DOMAIN s : t[i].file = s[i].file
    BY <1>2, <1>3 DEF Retopped
  <1>5. \A f \in Files : Done(p, f)' <=> Done(p, f)
    BY <1>0, <1>1, <1>2, <1>4 DEF Done, Retopped
  <1>6. BadInv(p)'
    BY <1>5, BadKept
  <1>7. ChecksInv(p)'
    BY <1>1, AllJudged, NoChecks
  <1>8. /\ \A i, j \in DOMAIN s : i # j => s[i].file # s[j].file
        /\ \A i \in DOMAIN s : Ran(p, s[i]) /\ (i # n => s[i].phase \in {"binary", "compile"})
        /\ \A f \in imported[p] : import_state[p][f] # "none"
    BY <1>0 DEF RunsInv
  <1>9. ASSUME NEW i \in DOMAIN t PROVE Ran(p, t[i])'
    <2>1. Ran(p, t[i])
      BY <1>2, <1>8 DEF Retopped
    <2> QED
      BY <2>1, RanKept
  <1>10. /\ \A i, j \in DOMAIN t : i # j => t[i].file # t[j].file
         /\ \A i \in DOMAIN t : i # Len(t) => t[i].phase \in {"binary", "compile"}
    BY <1>2, <1>4, <1>8 DEF Retopped
  <1>11. RunsInv(p)'
    BY <1>1, <1>8, <1>9, <1>10, RunsChange
  <1> QED
    BY <1>1, <1>6, <1>7, <1>11 DEF IdleInv

\* The opening of a binary or a source and the end of a compilation.
LEMMA OpenVerdict ==
    ASSUME TypeOK, NEW p \in Procs, IdleInv(p), ChecksInv(p), RunsInv(p), BadInv(p),
           OpenBinary(p) \/ OpenSource(p) \/ CloseBinary(p)
    PROVE  IdleInv(p)' /\ ChecksInv(p)' /\ RunsInv(p)' /\ BadInv(p)'
  <1> DEFINE fr == Top(imps[p])
  <1>1. ~Checking(p) /\ imps[p] # <<>>
    BY DEF OpenBinary, OpenSource, CloseBinary, Importing
  <1>2. /\ fr \in ImportFrame /\ fr.file \in Files /\ Ran(p, fr) /\ checks[p] = <<>>
    BY <1>1, VerdictImport
  <1>3. fr.file \in imported[p] /\ import_state[p][fr.file] \in {"good", "bad"}
    BY <1>2, AllJudged DEF Ran, RunsInv, TypeOK, import_state_t
  <1>4. CASE OpenBinary(p)
    <2> DEFINE e == [fr EXCEPT !.phase = "binary", !.todo = Imports[fr.file]]
    <2>1. e \in ImportFrame /\ e.file = fr.file /\ e.phase = "binary"
      BY <1>2, ImportsAssumption DEF ImportFrame
    <2>2. /\ imps' = [imps EXCEPT ![p] = SetTop(imps[p], e)]
          /\ import_state[p][fr.file] # "bad"
          /\ UNCHANGED <<src, bin, running, checks, import_state, imported>>
      BY <1>4 DEF OpenBinary, fileVars
    <2> HIDE DEF e
    <2>3. Ran(p, e)
      BY <1>3, <2>1, <2>2 DEF Ran
    <2> QED
      BY <1>1, <2>1, <2>2, <2>3, RunsGoOn
  <1>5. CASE OpenSource(p)
    <2> DEFINE e == [fr EXCEPT !.phase = "compile", !.todo = Imports[fr.file]]
    <2>1. e \in ImportFrame /\ e.file = fr.file /\ e.phase = "compile"
      BY <1>2, ImportsAssumption DEF ImportFrame
    <2>2. /\ imps' = [imps EXCEPT ![p] = SetTop(imps[p], e)]
          /\ import_state[p][fr.file] = "bad"
          /\ UNCHANGED <<src, bin, running, checks, import_state, imported>>
      BY <1>5 DEF OpenSource, fileVars
    <2> HIDE DEF e
    <2>3. Ran(p, e)
      BY <1>3, <2>1, <2>2 DEF Ran
    <2> QED
      BY <1>1, <2>1, <2>2, <2>3, RunsGoOn
  <1>6. CASE CloseBinary(p)
    <2> DEFINE e == [fr EXCEPT !.phase = "closed", !.time = clock + 1]
    <2>1. e \in ImportFrame /\ e.file = fr.file /\ e.phase = "closed" /\ e.time = clock + 1
      <3>1. clock + 1 \in Time
        BY FileTimes DEF Time
      <3> QED
        BY <1>2, <3>1 DEF ImportFrame
    <2>2. /\ imps' = [imps EXCEPT ![p] = SetTop(imps[p], e)]
          /\ fr.phase = "compile"
          /\ UNCHANGED <<src, bin, running, checks, import_state, imported>>
      BY <1>6 DEF CloseBinary
    <2> HIDE DEF e
    <2>3. \A g \in Files : bin[g].time < e.time
      BY <2>1, FileTimes
    <2>4. Ran(p, e)
      BY <1>2, <2>1, <2>2, <2>3 DEF Ran
    <2> QED
      BY <1>1, <2>1, <2>2, <2>4, RunsGoOn
  <1> QED
    BY <1>4, <1>5, <1>6

\* The stack of a process that has asked for f is the same but for what its
\* top has still to do; its activations are all in the middle of their units.
LEMMA AskedShape ==
    ASSUME TypeOK, NEW p \in Procs, RunsInv(p), NEW f \in Files, Wants(p, f)
    PROVE  LET s == imps[p]  t == Asked(p, f) IN
           /\ s \in Seq(ImportFrame) /\ t \in Seq(ImportFrame)
           /\ DOMAIN t = DOMAIN s
           /\ \A i \in DOMAIN s : /\ t[i].file = s[i].file /\ t[i].phase = s[i].phase
                                  /\ t[i].time = s[i].time
                                  /\ t[i].phase \in {"binary", "compile"}
                                  /\ t[i].todo = s[i].todo \/ (i = Len(s) /\ t[i].todo = s[i].todo \ {f})
           /\ \A i, j \in DOMAIN s : i # j => t[i].file # t[j].file
           /\ \A i \in DOMAIN s : Ran(p, s[i]) => Ran(p, t[i])
  <1>0. imps[p] \in Seq(ImportFrame)
    BY DEF TypeOK
  <1>1. CASE imps[p] = <<>>
    <2>1. Asked(p, f) = <<>>
      BY <1>1 DEF Asked
    <2>2. DOMAIN <<>> = {}
      BY EmptySeq, LenProperties
    <2> QED
      BY <1>0, <1>1, <2>1, <2>2
  <1>2. CASE imps[p] # <<>>
    <2> DEFINE fr == Top(imps[p])  e == [fr EXCEPT !.todo = @ \ {f}]
    <2>0. PICK s, t, n : s = imps[p] /\ t = SetTop(s, e) /\ n = Len(s)
      OBVIOUS
    <2>1. fr \in ImportFrame /\ f \in fr.todo /\ fr.phase \in {"binary", "compile"}
      BY <1>0, <1>2, ImportStackFacts DEF Wants
    <2>2. /\ e \in ImportFrame /\ e.file = fr.file /\ e.phase = fr.phase /\ e.time = fr.time
          /\ e.todo = fr.todo \ {f}
      BY <2>1 DEF ImportFrame
    <2>3. Retopped(s, t, n, e) /\ t \in Seq(ImportFrame)
      BY <1>0, <1>2, <2>0, <2>2, ImportShapes, ImportStackFacts
    <2>4. Asked(p, f) = t
      BY <1>2, <2>0 DEF Asked
    <2>5. fr = s[n]
      BY <2>0, <2>3 DEF Retopped
    <2> HIDE DEF e, fr
    <2>6. /\ \A i, j \in DOMAIN s : i # j => s[i].file # s[j].file
          /\ \A i \in DOMAIN s : i # n => s[i].phase \in {"binary", "compile"}
      BY <2>0 DEF RunsInv
    <2>7. ASSUME NEW i \in DOMAIN s
          PROVE  /\ t[i].file = s[i].file /\ t[i].phase = s[i].phase
                 /\ t[i].time = s[i].time
                 /\ t[i].phase \in {"binary", "compile"}
                 /\ t[i].todo = s[i].todo \/ (i = n /\ t[i].todo = s[i].todo \ {f})
      BY <2>1, <2>2, <2>3, <2>5, <2>6 DEF Retopped
    <2>8. \A i \in DOMAIN s : Ran(p, s[i]) => Ran(p, t[i])
      BY <2>7 DEF Ran
    <2>9. \A i, j \in DOMAIN s : i # j => t[i].file # t[j].file
      BY <2>6, <2>7
    <2>10. DOMAIN t = DOMAIN s
      BY <2>3 DEF Retopped
    <2> QED
      BY <1>0, <2>0, <2>3, <2>4, <2>7, <2>8, <2>9, <2>10
  <1> QED
    BY <1>1, <1>2

\* What the running units ask for again.
LEMMA AgainVerdict ==
    ASSUME TypeOK, NEW p \in Procs, IdleInv(p), ChecksInv(p), RunsInv(p), BadInv(p),
           NEW f \in Files, ImportAgain(p, f)
    PROVE  IdleInv(p)' /\ ChecksInv(p)' /\ RunsInv(p)' /\ BadInv(p)'
  <1>0. PICK s, t : s = imps[p] /\ t = Asked(p, f)
    OBVIOUS
  <1>1. /\ Wants(p, f) /\ p \in running /\ checks[p] = <<>> /\ imps'[p] = t
        /\ UNCHANGED <<src, bin, running, checks, import_state, imported>>
    BY <1>0 DEF ImportAgain, Wants, Checking, fileVars, TypeOK
  <1>2. /\ DOMAIN t = DOMAIN s
        /\ \A i \in DOMAIN s : t[i].file = s[i].file /\ t[i].phase \in {"binary", "compile"}
        /\ \A i, j \in DOMAIN s : i # j => t[i].file # t[j].file
        /\ \A i \in DOMAIN s : Ran(p, s[i]) => Ran(p, t[i])
    BY <1>0, <1>1, AskedShape
  <1>3. BadInv(p)'
    <2>1. \A g \in Files : Done(p, g)' <=> Done(p, g)
      BY <1>0, <1>1, <1>2 DEF Done
    <2> QED
      BY <1>1, <2>1, BadKept
  <1>4. ChecksInv(p)'
    BY <1>1, AllJudged, NoChecks
  <1>5. ASSUME NEW i \in DOMAIN t PROVE Ran(p, t[i])'
    <2>1. Ran(p, t[i])
      BY <1>0, <1>2 DEF RunsInv
    <2> QED
      BY <1>1, <2>1, RanKept
  <1>6. RunsInv(p)'
    <2>1. \A g \in imported'[p] : import_state'[p][g] # "none"
      BY <1>1 DEF RunsInv
    <2> QED
      BY <1>1, <1>2, <1>5, <2>1, RunsChange
  <1> QED
    BY <1>1, <1>3, <1>4, <1>6 DEF IdleInv

\* The first import of f: it is not done before it, nor right after it.
LEMMA FirstShape ==
    ASSUME TypeOK, NEW p \in Procs, RunsInv(p), NEW f \in Files, ImportFirst(p, f)
    PROVE  LET s == imps[p]  a == Asked(p, f)  t == imps'[p] IN
           /\ Wants(p, f) /\ p \in running /\ checks[p] = <<>> /\ f \notin imported[p]
           /\ imported'[p] = imported[p] \cup {f}
           /\ UNCHANGED <<src, bin, running, loaded>>
           /\ a \in Seq(ImportFrame) /\ DOMAIN a = DOMAIN s
           /\ \E e \in ImportFrame : /\ e.file = f /\ e.phase = "check" /\ e.todo = {}
                                     /\ t = Append(a, e) /\ Pushed(a, t, Len(a) + 1, e)
           /\ \A g \in Files : Done(p, g)' <=> Done(p, g)
  <1>0. PICK s, a, e, t, n :
           /\ s = imps[p] /\ a = Asked(p, f) /\ n = Len(a) + 1
           /\ e = [file |-> f, phase |-> "check", time |-> 0, todo |-> {}]
           /\ t = Append(a, e)
    OBVIOUS
  <1>1. /\ Wants(p, f) /\ p \in running /\ checks[p] = <<>> /\ f \notin imported[p] /\ imps'[p] = t
        /\ imported'[p] = imported[p] \cup {f}
        /\ UNCHANGED <<src, bin, running, loaded>>
    BY <1>0 DEF ImportFirst, Wants, Checking, fileVars, TypeOK
  <1>2. /\ a \in Seq(ImportFrame) /\ DOMAIN a = DOMAIN s
        /\ \A i \in DOMAIN s : a[i].file = s[i].file
    BY <1>0, <1>1, AskedShape
  <1>3. e \in ImportFrame /\ e.file = f /\ e.phase = "check" /\ e.todo = {}
    BY <1>0 DEF ImportFrame, Time
  <1>4. Pushed(a, t, n, e)
    BY <1>0, <1>2, <1>3, ImportShapes
  <1>5. ASSUME NEW g \in Files PROVE Done(p, g)' <=> Done(p, g)
    <2>1. CASE g = f
      <3>1. ~Done(p, f)
        BY <1>1 DEF Done
      <3>2. ~Done(p, f)'
        BY <1>1, <1>3, <1>4 DEF Done, Pushed
      <3> QED
        BY <2>1, <3>1, <3>2
    <2>2. CASE g # f
      <3>1. (g \in imported'[p]) <=> (g \in imported[p])
        BY <1>1, <2>2
      <3>2. (\A i \in DOMAIN t : t[i].file # g) <=> (\A i \in DOMAIN s : s[i].file # g)
        BY <1>2, <1>3, <1>4, <2>2 DEF Pushed
      <3> QED
        BY <1>0, <1>1, <3>1, <3>2 DEF Done
    <2> QED
      BY <2>1, <2>2
  <1> QED
    BY <1>0, <1>1, <1>2, <1>3, <1>4, <1>5

\* A file that is imported for the first time is checked unless it was before.
LEMMA FirstVerdict ==
    ASSUME TypeOK, NEW p \in Procs, IdleInv(p), ChecksInv(p), RunsInv(p), BadInv(p),
           NEW f \in Files, ImportFirst(p, f)
    PROVE  IdleInv(p)' /\ ChecksInv(p)' /\ RunsInv(p)' /\ BadInv(p)'
  <1>0. PICK s, a, t, n : s = imps[p] /\ a = Asked(p, f) /\ t = imps'[p] /\ n = Len(a) + 1
    OBVIOUS
  <1>1. /\ Wants(p, f) /\ p \in running /\ checks[p] = <<>> /\ f \notin imported[p] /\ imps'[p] = t
        /\ imported'[p] = imported[p] \cup {f}
        /\ UNCHANGED <<src, bin, running>>
    BY <1>0, FirstShape
  <1>2. /\ a \in Seq(ImportFrame) /\ DOMAIN a = DOMAIN s
        /\ \A i \in DOMAIN s : a[i].file = s[i].file /\ a[i].phase \in {"binary", "compile"}
        /\ \A i, j \in DOMAIN s : i # j => a[i].file # a[j].file
        /\ \A i \in DOMAIN s : Ran(p, s[i]) => Ran(p, a[i])
    BY <1>0, <1>1, AskedShape
  <1>3. PICK e \in ImportFrame : e.file = f /\ e.phase = "check" /\ Pushed(a, t, n, e)
    BY <1>0, FirstShape
  <1>4. Pushed(a, t, n, e)
    BY <1>3
  <1>5. /\ \A i \in DOMAIN s : Ran(p, s[i]) /\ s[i].file \in Files
        /\ \A i \in DOMAIN s : s[i].file \in imported[p]
        /\ \A g \in imported[p] : import_state[p][g] # "none"
    BY <1>0, ImportFiles DEF RunsInv, Ran
  <1>6. ASSUME NEW g \in Files PROVE Done(p, g)' <=> Done(p, g)
    BY FirstShape
  <1>7. /\ import_state'[p][f] # "none"
        /\ \A g \in Files : g # f => import_state'[p][g] = import_state[p][g]
        /\ import_state[p][f] # "none" => import_state'[p][f] = import_state[p][f]
        /\ \A g \in Files : import_state'[p][g] = "bad" <=> import_state[p][g] = "bad"
    <2>1. CASE import_state[p][f] = "none"
      <3>1. import_state' = [import_state EXCEPT ![p][f] = "unknown"]
        BY <2>1 DEF ImportFirst
      <3> QED
        BY <2>1, <3>1 DEF TypeOK
    <2>2. CASE import_state[p][f] # "none"
      BY <2>2 DEF ImportFirst
    <2> QED
      BY <2>1, <2>2
  <1>8. ChecksInv(p)'
    <2>1. CASE import_state[p][f] = "none"
      <3>1. /\ checks' = [checks EXCEPT ![p] = <<CheckCall(f)>>]
            /\ import_state' = [import_state EXCEPT ![p][f] = "unknown"]
        BY <2>1 DEF ImportFirst
      <3>2. <<CheckCall(f)>> = Append(checks[p], CheckCall(f))
        BY <1>1
      <3>3. ~Done(p, f)'
        BY <1>1, <1>6 DEF Done
      <3> QED
        BY <1>1, <1>6, <2>1, <3>1, <3>2, <3>3, VerdictIsCalled
    <2>2. CASE import_state[p][f] # "none"
      <3>1. UNCHANGED <<checks, import_state>>
        BY <2>2 DEF ImportFirst
      <3> QED
        BY <1>1, <3>1, AllJudged, NoChecks
    <2> QED
      BY <2>1, <2>2
  <1>9. BadInv(p)'
    <2>1. \A g \in Files : Usable(g)' <=> Usable(g)
      BY <1>1 DEF Usable
    <2>2. \A g \in Files : Replaced(p, g)' <=> Replaced(p, g)
      BY <1>6, <1>7 DEF Replaced
    <2>3. ASSUME NEW g \in Files, import_state'[p][g] = "bad", ~Done(p, g)' PROVE ~Usable(g)'
      BY <1>6, <1>7, <2>1, <2>3 DEF BadInv
    <2>4. ASSUME NEW g \in Files, import_state'[p][g] = "bad", Done(p, g)',
                 NEW h \in Files, ~Replaced(p, h)'
          PROVE  bin'[h].time < bin'[g].time
      <3>1. import_state[p][g] = "bad" /\ Done(p, g) /\ ~Replaced(p, h)
        BY <1>6, <1>7, <2>2, <2>4
      <3> QED
        BY <1>1, <3>1 DEF BadInv
    <2> QED
      BY <2>3, <2>4 DEF BadInv
  <1>10. RunsInv(p)'
    <2>1. ASSUME NEW i \in DOMAIN s PROVE a[i].file # f /\ Ran(p, a[i])'
      <3>1. a[i].file = s[i].file /\ s[i].file # f /\ Ran(p, a[i]) /\ s[i].file \in Files
        BY <1>1, <1>2, <1>5
      <3>2. import_state'[p][a[i].file] = import_state[p][a[i].file]
        BY <1>7, <3>1
      <3> QED
        BY <1>1, <3>1, <3>2, RanKept
    <2>2. Ran(p, e)'
      BY <1>1, <1>3 DEF Ran
    <2>3. ASSUME NEW i \in DOMAIN t PROVE Ran(p, t[i])'
      <3>1. i = n \/ (i \in DOMAIN s /\ t[i] = a[i])
        BY <1>2, <1>4 DEF Pushed
      <3>2. CASE i = n
        BY <1>4, <2>2, <3>2 DEF Pushed
      <3>3. CASE i \in DOMAIN s /\ t[i] = a[i]
        BY <2>1, <3>3
      <3> QED
        BY <3>1, <3>2, <3>3
    <2>4. \A i \in DOMAIN s : a[i].file # f
      BY <2>1
    <2>5. \A i, j \in DOMAIN t : i # j => t[i].file # t[j].file
      BY <1>2, <1>3, <1>4, <2>4 DEF Pushed
    <2>6. \A i \in DOMAIN t : i # Len(t) => t[i].phase \in {"binary", "compile"}
      BY <1>2, <1>4 DEF Pushed
    <2>7. imported[p] \subseteq Files
      BY DEF TypeOK
    <2>8. \A g \in imported'[p] : import_state'[p][g] # "none"
      BY <1>1, <1>5, <1>7, <2>7
    <2> QED
      BY <1>1, <2>3, <2>5, <2>6, <2>8, RunsChange
  <1> QED
    BY <1>1, <1>8, <1>9, <1>10 DEF IdleInv

\* An import that returns: its file is done now, and no other one.
LEMMA ReturnShape ==
    ASSUME TypeOK, NEW p \in Procs, IdleInv(p), ChecksInv(p), RunsInv(p), Rename(p) \/ BinaryDone(p)
    PROVE  LET fr == Top(imps[p]) IN
           /\ ~Checking(p) /\ imps[p] # <<>> /\ p \in running /\ checks[p] = <<>>
           /\ UNCHANGED <<src, running, checks, import_state, imported>>
           /\ Popped(imps[p], imps'[p], Len(imps[p]))
           /\ fr \in ImportFrame /\ fr.file \in Files /\ fr.time \in Nat
           /\ \A i \in DOMAIN imps'[p] : imps'[p][i].file # fr.file
           /\ \A f \in Files : Done(p, f)' <=> (Done(p, f) \/ f = fr.file)
           /\ ~Done(p, fr.file)
           /\ RunsInv(p)'
  <1>0. PICK s, t, n, fr : s = imps[p] /\ t = Pop(s) /\ n = Len(s) /\ fr = Top(s)
    OBVIOUS
  <1>1. /\ ~Checking(p) /\ s # <<>>
        /\ UNCHANGED <<src, running, checks, import_state, imported>>
        /\ imps' = [imps EXCEPT ![p] = Pop(imps[p])]
    BY <1>0 DEF Rename, BinaryDone, Importing, ImportReturn, fileVars
  <1>2. /\ p \in running /\ checks[p] = <<>> /\ s \in Seq(ImportFrame)
        /\ fr \in ImportFrame /\ fr.file \in Files /\ fr.time \in Nat /\ fr.file \in imported[p]
    BY <1>0, <1>1, VerdictImport DEF Ran
  <1>3. Popped(s, t, n) /\ imps'[p] = t
    BY <1>0, <1>1, <1>2, ImportShapes DEF TypeOK
  <1>4. /\ \A i, j \in DOMAIN s : i # j => s[i].file # s[j].file
        /\ \A i \in DOMAIN s : Ran(p, s[i]) /\ (i # n => s[i].phase \in {"binary", "compile"})
        /\ \A g \in imported[p] : import_state[p][g] # "none"
    BY <1>0 DEF RunsInv
  <1>5. fr = s[n] /\ n \in DOMAIN s
    BY <1>0, <1>3 DEF Popped
  <1>6. \A i \in DOMAIN t : t[i].file # fr.file
    BY <1>3, <1>4, <1>5 DEF Popped
  <1>7. ASSUME NEW f \in Files PROVE Done(p, f)' <=> (Done(p, f) \/ f = fr.file)
    <2>1. CASE f = fr.file
      BY <1>1, <1>2, <1>3, <1>6, <2>1 DEF Done
    <2>2. CASE f # fr.file
      <3>1. (\A i \in DOMAIN t : t[i].file # f) <=> (\A i \in DOMAIN s : s[i].file # f)
        BY <1>3, <1>5, <2>2 DEF Popped
      <3> QED
        BY <1>0, <1>1, <1>3, <2>2, <3>1 DEF Done
    <2> QED
      BY <2>1, <2>2
  <1>8. ~Done(p, fr.file)
    BY <1>0, <1>5 DEF Done
  <1>9. ASSUME NEW i \in DOMAIN t PROVE Ran(p, t[i])' /\ t[i].phase \in {"binary", "compile"}
    <2>1. Ran(p, t[i]) /\ t[i].phase \in {"binary", "compile"}
      BY <1>3, <1>4 DEF Popped
    <2>2. import_state'[p][t[i].file] = import_state[p][t[i].file] /\ imported[p] \subseteq imported'[p]
      BY <1>1
    <2> QED
      BY <2>1, <2>2, RanKept
  <1>10. \A i, j \in DOMAIN t : i # j => t[i].file # t[j].file
    BY <1>3, <1>4 DEF Popped
  <1>11. RunsInv(p)'
    <2>1. \A g \in imported'[p] : import_state'[p][g] # "none"
      BY <1>1, <1>4
    <2> QED
      BY <1>3, <1>9, <1>10, <2>1, RunsChange
  <1> QED
    BY <1>0, <1>1, <1>2, <1>3, <1>6, <1>7, <1>8, <1>11

\* A new binary is newer than all others: what reaches it without having been
\* replaced itself is not usable, for something in between is older.
LEMMA RenameBad ==
    ASSUME TypeOK, NEW p \in Procs, IdleInv(p), ChecksInv(p), RunsInv(p), BadInv(p), Rename(p)
    PROVE  BadInv(p)'
  <1>0. PICK fr, f0, b :
           /\ fr = Top(imps[p]) /\ f0 = fr.file
           /\ b = [exists |-> TRUE, magic |-> TRUE, time |-> fr.time, prov |-> loaded[p][f0]]
    OBVIOUS
  <1>1. /\ ~Checking(p) /\ imps[p] # <<>> /\ f0 \in Files /\ fr.time \in Nat
        /\ UNCHANGED <<src, import_state>>
        /\ \A f \in Files : Done(p, f)' <=> (Done(p, f) \/ f = f0)
        /\ ~Done(p, f0)
    BY <1>0, ReturnShape
  <1>2. fr.phase = "closed" /\ bin' = [bin EXCEPT ![f0] = b]
    BY <1>0 DEF Rename
  <1>3. import_state[p][f0] = "bad" /\ \A g \in Files : bin[g].time < fr.time
    BY <1>0, <1>1, <1>2, VerdictImport DEF Ran
  <1>4. bin'[f0].time = fr.time /\ \A f \in Files : f # f0 => bin'[f] = bin[f]
    BY <1>0, <1>1, <1>2 DEF TypeOK
  <1>5. /\ Replaced(p, f0)'
        /\ \A f \in Files : f # f0 => (Replaced(p, f)' <=> Replaced(p, f))
    BY <1>1, <1>3 DEF Replaced
  <1>6. ASSUME NEW f \in Files, import_state'[p][f] = "bad", ~Done(p, f)' PROVE ~Usable(f)'
    <2>1. f # f0 /\ ~Usable(f)
      BY <1>1, <1>6 DEF BadInv
    <2>2. CASE f0 \in Reach(f)
      <3>1. PICK h \in Reach(f) : h # f0 /\ f0 \in Imports[h]
        BY <2>1, <2>2, Importer
      <3>2. h \in Files
        BY ReachClosed
      <3>3. ~(bin'[f0].time <= bin'[h].time)
        <4>1. bin'[f0].time = fr.time /\ bin'[h].time = bin[h].time /\ bin[h].time < fr.time
          BY <1>3, <1>4, <3>1, <3>2
        <4>2. bin[h].time \in Nat
          BY <3>2, FileTimes
        <4> QED
          BY <1>1, <4>1, <4>2
      <3> QED
        BY <3>1, <3>3 DEF Usable
    <2>3. CASE f0 \notin Reach(f)
      <3>1. \A g \in Reach(f) : bin'[g] = bin[g]
        BY <1>4, <2>3, ReachClosed
      <3> QED
        BY <1>1, <2>1, <3>1, UsableKept
    <2> QED
      BY <2>2, <2>3
  <1>7. ASSUME NEW f \in Files, import_state'[p][f] = "bad", Done(p, f)',
               NEW g \in Files, ~Replaced(p, g)'
        PROVE  bin'[g].time < bin'[f].time
    <2>1. g # f0 /\ ~Replaced(p, g) /\ bin'[g] = bin[g]
      BY <1>4, <1>5, <1>7
    <2>2. CASE f = f0
      BY <1>3, <1>4, <2>1, <2>2
    <2>3. CASE f # f0
      <3>1. import_state[p][f] = "bad" /\ Done(p, f) /\ bin'[f] = bin[f]
        BY <1>1, <1>4, <1>7, <2>3
      <3> QED
        BY <2>1, <3>1 DEF BadInv
    <2> QED
      BY <2>2, <2>3
  <1> QED
    BY <1>6, <1>7 DEF BadInv

\* The return of an import, with a new binary or without one.
LEMMA ReturnVerdict ==
    ASSUME TypeOK, NEW p \in Procs, IdleInv(p), ChecksInv(p), RunsInv(p), BadInv(p),
           Rename(p) \/ BinaryDone(p)
    PROVE  IdleInv(p)' /\ ChecksInv(p)' /\ RunsInv(p)' /\ BadInv(p)'
  <1> DEFINE fr == Top(imps[p])
  <1>1. /\ ~Checking(p) /\ imps[p] # <<>> /\ p \in running /\ checks[p] = <<>>
        /\ UNCHANGED <<src, running, checks, import_state, imported>>
        /\ \A f \in Files : Done(p, f)' <=> (Done(p, f) \/ f = fr.file)
        /\ RunsInv(p)'
    BY ReturnShape
  <1>2. ChecksInv(p)'
    BY <1>1, AllJudged, NoChecks
  <1>3. BadInv(p)'
    <2>1. CASE Rename(p)
      BY <2>1, RenameBad
    <2>2. CASE BinaryDone(p)
      <3>1. fr.phase = "binary" /\ bin' = bin
        BY <2>2 DEF BinaryDone, fileVars
      <3>2. import_state[p][fr.file] = "good"
        BY <1>1, <3>1, VerdictImport DEF Ran
      <3>3. \A f \in Files : import_state[p][f] = "bad" => (Done(p, f)' <=> Done(p, f))
        BY <1>1, <3>2
      <3> QED
        BY <1>1, <3>1, <3>3, BadKept
    <2> QED
      BY <2>1, <2>2
  <1> QED
    BY <1>1, <1>2, <1>3 DEF IdleInv

(***************************************************************************)
(* The verdicts: processes and files.                                       *)
(***************************************************************************)

\* A process with empty maps has judged nothing.
LEMMA IdleVerdictNext ==
    ASSUME NEW p \in Procs, checks'[p] = <<>>, imps'[p] = <<>>, imported'[p] = {},
           \A f \in Files : import_state'[p][f] = "none"
    PROVE  IdleInv(p)' /\ ChecksInv(p)' /\ RunsInv(p)' /\ BadInv(p)'
  <1>1. DOMAIN <<>> = {}
    BY EmptySeq, LenProperties
  <1> QED
    BY <1>1 DEF IdleInv, ChecksInv, RunsInv, BadInv

\* A process that starts or ends.
LEMMA LifeVerdict ==
    ASSUME NEW p \in Procs, IdleInv(p), Start(p) \/ Finish(p) \/ NotFound(p) \/ Kill(p)
    PROVE  IdleInv(p)' /\ ChecksInv(p)' /\ RunsInv(p)' /\ BadInv(p)'
  <1>1. CASE Start(p)
    BY <1>1, IdleVerdictNext DEF Start, IdleInv
  <1>2. CASE Finish(p) \/ NotFound(p) \/ Kill(p)
    BY <1>2, IdleVerdictNext DEF Finish, NotFound, Kill, Exit
  <1> QED
    BY <1>1, <1>2

\* The write time of a source only grows, its version too.
LEMMA SourceGrows ==
    ASSUME TypeOK, NEW f \in Files, Edit(f) \/ Remove(f)
    PROVE  /\ UNCHANGED <<bin, procVars, runs>>
           /\ \A g \in Files : \/ src'[g].ver = src[g].ver /\ src'[g].time = src[g].time
                               \/ src'[g].ver = src[g].ver + 1 /\ src'[g].time = clock + 1
  <1>1. src \in [Files -> Source]
    BY DEF TypeOK
  <1>2. CASE Edit(f)
    <2>1. /\ src' = [src EXCEPT ![f] = [ver |-> src[f].ver + 1, time |-> clock + 1, exists |-> TRUE]]
          /\ UNCHANGED <<bin, procVars, runs>>
      BY <1>2 DEF Edit
    <2>2. \A g \in Files : g # f => src'[g] = src[g]
      BY <1>1, <2>1
    <2>3. src'[f].ver = src[f].ver + 1 /\ src'[f].time = clock + 1
      BY <1>1, <2>1
    <2> QED
      BY <2>1, <2>2, <2>3
  <1>3. CASE Remove(f)
    <2>1. src' = [src EXCEPT ![f].exists = FALSE] /\ UNCHANGED <<bin, procVars, runs>>
      BY <1>3 DEF Remove
    <2>2. \A g \in Files : src'[g].ver = src[g].ver /\ src'[g].time = src[g].time
      BY <1>1, <2>1 DEF Source
    <2> QED
      BY <2>1, <2>2
  <1> QED
    BY <1>2, <1>3

\* A source that changes makes nothing usable that was not.
LEMMA EditVerdict ==
    ASSUME TypeOK, NEW p \in Procs, IdleInv(p), ChecksInv(p), RunsInv(p), BadInv(p),
           NEW f \in Files, Edit(f) \/ Remove(f)
    PROVE  IdleInv(p)' /\ ChecksInv(p)' /\ RunsInv(p)' /\ BadInv(p)'
  <1>1. UNCHANGED <<bin, running, import_state, imported, checks, imps>>
    BY SourceGrows DEF procVars
  <1>2. ASSUME NEW g \in Files, Usable(g)' PROVE Usable(g)
    <2>1. ASSUME NEW h \in Reach(g) PROVE src[h].time <= bin[h].time
      <3>1. h \in Files /\ src'[h].time <= bin[h].time
        BY <1>1, <1>2, ReachClosed DEF Usable
      <3>2. src'[h].time = src[h].time \/ src'[h].time = clock + 1
        BY <3>1, SourceGrows
      <3>3. ~(clock + 1 <= bin[h].time)
        BY <3>1, FileTimes
      <3> QED
        BY <3>1, <3>2, <3>3
    <2> QED
      BY <1>1, <1>2, <2>1 DEF Usable
  <1>3. \A g \in Files : (Done(p, g)' <=> Done(p, g)) /\ (Replaced(p, g)' <=> Replaced(p, g))
    BY <1>1 DEF Done, Replaced
  <1>4. BadInv(p)'
    BY <1>1, <1>2, <1>3 DEF BadInv
  <1>5. IdleInv(p)' /\ RunsInv(p)'
    BY <1>1 DEF IdleInv, RunsInv, Ran
  <1>6. ChecksInv(p)'
    <2>1. ASSUME NEW i \in DOMAIN checks[p] PROVE Checked(p, checks[p][i])'
      <3>1. Checked(p, checks[p][i]) /\ checks[p][i].file \in Files
        BY CheckFiles DEF ChecksInv
      <3> QED
        BY <1>1, <1>3, <3>1 DEF Checked
    <2> QED
      BY <1>1, <2>1 DEF ChecksInv
  <1> QED
    BY <1>4, <1>5, <1>6

(***************************************************************************)
(* The invariant of the verdicts, and the first theorem.                    *)
(***************************************************************************)

\* Before the first compiler runs nothing has been judged.
LEMMA InitVerdict == Init => VerdictInv
  <1> SUFFICES ASSUME Init PROVE VerdictInv
    OBVIOUS
  <1>1. DOMAIN <<>> = {}
    BY EmptySeq, LenProperties
  <1>2. ASSUME NEW p \in Procs PROVE IdleInv(p) /\ ChecksInv(p) /\ RunsInv(p) /\ BadInv(p)
    BY <1>1 DEF Init, IdleInv, ChecksInv, RunsInv, BadInv
  <1> QED
    BY <1>2, InitTypes DEF VerdictInv

\* Every step of the one compiler keeps the invariant.
LEMMA StepVerdict ==
    ASSUME TypeOK, NEW p \in Procs, IdleInv(p), ChecksInv(p), RunsInv(p), BadInv(p), Step(p)
    PROVE  IdleInv(p)' /\ ChecksInv(p)' /\ RunsInv(p)' /\ BadInv(p)'
  <1>1. ASSUME NEW f \in Files, CheckImport(p, f) \/ ImportAgain(p, f) \/ ImportFirst(p, f)
        PROVE  IdleInv(p)' /\ ChecksInv(p)' /\ RunsInv(p)' /\ BadInv(p)'
    BY <1>1, CheckVerdict, AgainVerdict, FirstVerdict
  <1>2. CASE CheckStat(p) \/ CheckOpen(p) \/ CheckDone(p)
    <2>1. Top(checks[p]).file \in Files
      BY <1>2, VerdictCheck DEF CheckStat, CheckOpen, CheckDone
    <2> QED
      BY <1>2, <2>1, CheckVerdict
  <1>3. CASE OpenBinary(p) \/ OpenSource(p) \/ CloseBinary(p) \/ Rename(p) \/ BinaryDone(p)
    BY <1>3, OpenVerdict, ReturnVerdict
  <1>4. CASE Finish(p) \/ NotFound(p)
    BY <1>4, LifeVerdict
  <1> QED
    BY <1>1, <1>2, <1>3, <1>4 DEF Step

\* So does every step of the system.
LEMMA NextVerdict == Alone /\ VerdictInv /\ [Next]_vars => VerdictInv'
  <1> SUFFICES ASSUME Alone, VerdictInv, [Next]_vars PROVE VerdictInv'
    OBVIOUS
  <1>1. TypeOK /\ TypeOK'
    BY NextTypes DEF VerdictInv
  <1>2. ASSUME NEW p \in Procs PROVE IdleInv(p)' /\ ChecksInv(p)' /\ RunsInv(p)' /\ BadInv(p)'
    <2>0. IdleInv(p) /\ ChecksInv(p) /\ RunsInv(p) /\ BadInv(p)
      BY DEF VerdictInv
    <2>1. CASE Step(p)
      BY <1>1, <2>0, <2>1, StepVerdict
    <2>2. CASE Start(p) \/ Kill(p)
      BY <2>0, <2>2, LifeVerdict
    <2>3. ASSUME NEW f \in Files, Edit(f) \/ Remove(f)
          PROVE  IdleInv(p)' /\ ChecksInv(p)' /\ RunsInv(p)' /\ BadInv(p)'
      BY <1>1, <2>0, <2>3, EditVerdict
    <2>4. CASE PowerLoss
      BY <2>4, IdleVerdictNext DEF PowerLoss, Exit
    <2>5. CASE UNCHANGED vars
      BY <2>0, <2>5 DEF vars, fileVars, procVars, IdleInv, ChecksInv, Checked, RunsInv, Ran, BadInv,
                        Done, Replaced, Usable
    <2>6. \A q \in Procs : q = p
      BY DEF Alone
    <2> QED
      BY <2>1, <2>2, <2>3, <2>4, <2>5, <2>6 DEF Next
  <1> QED
    BY <1>1, <1>2 DEF VerdictInv

\* Whatever the files import from each other, circles included, and whenever
\* their sources change: the one compiler of a tree opens a source to compile
\* it only when the binary is not usable.
THEOREM NoneNeedless == Alone => (Spec => NoNeedlessCompile)
  <1> SUFFICES ASSUME Alone PROVE Spec => NoNeedlessCompile
    OBVIOUS
  <1>1. VerdictInv => \A p \in Procs : OpenSource(p) => ~Usable(Top(imps[p]).file)
    <2> SUFFICES ASSUME VerdictInv, NEW p \in Procs, OpenSource(p) PROVE ~Usable(Top(imps[p]).file)
      OBVIOUS
    <2>1. /\ ~Checking(p) /\ imps[p] # <<>> /\ import_state[p][Top(imps[p]).file] = "bad"
      BY DEF OpenSource, Importing
    <2>2. /\ Top(imps[p]).file \in Files /\ Len(imps[p]) \in DOMAIN imps[p]
          /\ Top(imps[p]) = imps[p][Len(imps[p])]
      BY <2>1, VerdictImport DEF VerdictInv
    <2>3. ~Done(p, Top(imps[p]).file)
      BY <2>2 DEF Done
    <2> QED
      BY <2>1, <2>2, <2>3 DEF VerdictInv, BadInv
  <1> QED
    BY <1>1, InitVerdict, NextVerdict, PTL DEF Spec, NoNeedlessCompile

(***************************************************************************)
(* What is settled: the verdicts that say good.                             *)
(***************************************************************************)

\* A stack of checks that has changed.
LEMMA GoodChange ==
    ASSUME NEW p \in Procs, NEW t, checks'[p] = t, Ordered(t),
           \A i \in DOMAIN t : Handled(p, t[i])',
           \A f \in Files : import_state'[p][f] = "good" => Sound(p, f)'
    PROVE  GoodInv(p)'
  BY DEF GoodInv, Ordered

\* What is good stays so while its binary and its verdict do.
LEMMA SoundKept ==
    ASSUME NEW p \in Procs, NEW f \in Files, Sound(p, f), bin'[f] = bin[f],
           \A g \in Files : import_state[p][g] = "good"
                               => import_state'[p][g] = "good" /\ bin'[g] = bin[g]
    PROVE  Sound(p, f)'
  <1>1. Imports[f] \subseteq Files
    BY ImportsAssumption
  <1> QED
    BY <1>1 DEF Sound

LEMMA HandledKept ==
    ASSUME NEW p \in Procs, NEW fr, fr.file \in Files, Handled(p, fr),
           \A g \in Files : import_state[p][g] = "good"
                               => import_state'[p][g] = "good" /\ bin'[g] = bin[g]
    PROVE  Handled(p, fr)'
  <1>1. Imports[fr.file] \subseteq Files
    BY ImportsAssumption
  <1> QED
    BY <1>1 DEF Handled

\* No new verdict, and no good binary is replaced.
LEMMA GoodKept ==
    ASSUME TypeOK, NEW p \in Procs, GoodInv(p), UNCHANGED <<checks, import_state>>,
           \A g \in Files : import_state[p][g] = "good" => bin'[g] = bin[g]
    PROVE  GoodInv(p)'
  <1>1. PICK s : s = checks[p]
    OBVIOUS
  <1>2. \A i \in DOMAIN s : Handled(p, s[i]) /\ s[i].file \in Files
    BY <1>1, CheckFiles DEF GoodInv
  <1>3. \A i \in DOMAIN s : Handled(p, s[i])'
    BY <1>2, HandledKept
  <1>4. \A f \in Files : import_state'[p][f] = "good" => Sound(p, f)'
    BY SoundKept DEF GoodInv
  <1> QED
    BY <1>1, <1>3, <1>4, GoodChange DEF GoodInv

\* A check returns: good only with all that is below it.
LEMMA GoodReturns ==
    ASSUME TypeOK, NEW p \in Procs, IdleInv(p), ChecksInv(p), GoodInv(p), Checking(p),
           NEW verdict \in {"good", "bad"}, CheckReturn(p, verdict),
           verdict = "good" => Sound(p, Top(checks[p]).file),
           UNCHANGED bin
    PROVE  GoodInv(p)'
  <1>0. PICK s, t, n, f0 : s = checks[p] /\ t = Pop(s) /\ n = Len(s) /\ f0 = Top(s).file
    OBVIOUS
  <1>1. /\ s \in Seq(CheckFrame) /\ s # <<>> /\ checks'[p] = t /\ f0 \in Files
        /\ import_state[p][f0] = "unknown"
    BY <1>0, VerdictCheck DEF CheckReturn, TypeOK
  <1>2. Popped(s, t, n)
    BY <1>0, <1>1, CheckShapes
  <1>3. /\ import_state'[p][f0] = verdict
        /\ \A f \in Files : f # f0 => import_state'[p][f] = import_state[p][f]
    BY <1>0, <1>1 DEF CheckReturn, TypeOK
  <1>4. \A g \in Files : import_state[p][g] = "good" => import_state'[p][g] = "good" /\ bin'[g] = bin[g]
    BY <1>1, <1>3
  <1>5. Ordered(t)
    BY <1>0, <1>1, OrderedPop DEF GoodInv
  <1>6. ASSUME NEW i \in DOMAIN t PROVE Handled(p, t[i])'
    <2>1. t[i] = s[i] /\ Handled(p, s[i]) /\ s[i].file \in Files
      BY <1>0, <1>2, CheckFiles DEF Popped, GoodInv
    <2>2. Handled(p, s[i])'
      BY <1>4, <2>1, HandledKept
    <2> QED
      BY <2>1, <2>2
  <1>7. ASSUME NEW f \in Files, import_state'[p][f] = "good" PROVE Sound(p, f)'
    <2>1. Sound(p, f)
      BY <1>0, <1>3, <1>7 DEF GoodInv
    <2> QED
      BY <1>4, <2>1, SoundKept
  <1> QED
    BY <1>1, <1>5, <1>6, <1>7, GoodChange

\* A check goes on.
LEMMA GoodGoesOn ==
    ASSUME TypeOK, NEW p \in Procs, IdleInv(p), ChecksInv(p), GoodInv(p), Checking(p),
           NEW e \in CheckFrame, e.file = Top(checks[p]).file, e.todo \subseteq Imports[e.file],
           Handled(p, e),
           checks' = [checks EXCEPT ![p] = SetTop(checks[p], e)],
           UNCHANGED <<import_state, bin>>
    PROVE  GoodInv(p)'
  <1>0. PICK s, t, n : s = checks[p] /\ t = SetTop(s, e) /\ n = Len(s)
    OBVIOUS
  <1>1. s \in Seq(CheckFrame) /\ s # <<>> /\ checks'[p] = t
    BY <1>0, VerdictCheck DEF TypeOK
  <1>2. Retopped(s, t, n, e)
    BY <1>0, <1>1, CheckShapes
  <1>3. Ordered(t)
    BY <1>0, <1>1, OrderedSetTop DEF GoodInv
  <1>4. ASSUME NEW i \in DOMAIN t PROVE Handled(p, t[i])'
    <2>1. Handled(p, t[i]) /\ t[i].file \in Files
      <3>1. i \in DOMAIN s /\ (t[i] = e \/ t[i] = s[i])
        BY <1>2 DEF Retopped
      <3>2. Handled(p, s[i]) /\ s[i].file \in Files /\ e.file \in Files
        BY <1>0, <3>1, CheckFiles DEF GoodInv, CheckFrame
      <3> QED
        BY <3>1, <3>2
    <2> QED
      BY <2>1, HandledKept
  <1>5. \A f \in Files : import_state'[p][f] = "good" => Sound(p, f)'
    BY SoundKept DEF GoodInv
  <1> QED
    BY <1>1, <1>3, <1>4, <1>5, GoodChange

\* A check is called on a file without a verdict.
LEMMA GoodIsCalled ==
    ASSUME TypeOK, NEW p \in Procs, GoodInv(p), NEW c \in Files,
           checks[p] # <<>> => c \in Imports[Top(checks[p]).file],
           import_state[p][c] = "none",
           checks' = [checks EXCEPT ![p] = Append(checks[p], CheckCall(c))],
           import_state' = [import_state EXCEPT ![p][c] = "unknown"],
           UNCHANGED bin
    PROVE  GoodInv(p)'
  <1>0. PICK s, e, t, n : s = checks[p] /\ e = CheckCall(c) /\ t = Append(s, e) /\ n = Len(s) + 1
    OBVIOUS
  <1>1. s \in Seq(CheckFrame) /\ checks'[p] = t
    BY <1>0 DEF TypeOK
  <1>2. e \in CheckFrame /\ e.file = c /\ e.phase = "stat" /\ e.todo = {}
    BY <1>0 DEF CheckCall, CheckFrame, Time
  <1>3. Pushed(s, t, n, e)
    BY <1>0, <1>1, <1>2, CheckShapes
  <1>4. Ordered(t)
    <2>1. \A x \in CheckFrame : x.file \in Files
      BY DEF CheckFrame
    <2>2. Ordered(s) /\ (s # <<>> => e.file \in Imports[Top(s).file]) /\ e.todo \subseteq Imports[e.file]
      BY <1>0, <1>2 DEF GoodInv
    <2> QED
      BY <1>0, <1>1, <1>2, <2>1, <2>2, OrderedPush
  <1>5. /\ import_state'[p][c] = "unknown"
        /\ \A f \in Files : f # c => import_state'[p][f] = import_state[p][f]
    BY DEF TypeOK
  <1>6. \A g \in Files : import_state[p][g] = "good" => import_state'[p][g] = "good" /\ bin'[g] = bin[g]
    BY <1>5
  <1>7. ASSUME NEW i \in DOMAIN t PROVE Handled(p, t[i])'
    <2>1. (i \in DOMAIN s /\ t[i] = s[i]) \/ t[i] = e
      BY <1>3 DEF Pushed
    <2>2. CASE i \in DOMAIN s /\ t[i] = s[i]
      <3>1. Handled(p, t[i]) /\ t[i].file \in Files
        BY <1>0, <2>2, CheckFiles DEF GoodInv
      <3> QED
        BY <1>6, <3>1, HandledKept
    <2>3. CASE t[i] = e
      BY <1>2, <2>3 DEF Handled
    <2> QED
      BY <2>1, <2>2, <2>3
  <1>8. \A f \in Files : import_state'[p][f] = "good" => Sound(p, f)'
    <2> SUFFICES ASSUME NEW f \in Files, import_state'[p][f] = "good" PROVE Sound(p, f)'
      OBVIOUS
    <2>1. Sound(p, f)
      BY <1>5 DEF GoodInv
    <2> QED
      BY <1>6, <2>1, SoundKept
  <1> QED
    BY <1>1, <1>4, <1>7, <1>8, GoodChange

\* Every step of check_import_state: without circles no import of the file
\* being checked is being checked itself, so all of them have their verdict.
LEMMA CheckGood ==
    ASSUME TypeOK, Acyclic, NEW p \in Procs, IdleInv(p), ChecksInv(p), GoodInv(p),
           NEW c \in Files, CheckStat(p) \/ CheckOpen(p) \/ CheckImport(p, c) \/ CheckDone(p)
    PROVE  GoodInv(p)'
  <1> DEFINE fr == Top(checks[p])
  <1>1. Checking(p) /\ UNCHANGED bin
    BY DEF CheckStat, CheckOpen, CheckImport, CheckDone, fileVars
  <1>2. /\ checks[p] \in Seq(CheckFrame) /\ checks[p] # <<>>
        /\ fr \in CheckFrame /\ fr.file \in Files /\ fr.time \in Nat
        /\ fr.todo \subseteq Imports[fr.file] /\ fr.todo \subseteq Files
        /\ fr.phase # "stat" => bin[fr.file].exists /\ bin[fr.file].time = fr.time
        /\ fr.phase = "imports" => bin[fr.file].magic
        /\ Len(checks[p]) \in DOMAIN checks[p] /\ fr = checks[p][Len(checks[p])]
    BY <1>1, VerdictCheck
  <1>3. Handled(p, fr)
    BY <1>2 DEF GoodInv
  <1>4. CASE CheckStat(p)
    <2>1. CASE ~bin[fr.file].exists \/ src[fr.file].time > bin[fr.file].time
      BY <1>1, <1>4, <2>1, GoodReturns DEF CheckStat
    <2>2. CASE ~(~bin[fr.file].exists \/ src[fr.file].time > bin[fr.file].time)
      <3> DEFINE e == [fr EXCEPT !.phase = "open", !.time = bin[fr.file].time]
      <3>1. e \in CheckFrame /\ e.file = fr.file /\ e.todo = fr.todo /\ e.phase = "open"
        BY <1>2 DEF CheckFrame, TypeOK, Binary
      <3>2. /\ checks' = [checks EXCEPT ![p] = SetTop(checks[p], e)]
            /\ UNCHANGED import_state
        BY <1>4, <2>2 DEF CheckStat
      <3> HIDE DEF e
      <3>3. Handled(p, e)
        BY <3>1 DEF Handled
      <3> QED
        BY <1>1, <1>2, <3>1, <3>2, <3>3, GoodGoesOn
    <2> QED
      BY <2>1, <2>2
  <1>5. CASE CheckOpen(p)
    <2>1. CASE ~bin[fr.file].magic
      BY <1>1, <1>5, <2>1, GoodReturns DEF CheckOpen
    <2>2. CASE bin[fr.file].magic
      <3> DEFINE e == [fr EXCEPT !.phase = "imports", !.todo = Imports[fr.file]]
      <3>1. e \in CheckFrame /\ e.file = fr.file /\ e.todo = Imports[fr.file]
        BY <1>2, ImportsAssumption DEF CheckFrame
      <3>2. /\ checks' = [checks EXCEPT ![p] = SetTop(checks[p], e)]
            /\ UNCHANGED import_state
        BY <1>5, <2>2 DEF CheckOpen
      <3> HIDE DEF e
      <3>3. Handled(p, e)
        BY <3>1 DEF Handled
      <3> QED
        BY <1>1, <1>2, <3>1, <3>2, <3>3, GoodGoesOn
    <2> QED
      BY <2>1, <2>2
  <1>6. CASE CheckImport(p, c)
    <2>1. c \in fr.todo /\ c \in Imports[fr.file] /\ fr.phase = "imports"
      BY <1>2, <1>6 DEF CheckImport
    <2>2. CASE import_state[p][c] # "none" /\ ~ImportUsable(p, c, fr.time)
      <3>1. CheckReturn(p, "bad")
        BY <1>6, <2>2 DEF CheckImport
      <3> QED
        BY <1>1, <3>1, GoodReturns
    <2>3. CASE import_state[p][c] # "none" /\ ImportUsable(p, c, fr.time)
      <3> DEFINE e == [fr EXCEPT !.todo = @ \ {c}]
      <3>1. /\ e \in CheckFrame /\ e.file = fr.file /\ e.todo = fr.todo \ {c}
            /\ e.phase = "imports" /\ e.time = fr.time
        BY <1>2, <2>1 DEF CheckFrame
      <3>2. /\ checks' = [checks EXCEPT ![p] = SetTop(checks[p], e)]
            /\ UNCHANGED import_state
        BY <1>6, <2>1, <2>3 DEF CheckImport
      <3>3. e.todo \subseteq Imports[e.file]
        BY <1>2, <3>1
      <3> HIDE DEF e
      <3>4. import_state[p][c] = "good"
        <4>1. \A i \in DOMAIN checks[p] : checks[p][i].file # c
          BY <1>2, <2>1, CheckStackDistinct DEF GoodInv
        <4>2. import_state[p][c] \notin {"none", "unknown", "bad"}
          BY <2>3, <4>1 DEF ImportUsable, ChecksInv
        <4> QED
          BY <4>2 DEF TypeOK, import_state_t
      <3>5. bin[c].time <= fr.time
        BY <1>2, <2>3, FileTimes DEF ImportUsable
      <3>6. Handled(p, e)
        BY <1>3, <2>1, <3>1, <3>4, <3>5 DEF Handled
      <3> QED
        BY <1>1, <1>2, <3>1, <3>2, <3>3, <3>6, GoodGoesOn
    <2>4. CASE import_state[p][c] = "none"
      <3>1. /\ checks' = [checks EXCEPT ![p] = Append(checks[p], CheckCall(c))]
            /\ import_state' = [import_state EXCEPT ![p][c] = "unknown"]
        BY <1>6, <2>1, <2>4 DEF CheckImport
      <3> QED
        BY <1>1, <2>1, <2>4, <3>1, GoodIsCalled
    <2> QED
      BY <2>2, <2>3, <2>4
  <1>7. CASE CheckDone(p)
    <2>1. fr.phase = "imports" /\ fr.todo = {} /\ CheckReturn(p, "good")
      BY <1>7 DEF CheckDone
    <2>2. Sound(p, fr.file)
      BY <1>2, <1>3, <2>1 DEF Sound, Handled
    <2> QED
      BY <1>1, <2>1, <2>2, GoodReturns
  <1> QED
    BY <1>4, <1>5, <1>6, <1>7

(***************************************************************************)
(* What is settled: what the imports hold.                                  *)
(***************************************************************************)

\* With a file its imports are finished too, down to the last: nothing of it
\* has been replaced since.
LEMMA DoneIsWhole ==
    ASSUME NEW p \in Procs, HoldsInv(p), NEW f \in Files, Done(p, f)
    PROVE  Whole(f) /\ \A g \in Reach(f) : Done(p, g)
  <1> DEFINE S == {g \in Files : Done(p, g)}
  <1>1. f \in S /\ S \in SUBSET Files
    OBVIOUS
  <1>2. Closed(S)
    <2> SUFFICES ASSUME NEW g \in S, NEW c \in Imports[g] PROVE c \in S
      BY DEF Closed
    <2>1. c \in Files
      BY ImportsAssumption
    <2>2. Done(p, c)
      BY DEF HoldsInv, Finished
    <2> QED
      BY <2>1, <2>2
  <1>3. \A g \in Reach(f) : g \in S
    BY <1>1, <1>2 DEF Reach
  <1> QED
    BY <1>3 DEF Whole, HoldsInv, Finished

\* With a good binary all below it are good.
LEMMA GoodIsWhole ==
    ASSUME NEW p \in Procs, GoodInv(p), NEW f \in Files, import_state[p][f] = "good"
    PROVE  Whole(f)
  <1> DEFINE S == {g \in Files : import_state[p][g] = "good"}
  <1>1. f \in S /\ S \in SUBSET Files
    OBVIOUS
  <1>2. Closed(S)
    <2> SUFFICES ASSUME NEW g \in S, NEW c \in Imports[g] PROVE c \in S
      BY DEF Closed
    <2>1. c \in Files
      BY ImportsAssumption
    <2>2. import_state[p][c] = "good"
      BY DEF GoodInv, Sound
    <2> QED
      BY <2>1, <2>2
  <1>3. \A g \in Reach(f) : g \in S
    BY <1>1, <1>2 DEF Reach
  <1> QED
    BY <1>3 DEF Whole, GoodInv, Sound

\* A finished import holds only what its file reaches, in versions there have been.
LEMMA DoneHolds ==
    ASSUME NEW p \in Procs, HoldsInv(p), NEW f \in Files, Done(p, f), HeldInv(f)
    PROVE  \A x \in loaded[p][f] : x[1] \in Reach(f) /\ x[2] <= src[x[1]].ver
  BY DoneIsWhole DEF HoldsInv, Finished, HeldInv

\* So do the units of one that is running.
LEMMA FrameHolds ==
    ASSUME \A f \in Files : HeldInv(f), NEW p \in Procs, GoodInv(p), HoldsInv(p),
           NEW fr, fr.file \in Files, Ran(p, fr), Holds(p, fr),
           fr.phase \in {"binary", "compile", "closed"}
    PROVE  \A x \in loaded[p][fr.file] : x[1] \in Reach(fr.file) /\ x[2] <= src[x[1]].ver
  <1>1. CASE fr.phase = "binary"
    <2>1. Whole(fr.file) /\ loaded[p][fr.file] = bin[fr.file].prov
      BY <1>1, GoodIsWhole DEF Ran, Holds
    <2> QED
      BY <2>1 DEF HeldInv
  <1>2. CASE fr.phase \in {"compile", "closed"}
    <2> SUFFICES ASSUME NEW x \in loaded[p][fr.file] PROVE x[1] \in Reach(fr.file) /\ x[2] <= src[x[1]].ver
      OBVIOUS
    <2>1. /\ x[2] <= src[x[1]].ver
          /\ x[1] = fr.file \/ \E c \in Under(fr.file) : Done(p, c) /\ x \in loaded[p][c]
      BY <1>2 DEF Holds
    <2>2. CASE x[1] = fr.file
      BY <2>1, <2>2, ReachClosed
    <2>3. ASSUME NEW c \in Under(fr.file), Done(p, c), x \in loaded[p][c] PROVE x[1] \in Reach(fr.file)
      <3>1. c \in Files /\ c \in Reach(fr.file)
        BY UnderClosed, ReachClosed
      <3>2. x[1] \in Reach(c)
        BY <2>3, <3>1, DoneHolds
      <3> QED
        BY <3>1, <3>2, ReachTransitive
    <2> QED
      BY <2>1, <2>2, <2>3
  <1> QED
    BY <1>1, <1>2

\* What is reached from below f is below f.
LEMMA UnderReach ==
    ASSUME NEW f \in Files, NEW c \in Under(f)
    PROVE  c \in Files /\ Reach(c) \subseteq Under(f)
  <1>1. PICK d \in Imports[f] : c \in Reach(d)
    BY DEF Under
  <1>2. d \in Files
    BY ImportsAssumption
  <1>3. c \in Files /\ Reach(c) \subseteq Reach(d)
    BY <1>1, <1>2, ReachClosed, ReachTransitive
  <1> QED
    BY <1>3 DEF Under

\* A stack of imports that has changed.
LEMMA HoldsChange ==
    ASSUME NEW p \in Procs, NEW t, imps'[p] = t, Ordered(t),
           \A i \in DOMAIN t : Holds(p, t[i])',
           \A f \in Files : Done(p, f)' => Finished(p, f)'
    PROVE  HoldsInv(p)'
  BY DEF HoldsInv, Ordered

\* What an activation holds it keeps, also when it has asked for one file more.
LEMMA HoldsKept ==
    ASSUME NEW p \in Procs, NEW fr, NEW a, Holds(p, fr), fr.file \in Files,
           a.file = fr.file, a.phase = fr.phase, a.time = fr.time,
           NEW f, a.todo = fr.todo \/ (a.todo = fr.todo \ {f} /\ f \in imported'[p]),
           imported[p] \subseteq imported'[p], UNCHANGED src,
           fr.phase = "binary" => bin'[fr.file] = bin[fr.file],
           loaded'[p][fr.file] = loaded[p][fr.file],
           \A c \in Files : Done(p, c) => Done(p, c)' /\ loaded'[p][c] = loaded[p][c]
    PROVE  Holds(p, a)'
  <1>1. a.phase # "check" => Imports[a.file] \ a.todo \subseteq imported'[p]
    BY DEF Holds
  <1>2. a.phase = "binary" => loaded'[p][a.file] = bin'[a.file].prov
    BY DEF Holds
  <1>3. ASSUME a.phase \in {"compile", "closed"}
        PROVE  /\ \A x \in loaded'[p][a.file] :
                    /\ x[2] <= src'[x[1]].ver
                    /\ x[1] = a.file \/ \E c \in Under(a.file) : Done(p, c)' /\ x \in loaded'[p][c]
               /\ \A x, y \in loaded'[p][a.file] : x[1] = a.file /\ y[1] = a.file => x = y
    <2>1. Under(fr.file) \subseteq Files
      BY UnderReach
    <2> QED
      BY <1>3, <2>1 DEF Holds
  <1>4. a.phase = "closed" =>
          /\ a.todo = {}
          /\ <<a.file, src'[a.file].ver>> \in loaded'[p][a.file] => src'[a.file].time <= a.time
    BY DEF Holds
  <1> QED
    BY <1>1, <1>2, <1>3, <1>4 DEF Holds

\* A source being compiled gets from a finished import nothing of its own.
LEMMA HoldsMore ==
    ASSUME TypeOK, Acyclic, NEW p \in Procs, NEW fr, NEW a, Holds(p, fr), fr.file \in Files,
           fr.phase = "compile",
           a.file = fr.file, a.phase = fr.phase, a.time = fr.time,
           NEW f \in Under(fr.file),
           a.todo = fr.todo \/ (a.todo = fr.todo \ {f} /\ f \in imported'[p]),
           imported[p] \subseteq imported'[p], UNCHANGED src,
           \A x \in loaded[p][f] : x[1] \in Reach(f) /\ x[2] <= src[x[1]].ver,
           loaded'[p][fr.file] = loaded[p][fr.file] \cup loaded[p][f],
           Done(p, f)', loaded'[p][f] = loaded[p][f],
           \A c \in Files : Done(p, c) => Done(p, c)' /\ loaded'[p][c] = loaded[p][c]
    PROVE  Holds(p, a)'
  <1>1. a.phase # "check" => Imports[a.file] \ a.todo \subseteq imported'[p]
    BY DEF Holds
  <1>2. Under(fr.file) \subseteq Files /\ fr.file \notin Reach(f)
    BY UnderReach DEF Acyclic
  <1>3. ASSUME NEW x \in loaded'[p][a.file]
        PROVE  /\ x[2] <= src'[x[1]].ver
               /\ x[1] = a.file \/ \E c \in Under(a.file) : Done(p, c)' /\ x \in loaded'[p][c]
    <2>1. CASE x \in loaded[p][f]
      BY <2>1
    <2>2. CASE x \in loaded[p][fr.file]
      BY <1>2, <2>2 DEF Holds
    <2> QED
      BY <1>3, <2>1, <2>2
  <1>4. ASSUME NEW x \in loaded'[p][a.file], NEW y \in loaded'[p][a.file], x[1] = a.file, y[1] = a.file
        PROVE  x = y
    <2>1. x \in loaded[p][fr.file] /\ y \in loaded[p][fr.file]
      BY <1>2, <1>4
    <2> QED
      BY <1>4, <2>1 DEF Holds
  <1> QED
    BY <1>1, <1>3, <1>4 DEF Holds

\* Merge changes what the calling activation holds, and only while it compiles.
LEMMA MergeShape ==
    ASSUME TypeOK, NEW p \in Procs, NEW f \in Files, NEW stack \in Seq(ImportFrame),
           loaded' = Merge(p, stack, f), NEW g \in Files
    PROVE  \/ loaded'[p][g] = loaded[p][g]
           \/ /\ stack # <<>> /\ Top(stack).phase = "compile" /\ g = Top(stack).file
              /\ loaded'[p][g] = loaded[p][g] \cup loaded[p][f]
  <1>1. CASE stack # <<>> /\ Top(stack).phase = "compile"
    <2>1. Top(stack).file \in Files
      BY <1>1, ImportStackFacts DEF ImportFrame
    <2>2. loaded' = [loaded EXCEPT ![p][Top(stack).file] = loaded[p][Top(stack).file] \cup loaded[p][f]]
      BY <1>1 DEF Merge
    <2> QED
      BY <1>1, <2>1, <2>2 DEF TypeOK
  <1>2. CASE ~(stack # <<>> /\ Top(stack).phase = "compile")
    BY <1>2 DEF Merge
  <1> QED
    BY <1>1, <1>2

\* What is finished stays so while its binary and those of its imports do.
LEMMA FinishedKept ==
    ASSUME NEW p \in Procs, NEW f \in Files, Finished(p, f),
           loaded'[p][f] = loaded[p][f], bin'[f] = bin[f],
           \A c \in Files : Done(p, c) => Done(p, c)' /\ bin'[c] = bin[c]
    PROVE  Finished(p, f)'
  <1>1. Imports[f] \subseteq Files
    BY ImportsAssumption
  <1> QED
    BY <1>1 DEF Finished

\* A step that neither loads nor imports anything.
LEMMA HoldsSame ==
    ASSUME TypeOK, NEW p \in Procs, HoldsInv(p), UNCHANGED <<src, bin, imported, loaded, imps>>
    PROVE  HoldsInv(p)'
  <1>1. PICK s : s = imps[p]
    OBVIOUS
  <1>2. \A f \in Files : Done(p, f)' <=> Done(p, f)
    BY DEF Done
  <1>3. ASSUME NEW i \in DOMAIN s PROVE Holds(p, s[i])'
    <2>1. Holds(p, s[i]) /\ s[i].file \in Files
      BY <1>1, ImportFiles DEF HoldsInv
    <2> QED
      BY <1>2, <2>1, HoldsKept
  <1>4. \A f \in Files : Done(p, f)' => Finished(p, f)'
    BY <1>2, FinishedKept DEF HoldsInv
  <1> QED
    BY <1>1, <1>3, <1>4, HoldsChange DEF HoldsInv

\* An import that goes on.
LEMMA HoldsGoOn ==
    ASSUME TypeOK, NEW p \in Procs, RunsInv(p), HoldsInv(p), imps[p] # <<>>,
           NEW e \in ImportFrame, e.file = Top(imps[p]).file, e.todo \subseteq Imports[e.file],
           imps' = [imps EXCEPT ![p] = SetTop(imps[p], e)],
           \A g \in Files : g # e.file => loaded'[p][g] = loaded[p][g],
           UNCHANGED <<src, bin, imported>>,
           Holds(p, e)'
    PROVE  HoldsInv(p)'
  <1>0. PICK s, t, n : s = imps[p] /\ t = SetTop(s, e) /\ n = Len(s)
    OBVIOUS
  <1>1. s \in Seq(ImportFrame) /\ s # <<>> /\ imps'[p] = t
    BY <1>0 DEF TypeOK
  <1>2. Retopped(s, t, n, e)
    BY <1>0, <1>1, ImportShapes
  <1>3. s[n].file = e.file
    BY <1>0, <1>2 DEF Retopped
  <1>4. \A i \in DOMAIN s : t[i].file = s[i].file
    BY <1>2, <1>3 DEF Retopped
  <1>5. \A f \in Files : Done(p, f)' <=> Done(p, f)
    BY <1>0, <1>1, <1>2, <1>4 DEF Done, Retopped
  <1>6. /\ \A i, j \in DOMAIN s : i # j => s[i].file # s[j].file
        /\ \A i \in DOMAIN s : Holds(p, s[i]) /\ s[i].file \in Files
        /\ Ordered(s)
    BY <1>0, ImportFiles DEF RunsInv, HoldsInv
  <1>7. Ordered(t)
    BY <1>0, <1>1, <1>6, OrderedSetTop
  <1>8. \A c \in Files : Done(p, c) => c # e.file
    BY <1>0, <1>2, <1>3 DEF Done, Retopped
  <1>9. ASSUME NEW i \in DOMAIN t PROVE Holds(p, t[i])'
    <2>1. CASE i = n
      <3>1. t[i] = e
        BY <1>2, <2>1 DEF Retopped
      <3> QED
        BY <3>1
    <2>2. CASE i # n
      <3>1. t[i] = s[i] /\ i \in DOMAIN s /\ s[i].file # e.file
        BY <1>2, <1>3, <1>6, <2>2 DEF Retopped
      <3>2. Holds(p, s[i])'
        BY <1>5, <1>6, <1>8, <3>1, HoldsKept
      <3> QED
        BY <3>1, <3>2
    <2> QED
      BY <2>1, <2>2
  <1>10. \A f \in Files : Done(p, f)' => Finished(p, f)'
    <2> SUFFICES ASSUME NEW f \in Files, Done(p, f)' PROVE Finished(p, f)'
      OBVIOUS
    <2>1. Done(p, f) /\ f # e.file /\ Finished(p, f)
      BY <1>5, <1>8 DEF HoldsInv
    <2> QED
      BY <1>5, <2>1, FinishedKept
  <1> QED
    BY <1>1, <1>7, <1>9, <1>10, HoldsChange

\* The opening of a binary or a source and the end of a compilation.
LEMMA OpenHolds ==
    ASSUME TypeOK, NEW p \in Procs, IdleInv(p), ChecksInv(p), RunsInv(p),
           \A f \in Files : HeldInv(f), GoodInv(p), HoldsInv(p),
           OpenBinary(p) \/ OpenSource(p) \/ CloseBinary(p)
    PROVE  HoldsInv(p)'
  <1>0. PICK fr : fr = Top(imps[p])
    OBVIOUS
  <1>1. ~Checking(p) /\ imps[p] # <<>>
    BY DEF OpenBinary, OpenSource, CloseBinary, Importing
  <1>2. /\ fr \in ImportFrame /\ fr.file \in Files /\ Ran(p, fr)
        /\ Len(imps[p]) \in DOMAIN imps[p] /\ fr = imps[p][Len(imps[p])]
    BY <1>0, <1>1, VerdictImport
  <1>3. Holds(p, fr)
    BY <1>2 DEF HoldsInv
  <1>4. CASE OpenBinary(p)
    <2>0. PICK e : e = [fr EXCEPT !.phase = "binary", !.todo = Imports[fr.file]]
      OBVIOUS
    <2>1. e \in ImportFrame /\ e.file = fr.file /\ e.phase = "binary" /\ e.todo = Imports[e.file]
      BY <1>2, <2>0, ImportsAssumption DEF ImportFrame
    <2>2. /\ imps' = [imps EXCEPT ![p] = SetTop(imps[p], e)]
          /\ loaded' = [loaded EXCEPT ![p][fr.file] = bin[fr.file].prov]
          /\ UNCHANGED <<src, bin, imported>>
      BY <1>0, <1>4, <2>0 DEF OpenBinary, fileVars
    <2>3. /\ loaded'[p][e.file] = bin[e.file].prov
          /\ \A g \in Files : g # e.file => loaded'[p][g] = loaded[p][g]
      BY <1>2, <2>1, <2>2 DEF TypeOK
    <2>4. Holds(p, e)'
      BY <2>1, <2>2, <2>3 DEF Holds
    <2> QED
      BY <1>0, <1>1, <2>1, <2>2, <2>3, <2>4, HoldsGoOn
  <1>5. CASE OpenSource(p)
    <2>0. PICK e : e = [fr EXCEPT !.phase = "compile", !.todo = Imports[fr.file]]
      OBVIOUS
    <2>1. e \in ImportFrame /\ e.file = fr.file /\ e.phase = "compile" /\ e.todo = Imports[e.file]
      BY <1>2, <2>0, ImportsAssumption DEF ImportFrame
    <2>2. /\ imps' = [imps EXCEPT ![p] = SetTop(imps[p], e)]
          /\ loaded' = [loaded EXCEPT ![p][fr.file] = {<<fr.file, src[fr.file].ver>>}]
          /\ UNCHANGED <<src, bin, imported>>
      BY <1>0, <1>5, <2>0 DEF OpenSource, fileVars
    <2>3. /\ loaded'[p][e.file] = {<<e.file, src[e.file].ver>>}
          /\ \A g \in Files : g # e.file => loaded'[p][g] = loaded[p][g]
      BY <1>2, <2>1, <2>2 DEF TypeOK
    <2>4. src'[e.file].ver \in Nat /\ src' = src
      BY <1>2, <2>1, <2>2, FileTimes
    <2>5. \A x \in loaded'[p][e.file] : x = <<e.file, src[e.file].ver>> /\ x[1] = e.file /\ x[2] = src[e.file].ver
      BY <2>3
    <2>6. \A x \in loaded'[p][e.file] : x[1] = e.file /\ x[2] <= src'[x[1]].ver
      BY <2>4, <2>5
    <2>7. Holds(p, e)'
      BY <2>1, <2>5, <2>6 DEF Holds
    <2> QED
      BY <1>0, <1>1, <2>1, <2>2, <2>3, <2>7, HoldsGoOn
  <1>6. CASE CloseBinary(p)
    <2>0. PICK e : e = [fr EXCEPT !.phase = "closed", !.time = clock + 1]
      OBVIOUS
    <2>1. /\ e \in ImportFrame /\ e.file = fr.file /\ e.phase = "closed" /\ e.time = clock + 1
          /\ e.todo = fr.todo
      <3>1. clock + 1 \in Time
        BY FileTimes DEF Time
      <3> QED
        BY <1>2, <2>0, <3>1 DEF ImportFrame
    <2>2. /\ imps' = [imps EXCEPT ![p] = SetTop(imps[p], e)]
          /\ fr.phase = "compile" /\ fr.todo = {}
          /\ UNCHANGED <<src, bin, imported, loaded>>
      BY <1>0, <1>6, <2>0 DEF CloseBinary
    <2>3. src[e.file].time <= e.time
      BY <1>2, <2>1, FileTimes
    <2>4. \A g \in Files : Done(p, g)' <=> Done(p, g)
      <3>0. PICK s, t, n : s = imps[p] /\ t = SetTop(s, e) /\ n = Len(s)
        OBVIOUS
      <3>1. Retopped(s, t, n, e) /\ imps'[p] = t
        BY <1>1, <2>1, <2>2, <3>0, ImportShapes DEF TypeOK
      <3>2. \A i \in DOMAIN s : t[i].file = s[i].file
        BY <1>0, <2>1, <3>0, <3>1 DEF Retopped
      <3> QED
        BY <2>2, <3>0, <3>1, <3>2 DEF Done, Retopped
    <2>5. /\ \A x \in loaded'[p][e.file] :
               /\ x[2] <= src'[x[1]].ver
               /\ x[1] = e.file \/ \E c \in Under(e.file) : Done(p, c)' /\ x \in loaded'[p][c]
          /\ \A x, y \in loaded'[p][e.file] : x[1] = e.file /\ y[1] = e.file => x = y
          /\ Imports[e.file] \ e.todo \subseteq imported'[p]
      BY <1>2, <1>3, <2>1, <2>2, <2>4, UnderReach DEF Holds
    <2>6. Holds(p, e)'
      BY <2>1, <2>2, <2>3, <2>5 DEF Holds
    <2>7. e.todo \subseteq Imports[e.file]
      BY <2>1, <2>2
    <2> QED
      BY <1>0, <1>1, <2>1, <2>2, <2>6, <2>7, HoldsGoOn
  <1> QED
    BY <1>4, <1>5, <1>6

\* The activations of a stack after a merge into the top one, s[n].  Only what
\* is finished is merged, and that is not in the stack.
LEMMA HoldsMerged ==
    ASSUME TypeOK, Acyclic, NEW p \in Procs, NEW s \in Seq(ImportFrame), NEW f \in Files,
           loaded' = Merge(p, s, f),
           \A i, j \in DOMAIN s : i # j => s[i].file # s[j].file,
           \A c \in Files : Done(p, c) \/ c = f => Done(p, c)' /\ \A j \in DOMAIN s : s[j].file # c,
           \A x \in loaded[p][f] : x[1] \in Reach(f) /\ x[2] <= src[x[1]].ver,
           NEW i \in DOMAIN s, s[i].file \in Files, Holds(p, s[i]), f \in Under(s[i].file),
           NEW a, a.file = s[i].file, a.phase = s[i].phase, a.time = s[i].time,
           a.todo = s[i].todo \/ (a.todo = s[i].todo \ {f} /\ f \in imported'[p]),
           imported[p] \subseteq imported'[p], UNCHANGED src,
           bin'[s[i].file] = bin[s[i].file]
    PROVE  Holds(p, a)'
  <1>1. s # <<>>
    BY EmptySeq, LenProperties
  <1>2. Len(s) \in DOMAIN s /\ Top(s) = s[Len(s)]
    BY <1>1, ImportStackFacts
  <1>3. \A c \in Files : Done(p, c) \/ c = f => loaded'[p][c] = loaded[p][c]
    BY <1>2, MergeShape
  <1>4. CASE loaded'[p][s[i].file] = loaded[p][s[i].file]
    <2>1. \A c \in Files : Done(p, c) => Done(p, c)' /\ loaded'[p][c] = loaded[p][c]
      BY <1>3
    <2> QED
      BY <1>4, <2>1, HoldsKept
  <1>5. CASE loaded'[p][s[i].file] # loaded[p][s[i].file]
    <2>1. /\ s[i].file = Top(s).file /\ Top(s).phase = "compile"
          /\ loaded'[p][s[i].file] = loaded[p][s[i].file] \cup loaded[p][f]
      BY <1>5, MergeShape
    <2>2. s[i].phase = "compile"
      BY <1>2, <2>1
    <2>3. Done(p, f)' /\ loaded'[p][f] = loaded[p][f]
      BY <1>3
    <2>4. \A c \in Files : Done(p, c) => Done(p, c)' /\ loaded'[p][c] = loaded[p][c]
      BY <1>3
    <2> QED
      BY <2>1, <2>2, <2>3, <2>4, HoldsMore
  <1> QED
    BY <1>4, <1>5

\* What is finished after a merge.
LEMMA FinishedMerged ==
    ASSUME TypeOK, NEW p \in Procs, NEW s \in Seq(ImportFrame), NEW f \in Files,
           loaded' = Merge(p, s, f), NEW g \in Files, \A j \in DOMAIN s : s[j].file # g
    PROVE  loaded'[p][g] = loaded[p][g]
  <1>1. s # <<>> => Len(s) \in DOMAIN s /\ Top(s) = s[Len(s)]
    BY ImportStackFacts
  <1> QED
    BY <1>1, MergeShape

\* The running units ask for what their file imports.
LEMMA AskedTop ==
    ASSUME TypeOK, Acyclic, NEW p \in Procs, HoldsInv(p), NEW f \in Files, Wants(p, f)
    PROVE  LET s == imps[p]  a == Asked(p, f) IN
           /\ \A i \in DOMAIN s : f \in Under(s[i].file) /\ s[i].file # f
           /\ a # <<>> => s # <<>> /\ f \in Imports[Top(a).file]
           /\ Ordered(a)
  <1>0. imps[p] \in Seq(ImportFrame) /\ Ordered(imps[p])
    BY DEF TypeOK, HoldsInv
  <1>1. CASE imps[p] = <<>>
    <2>1. Asked(p, f) = <<>>
      BY <1>1 DEF Asked
    <2>2. DOMAIN <<>> = {}
      BY EmptySeq, LenProperties
    <2> QED
      BY <1>0, <1>1, <2>1, <2>2
  <1>2. CASE imps[p] # <<>>
    <2> DEFINE fr == Top(imps[p])  e == [fr EXCEPT !.todo = @ \ {f}]
    <2>0. PICK s, t, n : s = imps[p] /\ t = SetTop(s, e) /\ n = Len(s)
      OBVIOUS
    <2>1. /\ fr \in ImportFrame /\ fr.file \in Files /\ f \in fr.todo
          /\ n \in Nat \ {0} /\ DOMAIN s = 1..n /\ n \in DOMAIN s /\ fr = s[n]
      <3>1. /\ Len(s) \in Nat \ {0} /\ Len(s) \in 1..Len(s) /\ DOMAIN s = 1..Len(s)
            /\ Top(s) = s[Len(s)] /\ Top(s) \in ImportFrame
        BY <1>0, <1>2, <2>0, ImportStackFacts
      <3>2. f \in fr.todo
        BY <1>2 DEF Wants
      <3>3. fr = Top(s)
        BY <2>0
      <3> HIDE DEF fr
      <3> QED
        BY <2>0, <3>1, <3>2, <3>3 DEF ImportFrame
    <2>2. fr.todo \subseteq Imports[fr.file] /\ f \in Imports[fr.file]
      BY <1>0, <2>0, <2>1 DEF Ordered
    <2>3. e \in ImportFrame /\ e.file = fr.file /\ e.todo = fr.todo \ {f}
      BY <2>1 DEF ImportFrame
    <2>4. Retopped(s, t, n, e)
      BY <1>0, <1>2, <2>0, <2>3, ImportShapes
    <2>5. Asked(p, f) = t /\ Top(t) = e
      BY <1>2, <2>0, <2>4 DEF Asked, Retopped, Top
    <2>6. e.todo \subseteq Imports[e.file]
      BY <2>2, <2>3
    <2> HIDE DEF e, fr
    <2>7. Ordered(t)
      <3>1. e.file = Top(s).file /\ s \in Seq(ImportFrame) /\ s # <<>> /\ Ordered(s)
        BY <1>0, <1>2, <2>0, <2>3 DEF fr
      <3> QED
        BY <2>0, <2>3, <2>6, <3>1, OrderedSetTop
    <2>8. \A i \in DOMAIN s : s[i].file # f
      BY <1>0, <1>2, <2>0, <2>2, ImportStackDistinct DEF fr
    <2>9. ASSUME NEW i \in DOMAIN s PROVE f \in Under(s[i].file)
      <3>1. CASE i = n
        BY <2>1, <2>2, <3>1, UnderClosed
      <3>2. CASE i # n
        <4>1. i < n
          BY <2>1, <3>2, Indices
        <4>2. fr.file \in Under(s[i].file)
          BY <1>0, <2>0, <2>1, <4>1 DEF Ordered
        <4>3. s[i].file \in Files
          BY <2>0, ImportFiles
        <4> QED
          BY <2>2, <4>2, <4>3, UnderClosed
      <3> QED
        BY <3>1, <3>2
    <2> QED
      BY <1>2, <2>0, <2>2, <2>3, <2>5, <2>7, <2>8, <2>9
  <1> QED
    BY <1>1, <1>2

\* What the running units ask for again is finished, for without circles it is
\* not further down the stack.
LEMMA AgainHolds ==
    ASSUME TypeOK, Acyclic, NEW p \in Procs, RunsInv(p), \A g \in Files : HeldInv(g), HoldsInv(p),
           NEW f \in Files, ImportAgain(p, f)
    PROVE  HoldsInv(p)'
  <1>0. PICK s, t : s = imps[p] /\ t = Asked(p, f)
    OBVIOUS
  <1>1. /\ Wants(p, f) /\ f \in imported[p] /\ imps'[p] = t /\ loaded' = Merge(p, s, f)
        /\ UNCHANGED <<src, bin, imported>>
    BY <1>0 DEF ImportAgain, fileVars, TypeOK
  <1>2. /\ s \in Seq(ImportFrame) /\ DOMAIN t = DOMAIN s
        /\ \A i \in DOMAIN s : /\ t[i].file = s[i].file /\ t[i].phase = s[i].phase
                               /\ t[i].time = s[i].time
                               /\ t[i].todo = s[i].todo \/ t[i].todo = s[i].todo \ {f}
        /\ \A i, j \in DOMAIN s : i # j => t[i].file # t[j].file
    BY <1>0, <1>1, AskedShape
  <1>3. Ordered(t) /\ \A i \in DOMAIN s : f \in Under(s[i].file) /\ s[i].file # f
    BY <1>0, <1>1, AskedTop
  <1>4. \A c \in Files : Done(p, c)' <=> Done(p, c)
    BY <1>0, <1>1, <1>2 DEF Done
  <1>5. Done(p, f)
    BY <1>0, <1>1, <1>3 DEF Done
  <1>6. \A c \in Files : Done(p, c) \/ c = f => Done(p, c)' /\ \A j \in DOMAIN s : s[j].file # c
    BY <1>0, <1>4, <1>5 DEF Done
  <1>7. \A i \in DOMAIN s : Holds(p, s[i]) /\ s[i].file \in Files
    BY <1>0, ImportFiles DEF HoldsInv
  <1>8. \A x \in loaded[p][f] : x[1] \in Reach(f) /\ x[2] <= src[x[1]].ver
    BY <1>5, DoneHolds
  <1>9. \A i, j \in DOMAIN s : i # j => s[i].file # s[j].file
    BY <1>2
  <1>10. ASSUME NEW i \in DOMAIN t PROVE Holds(p, t[i])'
    <2>0. PICK a : a = t[i]
      OBVIOUS
    <2>1. /\ a.file = s[i].file /\ a.phase = s[i].phase /\ a.time = s[i].time
          /\ a.todo = s[i].todo \/ (a.todo = s[i].todo \ {f} /\ f \in imported'[p])
      BY <1>1, <1>2, <2>0
    <2>2. s[i].file \in Files /\ Holds(p, s[i]) /\ f \in Under(s[i].file) /\ i \in DOMAIN s
      BY <1>2, <1>3, <1>7
    <2>3. /\ imported[p] \subseteq imported'[p] /\ UNCHANGED src /\ bin'[s[i].file] = bin[s[i].file]
          /\ s \in Seq(ImportFrame) /\ loaded' = Merge(p, s, f)
      BY <1>1, <1>2
    <2> HIDE <1>1, <1>2, <1>3, <1>4, <1>7
    <2>4. Holds(p, a)'
      BY <1>6, <1>8, <1>9, <2>1, <2>2, <2>3, HoldsMerged
    <2> QED
      BY <2>0, <2>4
  <1>11. ASSUME NEW g \in Files, Done(p, g)' PROVE Finished(p, g)'
    <2>1. Finished(p, g) /\ \A j \in DOMAIN s : s[j].file # g
      BY <1>4, <1>6, <1>11 DEF HoldsInv
    <2>2. loaded'[p][g] = loaded[p][g]
      BY <1>1, <1>2, <2>1, FinishedMerged
    <2> QED
      BY <1>1, <1>4, <2>1, <2>2, FinishedKept
  <1> QED
    BY <1>1, <1>3, <1>10, <1>11, HoldsChange

\* The first import of a file has nothing yet.
LEMMA FirstHolds ==
    ASSUME TypeOK, Acyclic, NEW p \in Procs, RunsInv(p), HoldsInv(p),
           NEW f \in Files, ImportFirst(p, f)
    PROVE  HoldsInv(p)'
  <1>0. PICK s, a, t, n : s = imps[p] /\ a = Asked(p, f) /\ t = imps'[p] /\ n = Len(a) + 1
    OBVIOUS
  <1>1. /\ Wants(p, f) /\ imported'[p] = imported[p] \cup {f}
        /\ UNCHANGED <<src, bin, loaded>>
        /\ a \in Seq(ImportFrame) /\ DOMAIN a = DOMAIN s
        /\ \A g \in Files : Done(p, g)' <=> Done(p, g)
    BY <1>0, FirstShape
  <1>2. PICK e \in ImportFrame :
           e.file = f /\ e.phase = "check" /\ e.todo = {} /\ t = Append(a, e) /\ Pushed(a, t, n, e)
    BY <1>0, FirstShape
  <1>3. \A i \in DOMAIN s : /\ a[i].file = s[i].file /\ a[i].phase = s[i].phase
                            /\ a[i].time = s[i].time
                            /\ a[i].todo = s[i].todo \/ a[i].todo = s[i].todo \ {f}
    BY <1>0, <1>1, AskedShape
  <1>4. Ordered(t)
    <2>1. \A x \in ImportFrame : x.file \in Files
      BY DEF ImportFrame
    <2>2. Ordered(a) /\ (a # <<>> => e.file \in Imports[Top(a).file]) /\ e.todo \subseteq Imports[e.file]
      BY <1>0, <1>1, <1>2, AskedTop
    <2> QED
      BY <1>1, <1>2, <2>1, <2>2, OrderedPush
  <1>5. ASSUME NEW i \in DOMAIN t PROVE Holds(p, t[i])'
    <2>1. i = n \/ (i \in DOMAIN s /\ t[i] = a[i])
      BY <1>1, <1>2 DEF Pushed
    <2>2. CASE i = n
      <3>1. t[i] = e
        BY <1>2, <2>2 DEF Pushed
      <3>2. Holds(p, e)'
        BY <1>2 DEF Holds
      <3> QED
        BY <3>1, <3>2
    <2>3. CASE i \in DOMAIN s /\ t[i] = a[i]
      <3>0. PICK e2 : e2 = a[i]
        OBVIOUS
      <3>1. Holds(p, s[i]) /\ s[i].file \in Files
        BY <1>0, <2>3, ImportFiles DEF HoldsInv
      <3>2. /\ e2.file = s[i].file /\ e2.phase = s[i].phase /\ e2.time = s[i].time
            /\ e2.todo = s[i].todo \/ (e2.todo = s[i].todo \ {f} /\ f \in imported'[p])
            /\ imported[p] \subseteq imported'[p]
        BY <1>1, <1>3, <2>3, <3>0
      <3>3. Holds(p, e2)'
        BY <1>1, <3>1, <3>2, HoldsKept
      <3> QED
        BY <2>3, <3>0, <3>3
    <2> QED
      BY <2>1, <2>2, <2>3
  <1>6. \A g \in Files : Done(p, g)' => Finished(p, g)'
    BY <1>1, FinishedKept DEF HoldsInv
  <1> QED
    BY <1>0, <1>4, <1>5, <1>6, HoldsChange

\* A file that is about to return has all its imports finished.
LEMMA ReturnFinishes ==
    ASSUME TypeOK, Acyclic, NEW p \in Procs, HoldsInv(p), imps[p] # <<>>,
           NEW f0, f0 = Top(imps[p]).file, f0 \in Files,
           Top(imps[p]).phase # "check", Top(imps[p]).todo = {}
    PROVE  \A c \in Imports[f0] : c \in Files /\ c # f0 /\ Done(p, c)
  <1>0. PICK s : s = imps[p]
    OBVIOUS
  <1>1. s \in Seq(ImportFrame) /\ s # <<>> /\ Ordered(s)
    BY <1>0 DEF TypeOK, HoldsInv
  <1>2. Len(s) \in DOMAIN s /\ Top(s) = s[Len(s)]
    BY <1>1, ImportStackFacts
  <1>3. Holds(p, Top(s))
    BY <1>0, <1>2 DEF HoldsInv
  <1>4. \A i \in DOMAIN s : s[i].file \notin Imports[f0]
    BY <1>0, <1>1, ImportStackDistinct
  <1>5. Imports[f0] \subseteq imported[p]
    BY <1>0, <1>3 DEF Holds
  <1>6. Imports[f0] \subseteq Files
    BY ImportsAssumption
  <1> QED
    BY <1>0, <1>2, <1>4, <1>5, <1>6 DEF Done

\* The return of an import: what it holds goes to the caller, and it is what
\* its binary holds.
LEMMA ReturnHolds ==
    ASSUME TypeOK, Acyclic, NEW p \in Procs, IdleInv(p), ChecksInv(p), RunsInv(p),
           \A g \in Files : HeldInv(g), GoodInv(p), HoldsInv(p), Rename(p) \/ BinaryDone(p)
    PROVE  HoldsInv(p)'
  <1>0. PICK s, t, n, fr, f0 : s = imps[p] /\ t = imps'[p] /\ n = Len(s) /\ fr = Top(s) /\ f0 = fr.file
    OBVIOUS
  <1>1. /\ ~Checking(p) /\ s # <<>>
        /\ UNCHANGED <<src, import_state, imported>>
        /\ Popped(s, t, n) /\ f0 \in Files /\ fr.time \in Nat
        /\ \A i \in DOMAIN t : t[i].file # f0
        /\ \A f \in Files : Done(p, f)' <=> (Done(p, f) \/ f = f0)
        /\ ~Done(p, f0)
    BY <1>0, ReturnShape
  <1>2. /\ s \in Seq(ImportFrame) /\ t \in Seq(ImportFrame) /\ t = Pop(s)
        /\ n \in Nat \ {0} /\ n \in DOMAIN s /\ DOMAIN s = 1..n /\ fr = s[n]
    <2>1. s \in Seq(ImportFrame) /\ t = Pop(s)
      BY <1>0 DEF TypeOK, Rename, BinaryDone, ImportReturn
    <2> QED
      BY <1>0, <1>1, <2>1, ImportStackFacts
  <1>3. Holds(p, fr) /\ Ran(p, fr)
    BY <1>0, <1>2 DEF HoldsInv, RunsInv
  <1>4. loaded' = Merge(p, t, f0)
    BY <1>0, <1>2 DEF Rename, BinaryDone, ImportReturn
  <1>5. fr.phase \in {"closed", "binary"} /\ fr.todo = {}
    BY <1>0, <1>3 DEF Rename, BinaryDone, Holds
  <1>6. \A g \in Files : g # f0 => bin'[g] = bin[g]
    BY <1>0 DEF Rename, BinaryDone, fileVars, TypeOK
  <1>7. \A c \in Imports[f0] : c \in Files /\ c # f0 /\ Done(p, c)
    BY <1>0, <1>1, <1>5, ReturnFinishes
  <1>8. \A x \in loaded[p][f0] : x[1] \in Reach(f0) /\ x[2] <= src[x[1]].ver
    BY <1>0, <1>1, <1>3, <1>5, FrameHolds
  <1>9. /\ \A i, j \in DOMAIN t : i # j => t[i].file # t[j].file
        /\ \A i \in DOMAIN t : i \in DOMAIN s /\ t[i] = s[i] /\ i # n
    BY <1>0, <1>1 DEF RunsInv, Popped
  <1>10. \A c \in Files : Done(p, c) \/ c = f0 => Done(p, c)' /\ \A j \in DOMAIN t : t[j].file # c
    BY <1>0, <1>1, <1>9 DEF Done
  <1>11. Ordered(t)
    BY <1>0, <1>1, <1>2, OrderedPop DEF HoldsInv
  <1>12. ASSUME NEW i \in DOMAIN t PROVE Holds(p, t[i])'
    <2>1. i < n
      BY <1>2, <1>9, Indices
    <2>2. f0 \in Under(t[i].file)
      BY <1>0, <1>2, <1>9, <2>1 DEF HoldsInv, Ordered
    <2>3. t[i].file \in Files /\ Holds(p, t[i]) /\ bin'[t[i].file] = bin[t[i].file]
      <3>1. s[i].file \in Files /\ Holds(p, s[i]) /\ t[i] = s[i]
        BY <1>0, <1>9, ImportFiles DEF HoldsInv
      <3> QED
        BY <1>1, <1>6, <3>1
    <2>4. imported[p] \subseteq imported'[p] /\ UNCHANGED src
      BY <1>1
    <2>5. PICK a : a = t[i]
      OBVIOUS
    <2>6. /\ a.file = t[i].file /\ a.phase = t[i].phase /\ a.time = t[i].time
          /\ a.todo = t[i].todo
      BY <2>5
    <2>7. t \in Seq(ImportFrame) /\ f0 \in Files /\ \A i1, j1 \in DOMAIN t : i1 # j1 => t[i1].file # t[j1].file
      BY <1>1, <1>2, <1>9
    <2> HIDE <1>1, <1>2, <1>3, <1>5, <1>6, <1>7, <1>9, <1>11
    <2>8. Holds(p, a)'
      BY <1>4, <1>8, <1>10, <2>2, <2>3, <2>4, <2>6, <2>7, HoldsMerged
    <2> QED
      BY <2>5, <2>8
  <1>13. \A c \in Files : Done(p, c) => Done(p, c)' /\ bin'[c] = bin[c] /\ loaded'[p][c] = loaded[p][c]
    BY <1>1, <1>2, <1>4, <1>6, <1>10, FinishedMerged
  <1>14. Finished(p, f0)'
    <2>1. loaded'[p][f0] = loaded[p][f0]
      BY <1>1, <1>2, <1>4, FinishedMerged
    <2>2. \A c \in Imports[f0] : c \in Files /\ Done(p, c)' /\ bin'[c] = bin[c]
      BY <1>7, <1>13
    <2>3. CASE Rename(p)
      <3>1. /\ fr.phase = "closed"
            /\ bin' = [bin EXCEPT ![f0] = [exists |-> TRUE, magic |-> TRUE,
                                           time |-> fr.time, prov |-> loaded[p][f0]]]
        BY <1>0, <2>3 DEF Rename
      <3>2. /\ bin'[f0].exists /\ bin'[f0].magic /\ bin'[f0].prov = loaded[p][f0]
            /\ bin'[f0].time = fr.time
        BY <1>1, <3>1 DEF TypeOK
      <3>3. \A c \in Imports[f0] : bin[c].time <= fr.time
        <4>1. \A c \in Files : bin[c].time < fr.time
          BY <1>3, <3>1 DEF Ran
        <4>2. \A c \in Files : bin[c].time \in Nat
          BY FileTimes
        <4> QED
          BY <1>1, <1>7, <4>1, <4>2
      <3> QED
        BY <2>1, <2>2, <3>2, <3>3 DEF Finished
    <2>4. CASE BinaryDone(p)
      <3>1. fr.phase = "binary" /\ bin' = bin
        BY <1>0, <2>4 DEF BinaryDone, fileVars
      <3>2. Sound(p, f0) /\ loaded[p][f0] = bin[f0].prov
        BY <1>0, <1>1, <1>3, <3>1 DEF Ran, Holds, GoodInv
      <3> QED
        BY <2>1, <2>2, <3>1, <3>2 DEF Finished, Sound
    <2> QED
      BY <2>3, <2>4
  <1>15. ASSUME NEW g \in Files, Done(p, g)' PROVE Finished(p, g)'
    <2>1. CASE g = f0
      BY <1>14, <2>1
    <2>2. CASE g # f0
      <3>1. Done(p, g) /\ Finished(p, g)
        BY <1>1, <1>15, <2>2 DEF HoldsInv
      <3> QED
        BY <1>13, <3>1, FinishedKept
    <2> QED
      BY <2>1, <2>2
  <1> QED
    BY <1>0, <1>11, <1>12, <1>15, HoldsChange

(***************************************************************************)
(* What is settled: what the binaries hold.                                 *)
(***************************************************************************)

\* A new binary holds what the binaries below it do.  What reaches it is not
\* whole any more until it has been written again too.
LEMMA RenameHeld ==
    ASSUME TypeOK, Acyclic, NEW p \in Procs, IdleInv(p), ChecksInv(p), RunsInv(p),
           \A g \in Files : HeldInv(g), GoodInv(p), HoldsInv(p), Rename(p), NEW f \in Files
    PROVE  HeldInv(f)'
  <1>0. PICK fr, f0 : fr = Top(imps[p]) /\ f0 = fr.file
    OBVIOUS
  <1>1. /\ ~Checking(p) /\ imps[p] # <<>> /\ f0 \in Files /\ fr.time \in Nat
        /\ UNCHANGED src
    BY <1>0, ReturnShape
  <1>2. /\ fr.phase = "closed"
        /\ bin' = [bin EXCEPT ![f0] = [exists |-> TRUE, magic |-> TRUE,
                                       time |-> fr.time, prov |-> loaded[p][f0]]]
    BY <1>0 DEF Rename
  <1>3. /\ bin'[f0].time = fr.time /\ bin'[f0].prov = loaded[p][f0]
        /\ \A g \in Files : g # f0 => bin'[g] = bin[g]
    BY <1>1, <1>2 DEF TypeOK
  <1>4. Ran(p, fr) /\ Holds(p, fr)
    BY <1>0, <1>1, VerdictImport DEF HoldsInv
  <1>5. CASE f = f0
    <2>1. ASSUME NEW x \in loaded[p][f0]
          PROVE  x[1] \in Reach(f0) /\ x[2] <= src[x[1]].ver /\ x \in bin'[x[1]].prov
      <3>1. x[1] \in Reach(f0) /\ x[2] <= src[x[1]].ver
        BY <1>0, <1>1, <1>2, <1>4, FrameHolds
      <3>2. CASE x[1] = f0
        BY <1>3, <3>1, <3>2
      <3>3. CASE x[1] # f0
        <4>1. PICK c \in Under(f0) : Done(p, c) /\ x \in loaded[p][c]
          BY <1>0, <1>2, <1>4, <3>3 DEF Holds
        <4>2. c \in Files /\ Reach(c) \subseteq Under(f0)
          BY <1>1, UnderReach
        <4>3. Whole(c) /\ x \in bin[c].prov
          BY <4>1, <4>2, DoneIsWhole DEF HoldsInv, Finished
        <4>4. x[1] \in Reach(c) /\ x \in bin[x[1]].prov
          BY <4>2, <4>3 DEF HeldInv
        <4>5. x[1] \in Files
          BY <4>2, <4>4, ReachClosed
        <4> QED
          BY <1>3, <3>1, <3>3, <4>4, <4>5
      <3> QED
        BY <3>2, <3>3
    <2>2. \A x, y \in loaded[p][f0] : x[1] = f0 /\ y[1] = f0 => x = y
      BY <1>0, <1>2, <1>4 DEF Holds
    <2>3. <<f0, src[f0].ver>> \in loaded[p][f0] => src[f0].time <= fr.time
      BY <1>0, <1>2, <1>4 DEF Holds
    <2> QED
      BY <1>1, <1>3, <1>5, <2>1, <2>2, <2>3 DEF HeldInv
  <1>6. CASE f # f0
    <2>1. bin'[f] = bin[f]
      BY <1>3, <1>6
    <2>2. ASSUME Whole(f)', NEW x \in bin[f].prov PROVE x[1] \in Reach(f) /\ x \in bin'[x[1]].prov
      <3>1. f0 \notin Reach(f)
        <4> SUFFICES ASSUME f0 \in Reach(f) PROVE FALSE
          OBVIOUS
        <4>1. PICK h \in Reach(f) : h # f0 /\ f0 \in Imports[h]
          BY <1>6, Importer
        <4>2. h \in Files
          BY ReachClosed
        <4>3. bin'[f0].time <= bin'[h].time
          BY <2>2, <4>1 DEF Whole
        <4>4. bin'[f0].time = fr.time /\ bin'[h].time = bin[h].time /\ bin[h].time < fr.time
          BY <1>2, <1>3, <1>4, <4>1, <4>2 DEF Ran
        <4>5. bin[h].time \in Nat
          BY <4>2, FileTimes
        <4> QED
          BY <1>1, <4>3, <4>4, <4>5
      <3>2. \A g \in Reach(f) : g \in Files /\ bin'[g] = bin[g] /\ \A c \in Imports[g] : bin'[c] = bin[c]
        BY <1>3, <3>1, ReachClosed
      <3>3. Whole(f)
        BY <2>2, <3>2 DEF Whole
      <3>4. x[1] \in Reach(f) /\ x \in bin[x[1]].prov
        BY <2>2, <3>3 DEF HeldInv
      <3> QED
        BY <3>2, <3>4
    <2> QED
      BY <1>1, <2>1, <2>2 DEF HeldInv
  <1> QED
    BY <1>5, <1>6

\* Binaries and sources that do not change hold what they did.
LEMMA HeldSame ==
    ASSUME UNCHANGED <<src, bin>>, NEW f \in Files, HeldInv(f)
    PROVE  HeldInv(f)'
  BY DEF HeldInv, Whole

\* A binary holds sources that are files.
LEMMA ProvFiles ==
    ASSUME TypeOK, NEW f \in Files
    PROVE  /\ \A x \in bin[f].prov : x[1] \in Files /\ x[2] \in Nat
           /\ \A p \in Procs : \A x \in loaded[p][f] : x[1] \in Files /\ x[2] \in Nat
  <1>1. bin[f].prov \in Prov /\ \A p \in Procs : loaded[p][f] \in Prov
    BY DEF TypeOK, Binary
  <1>2. 1..MaxVer \subseteq Nat
    OBVIOUS
  <1> QED
    BY <1>1, <1>2 DEF Prov

\* No binary holds the version that a source gets by being changed.
LEMMA EditHeld ==
    ASSUME TypeOK, NEW g \in Files, Edit(g) \/ Remove(g), NEW f \in Files, HeldInv(f)
    PROVE  HeldInv(f)'
  <1>1. UNCHANGED bin
    BY SourceGrows
  <1>2. Whole(f)' => \A x \in bin'[f].prov : x[1] \in Reach(f) /\ x \in bin'[x[1]].prov
    BY <1>1 DEF HeldInv, Whole
  <1>3. ASSUME NEW x \in bin[f].prov PROVE x[2] <= src'[x[1]].ver
    <2>1. x[1] \in Files /\ x[2] \in Nat
      BY ProvFiles
    <2>2. src'[x[1]].ver = src[x[1]].ver \/ src'[x[1]].ver = src[x[1]].ver + 1
      BY <2>1, SourceGrows
    <2>3. x[2] <= src[x[1]].ver /\ src[x[1]].ver \in Nat
      BY <2>1, FileTimes DEF HeldInv
    <2> QED
      BY <2>1, <2>2, <2>3
  <1>4. ASSUME <<f, src'[f].ver>> \in bin[f].prov PROVE src'[f].time <= bin[f].time
    <2>1. src'[f].ver # src[f].ver + 1
      <3>1. <<f, src'[f].ver>>[2] <= src[<<f, src'[f].ver>>[1]].ver
        BY <1>4 DEF HeldInv
      <3>2. src'[f].ver <= src[f].ver
        BY <3>1
      <3>3. ~(src[f].ver + 1 <= src[f].ver)
        BY FileTimes
      <3> QED
        BY <3>2, <3>3
    <2>2. src'[f].ver = src[f].ver /\ src'[f].time = src[f].time
      BY <2>1, SourceGrows
    <2> QED
      BY <1>4, <2>2 DEF HeldInv
  <1> QED
    BY <1>1, <1>2, <1>3, <1>4 DEF HeldInv

\* A loss of power empties binaries, and what reaches them is not whole.
LEMMA PowerHeld ==
    ASSUME TypeOK, PowerLoss, NEW f \in Files, HeldInv(f)
    PROVE  HeldInv(f)'
  <1>1. PICK lost \in SUBSET Files :
           bin' = [g \in Files |-> IF g \in lost THEN [bin[g] EXCEPT !.magic = FALSE, !.prov = {}]
                                   ELSE bin[g]]
    BY DEF PowerLoss
  <1>2. UNCHANGED src
    BY DEF PowerLoss
  <1>3. CASE \A g \in Reach(f) : g \notin lost
    <2>1. \A g \in Reach(f) : g \in Files /\ bin'[g] = bin[g] /\ \A c \in Imports[g] : bin'[c] = bin[c]
      BY <1>1, <1>3, ReachClosed
    <2>2. f \in Reach(f)
      BY ReachClosed
    <2>3. Whole(f)' => Whole(f)
      BY <2>1 DEF Whole
    <2> QED
      BY <1>2, <2>1, <2>2, <2>3 DEF HeldInv
  <1>4. CASE \E g \in Reach(f) : g \in lost
    <2>1. PICK g \in Reach(f) : g \in lost
      BY <1>4
    <2>2. g \in Files
      BY ReachClosed
    <2>3. bin'[g] = [bin[g] EXCEPT !.magic = FALSE, !.prov = {}]
      BY <1>1, <2>1, <2>2
    <2>4. ~Whole(f)'
      <3>1. ASSUME bin'[g].magic PROVE FALSE
        BY <2>2, <2>3, <3>1 DEF TypeOK, Binary
      <3> QED
        BY <2>1, <3>1 DEF Whole
    <2>5. bin'[f].prov \subseteq bin[f].prov /\ (bin'[f].prov # {} => bin'[f] = bin[f])
      <3>1. bin'[f] = [bin[f] EXCEPT !.magic = FALSE, !.prov = {}] \/ bin'[f] = bin[f]
        BY <1>1
      <3>2. bin[f] \in Binary
        BY DEF TypeOK
      <3> QED
        BY <3>1, <3>2 DEF Binary
    <2> QED
      BY <1>2, <2>4, <2>5 DEF HeldInv
  <1> QED
    BY <1>3, <1>4

(***************************************************************************)
(* The invariant of what is settled, and its theorems.                      *)
(***************************************************************************)

\* A process with empty maps has imported nothing.
LEMMA IdleSettledNext ==
    ASSUME NEW p \in Procs, checks'[p] = <<>>, imps'[p] = <<>>, imported'[p] = {},
           \A f \in Files : import_state'[p][f] = "none"
    PROVE  GoodInv(p)' /\ HoldsInv(p)'
  <1>1. DOMAIN <<>> = {}
    BY EmptySeq, LenProperties
  <1>2. Ordered(<<>>)
    BY <1>1 DEF Ordered
  <1>3. GoodInv(p)'
    <2>1. \A i \in DOMAIN <<>> : Handled(p, <<>>[i])'
      BY <1>1
    <2> QED
      BY <1>2, <2>1, GoodChange
  <1>4. HoldsInv(p)'
    <2>1. \A i \in DOMAIN <<>> : Holds(p, <<>>[i])'
      BY <1>1
    <2>2. \A f \in Files : ~Done(p, f)'
      BY DEF Done
    <2> QED
      BY <1>2, <2>1, <2>2, HoldsChange
  <1> QED
    BY <1>3, <1>4

\* A source that changes leaves what has been loaded from it as it was.
LEMMA EditHolds ==
    ASSUME TypeOK, Acyclic, NEW p \in Procs, GoodInv(p), HoldsInv(p), NEW g \in Files, Edit(g) \/ Remove(g)
    PROVE  GoodInv(p)' /\ HoldsInv(p)'
  <1>1. /\ UNCHANGED <<bin, imported, loaded, imps, checks, import_state>>
        /\ \A f \in Files : \/ src'[f].ver = src[f].ver /\ src'[f].time = src[f].time
                            \/ src'[f].ver = src[f].ver + 1
    BY SourceGrows DEF procVars
  <1>2. GoodInv(p)'
    BY <1>1, GoodKept
  <1>3. PICK s : s = imps[p]
    OBVIOUS
  <1>4. \A f \in Files : Done(p, f)' <=> Done(p, f)
    BY <1>1 DEF Done
  <1>5. ASSUME NEW i \in DOMAIN s PROVE Holds(p, s[i])'
    <2>0. PICK fr : fr = s[i]
      OBVIOUS
    <2>1. Holds(p, fr) /\ fr.file \in Files /\ Under(fr.file) \subseteq Files
      BY <1>3, <2>0, ImportFiles, UnderReach DEF HoldsInv
    <2>2. ASSUME fr.phase \in {"compile", "closed"}, NEW x \in loaded[p][fr.file]
          PROVE  x[2] <= src'[x[1]].ver /\ ~(x[2] = src[x[1]].ver + 1)
      <3>1. x[1] \in Files /\ x[2] \in Nat /\ x[2] <= src[x[1]].ver
        BY <2>1, <2>2, ProvFiles DEF Holds
      <3>2. src'[x[1]].ver = src[x[1]].ver \/ src'[x[1]].ver = src[x[1]].ver + 1
        BY <1>1, <3>1
      <3>3. src[x[1]].ver \in Nat
        BY <3>1, FileTimes
      <3> QED
        BY <3>1, <3>2, <3>3
    <2>3. ASSUME fr.phase = "closed", <<fr.file, src'[fr.file].ver>> \in loaded[p][fr.file]
          PROVE  src'[fr.file].time <= fr.time
      <3>1. src'[fr.file].ver # src[fr.file].ver + 1
        <4>1. PICK x : x = <<fr.file, src'[fr.file].ver>>
          OBVIOUS
        <4>2. x \in loaded[p][fr.file] /\ x[1] = fr.file /\ x[2] = src'[fr.file].ver
          BY <2>3, <4>1
        <4> QED
          BY <2>2, <2>3, <4>2
      <3>2. src'[fr.file].ver = src[fr.file].ver /\ src'[fr.file].time = src[fr.file].time
        BY <1>1, <2>1, <3>1
      <3> QED
        BY <2>1, <2>3, <3>2 DEF Holds
    <2>4. ASSUME fr.phase \in {"compile", "closed"}
          PROVE  /\ \A x \in loaded'[p][fr.file] :
                      /\ x[2] <= src'[x[1]].ver
                      /\ x[1] = fr.file \/ \E c \in Under(fr.file) : Done(p, c)' /\ x \in loaded'[p][c]
                 /\ \A x, y \in loaded'[p][fr.file] : x[1] = fr.file /\ y[1] = fr.file => x = y
      <3>1. \A x \in loaded[p][fr.file] : x[2] <= src'[x[1]].ver
        BY <2>2, <2>4
      <3>2. loaded' = loaded
        BY <1>1
      <3>3. \A c \in Under(fr.file) : Done(p, c)' <=> Done(p, c)
        BY <1>4, <2>1
      <3> QED
        BY <2>1, <2>4, <3>1, <3>2, <3>3 DEF Holds
    <2>5. Holds(p, fr)'
      BY <1>1, <2>1, <2>3, <2>4 DEF Holds
    <2> QED
      BY <2>0, <2>5
  <1>6. ASSUME NEW f \in Files, Done(p, f)' PROVE Finished(p, f)'
    <2>1. Finished(p, f)
      BY <1>4, <1>6 DEF HoldsInv
    <2> QED
      BY <1>1, <1>4, <2>1, FinishedKept
  <1>7. HoldsInv(p)'
    BY <1>1, <1>3, <1>5, <1>6, HoldsChange DEF HoldsInv
  <1> QED
    BY <1>2, <1>7

\* Every step of the one compiler.
LEMMA StepSettled ==
    ASSUME TypeOK, Acyclic, NEW p \in Procs, IdleInv(p), ChecksInv(p), RunsInv(p), BadInv(p),
           \A f \in Files : HeldInv(f), GoodInv(p), HoldsInv(p), Step(p)
    PROVE  GoodInv(p)' /\ HoldsInv(p)' /\ \A f \in Files : HeldInv(f)'
  <1> DEFINE Kept == GoodInv(p)' /\ HoldsInv(p)' /\ \A f \in Files : HeldInv(f)'
  <1>1. ASSUME NEW c \in Files, CheckStat(p) \/ CheckOpen(p) \/ CheckImport(p, c) \/ CheckDone(p)
        PROVE  Kept
    <2>1. UNCHANGED <<src, bin, imported, loaded, imps>>
      BY <1>1 DEF CheckStat, CheckOpen, CheckImport, CheckDone, fileVars
    <2> QED
      BY <1>1, <2>1, CheckGood, HoldsSame, HeldSame
  <1>2. CASE CheckStat(p) \/ CheckOpen(p) \/ CheckDone(p)
    <2>1. Top(checks[p]).file \in Files
      BY <1>2, VerdictCheck DEF CheckStat, CheckOpen, CheckDone
    <2> QED
      BY <1>1, <1>2, <2>1
  <1>3. ASSUME NEW f \in Files, ImportAgain(p, f) PROVE Kept
    <2>1. UNCHANGED <<src, bin, checks, import_state>>
      BY <1>3 DEF ImportAgain, fileVars
    <2> QED
      BY <1>3, <2>1, AgainHolds, GoodKept, HeldSame
  <1>4. ASSUME NEW f \in Files, ImportFirst(p, f) PROVE Kept
    <2>1. checks[p] = <<>> /\ UNCHANGED <<src, bin>>
      BY <1>4, FirstShape
    <2>2. GoodInv(p)'
      <3>1. CASE import_state[p][f] = "none"
        <4>1. /\ checks' = [checks EXCEPT ![p] = <<CheckCall(f)>>]
              /\ import_state' = [import_state EXCEPT ![p][f] = "unknown"]
          BY <1>4, <3>1 DEF ImportFirst
        <4>2. <<CheckCall(f)>> = Append(checks[p], CheckCall(f))
          BY <2>1
        <4> QED
          BY <2>1, <3>1, <4>1, <4>2, GoodIsCalled
      <3>2. CASE import_state[p][f] # "none"
        <4>1. UNCHANGED <<checks, import_state>>
          BY <1>4, <3>2 DEF ImportFirst
        <4> QED
          BY <2>1, <4>1, GoodKept
      <3> QED
        BY <3>1, <3>2
    <2> QED
      BY <1>4, <2>1, <2>2, FirstHolds, HeldSame
  <1>5. CASE OpenBinary(p) \/ OpenSource(p) \/ CloseBinary(p)
    <2>1. UNCHANGED <<src, bin, checks, import_state>>
      BY <1>5 DEF OpenBinary, OpenSource, CloseBinary, fileVars
    <2> QED
      BY <1>5, <2>1, OpenHolds, GoodKept, HeldSame
  <1>6. CASE Rename(p)
    <2>1. /\ ~Checking(p) /\ imps[p] # <<>> /\ UNCHANGED <<checks, import_state>>
      BY <1>6, ReturnShape
    <2>2. import_state[p][Top(imps[p]).file] = "bad" /\ Top(imps[p]).file \in Files
      BY <1>6, <2>1, VerdictImport DEF Rename, Ran
    <2>3. \A g \in Files : import_state[p][g] = "good" => bin'[g] = bin[g]
      BY <1>6, <2>2 DEF Rename, TypeOK
    <2> QED
      BY <1>6, <2>1, <2>3, ReturnHolds, GoodKept, RenameHeld
  <1>7. CASE BinaryDone(p)
    <2>1. UNCHANGED <<src, bin, checks, import_state>>
      BY <1>7 DEF BinaryDone, fileVars
    <2> QED
      BY <1>7, <2>1, ReturnHolds, GoodKept, HeldSame
  <1>8. CASE Finish(p) \/ NotFound(p)
    <2>1. UNCHANGED <<src, bin>>
      BY <1>8 DEF Finish, NotFound, fileVars
    <2>2. GoodInv(p)' /\ HoldsInv(p)'
      BY <1>8, IdleSettledNext DEF Finish, NotFound, Exit
    <2> QED
      BY <2>1, <2>2, HeldSame
  <1> HIDE DEF Kept
  <1>9. ASSUME NEW f \in Files, CheckImport(p, f) PROVE Kept
    BY <1>1, <1>9
  <1>10. Kept
    BY <1>2, <1>3, <1>4, <1>5, <1>6, <1>7, <1>8, <1>9 DEF Step, Kept
  <1> QED
    BY <1>10 DEF Kept

\* Before the first compiler runs there are no binaries.
LEMMA InitSettled == Init => SettledInv
  <1> SUFFICES ASSUME Init PROVE SettledInv
    OBVIOUS
  <1>1. DOMAIN <<>> = {}
    BY EmptySeq, LenProperties
  <1>2. ASSUME NEW p \in Procs PROVE GoodInv(p) /\ HoldsInv(p)
    <2>1. checks[p] = <<>> /\ imps[p] = <<>> /\ imported[p] = {} /\ \A f \in Files : import_state[p][f] = "none"
      BY DEF Init
    <2> QED
      BY <1>1, <2>1 DEF GoodInv, HoldsInv, Ordered, Done
  <1>3. ASSUME NEW f \in Files PROVE HeldInv(f)
    <2>1. bin[f].prov = {}
      BY DEF Init, NoBinary
    <2> QED
      BY <2>1 DEF HeldInv
  <1> QED
    BY <1>2, <1>3, InitVerdict DEF SettledInv

\* Every step of the system keeps the invariant.
LEMMA NextSettled == Alone /\ Acyclic /\ SettledInv /\ [Next]_vars => SettledInv'
  <1> SUFFICES ASSUME Alone, Acyclic, SettledInv, [Next]_vars PROVE SettledInv'
    OBVIOUS
  <1>1. VerdictInv' /\ TypeOK
    BY NextVerdict DEF SettledInv, VerdictInv
  <1>2. CASE \E p \in Procs : Step(p)
    <2>1. PICK p \in Procs : Step(p)
      BY <1>2
    <2>2. GoodInv(p)' /\ HoldsInv(p)' /\ \A f \in Files : HeldInv(f)'
      BY <1>1, <2>1, StepSettled DEF SettledInv, VerdictInv
    <2>3. \A q \in Procs : q = p
      BY DEF Alone
    <2> QED
      BY <1>1, <2>2, <2>3 DEF SettledInv
  <1>3. CASE \E p \in Procs : Start(p) \/ Kill(p)
    <2>1. PICK p \in Procs : Start(p) \/ Kill(p)
      BY <1>3
    <2>2. UNCHANGED <<src, bin>>
      BY <2>1 DEF Start, Kill, fileVars
    <2>3. GoodInv(p)' /\ HoldsInv(p)'
      <3>1. CASE Start(p)
        <4>1. UNCHANGED <<src, bin, imported, loaded, imps, checks, import_state>>
          BY <3>1 DEF Start, fileVars
        <4> QED
          BY <1>1, <4>1, HoldsSame, GoodKept DEF SettledInv
      <3>2. CASE Kill(p)
        BY <3>2, IdleSettledNext DEF Kill, Exit
      <3> QED
        BY <2>1, <3>1, <3>2
    <2>4. \A q \in Procs : q = p
      BY DEF Alone
    <2>5. \A f \in Files : HeldInv(f)'
      BY <2>2, HeldSame DEF SettledInv
    <2> QED
      BY <1>1, <2>3, <2>4, <2>5 DEF SettledInv
  <1>4. CASE \E f \in Files : Edit(f) \/ Remove(f)
    <2>1. PICK g \in Files : Edit(g) \/ Remove(g)
      BY <1>4
    <2>2. \A p \in Procs : GoodInv(p)' /\ HoldsInv(p)'
      BY <1>1, <2>1, EditHolds DEF SettledInv
    <2>3. \A f \in Files : HeldInv(f)'
      BY <1>1, <2>1, EditHeld DEF SettledInv
    <2> QED
      BY <1>1, <2>2, <2>3 DEF SettledInv
  <1>5. CASE PowerLoss
    <2>1. \A p \in Procs : GoodInv(p)' /\ HoldsInv(p)'
      BY <1>5, IdleSettledNext DEF PowerLoss, Exit
    <2>2. \A f \in Files : HeldInv(f)'
      BY <1>1, <1>5, PowerHeld DEF SettledInv
    <2> QED
      BY <1>1, <2>1, <2>2 DEF SettledInv
  <1>6. CASE UNCHANGED vars
    <2>1. UNCHANGED <<src, bin, imported, loaded, imps, checks, import_state>>
      BY <1>6 DEF vars, fileVars, procVars
    <2> QED
      BY <1>1, <2>1, HoldsSame, GoodKept, HeldSame DEF SettledInv
  <1> QED
    BY <1>2, <1>3, <1>4, <1>5, <1>6 DEF Next

\* Two finished imports hold the same of a third file, for both hold what its
\* binary does.
LEMMA SettledIsOne == SettledInv => OneVersion
  <1> SUFFICES ASSUME SettledInv, NEW p \in running, NEW f \in Files, NEW g \in Files, Done(p, f), Done(p, g),
                      NEW x \in loaded[p][f], NEW y \in loaded[p][g], x[1] = y[1]
               PROVE  x[2] = y[2]
    BY DEF OneVersion
  <1>1. p \in Procs /\ HoldsInv(p) /\ HeldInv(f) /\ HeldInv(g)
    BY DEF SettledInv, VerdictInv, TypeOK
  <1>2. /\ Whole(f) /\ loaded[p][f] = bin[f].prov
        /\ Whole(g) /\ loaded[p][g] = bin[g].prov
    BY <1>1, DoneIsWhole DEF HoldsInv, Finished
  <1>3. x[1] \in Reach(f) /\ x \in bin[x[1]].prov /\ y \in bin[x[1]].prov
    BY <1>1, <1>2 DEF HeldInv
  <1>4. x[1] \in Files
    BY <1>3, ReachClosed
  <1>5. x = y
    BY <1>3, <1>4 DEF SettledInv, HeldInv
  <1> QED
    BY <1>5

\* And they leave nothing below them to be compiled again.
LEMMA SettledIsInOrder == SettledInv => ImportSettles
  <1> SUFFICES ASSUME SettledInv, NEW p \in running, NEW f \in Files, Done(p, f), NEW g \in Reach(f)
               PROVE  /\ bin[g].exists /\ bin[g].magic
                      /\ <<g, src[g].ver>> \in loaded[p][f] => src[g].time <= bin[g].time
                      /\ \A c \in Imports[g] : bin[c].time <= bin[g].time
    BY DEF ImportSettles, Settled
  <1>1. p \in Procs /\ HoldsInv(p) /\ HeldInv(f) /\ g \in Files /\ HeldInv(g)
    BY ReachClosed DEF SettledInv, VerdictInv, TypeOK
  <1>2. Whole(f) /\ loaded[p][f] = bin[f].prov
    BY <1>1, DoneIsWhole DEF HoldsInv, Finished
  <1>3. <<g, src[g].ver>> \in loaded[p][f] => <<g, src[g].ver>> \in bin[g].prov
    <2>1. PICK x : x = <<g, src[g].ver>>
      OBVIOUS
    <2>2. x[1] = g
      BY <2>1
    <2>3. x \in bin[f].prov => x \in bin[x[1]].prov
      BY <1>1, <1>2 DEF HeldInv
    <2> QED
      BY <1>2, <2>1, <2>2, <2>3
  <1> QED
    BY <1>1, <1>2, <1>3 DEF Whole, HeldInv

\* Whatever the files import from each other without circles, and whenever
\* their sources change: no two imports that the one compiler of a tree has
\* finished were made from different versions of a third file.
THEOREM OneVersionEach == Alone /\ Acyclic => (Spec => []OneVersion)
  <1> SUFFICES ASSUME Alone, Acyclic PROVE Spec => []OneVersion
    OBVIOUS
  <1> QED
    BY InitSettled, NextSettled, SettledIsOne, PTL DEF Spec

\* And each import it has finished has left the cache in order: whole binaries,
\* none older than one it imports or than the source it was made from.
THEOREM CacheSettles == Alone /\ Acyclic => (Spec => []ImportSettles)
  <1> SUFFICES ASSUME Alone, Acyclic PROVE Spec => []ImportSettles
    OBVIOUS
  <1> QED
    BY InitSettled, NextSettled, SettledIsInOrder, PTL DEF Spec

=============================================================================
