-------------------------- MODULE ImportCacheProofs --------------------------
(***************************************************************************)
(* Theorems about ImportCache, for every tree of imports, any number of     *)
(* processes and any bounds: its types; its safety, for files that do not   *)
(* import each other in a circle and sources that do not change while a     *)
(* compiler runs, with the inductive invariant that implies FreshImports    *)
(* and HeaderAsserted; and, circles and edits included, that every step of  *)
(* a compiler brings it closer to its end.                                  *)
(***************************************************************************)
EXTENDS ImportProgress, FiniteSetTheorems, SequenceTheorems, TLAPS

(***************************************************************************)
(* Stacks.                                                                  *)
(***************************************************************************)

\* The top of a stack, and the stack without it.
LEMMA PopLemma ==
    ASSUME NEW S, NEW s \in Seq(S), s # <<>>
    PROVE  /\ Len(s) \in Nat \ {0}
           /\ Top(s) \in S
           /\ Pop(s) \in Seq(S)
           /\ Len(Pop(s)) = Len(s) - 1
           /\ DOMAIN Pop(s) = 1..(Len(s) - 1)
           /\ \A i \in 1..(Len(s) - 1) : Pop(s)[i] = s[i]
  <1>1. Len(s) \in Nat \ {0}
    BY EmptySeq
  <1>2. \A i \in 1..(Len(s) - 1) : s[i] \in S
    BY <1>1, ElementOfSeq
  <1>3. Pop(s) \in Seq(S) /\ Len(Pop(s)) = Len(s) - 1
        /\ \A i \in 1..(Len(s) - 1) : Pop(s)[i] = s[i]
    <2>1. 1 \in Int /\ Len(s) - 1 \in Int
      BY <1>1
    <2>2. /\ SubSeq(s, 1, Len(s) - 1) \in Seq(S)
          /\ Len(SubSeq(s, 1, Len(s) - 1)) = IF 1 <= Len(s) - 1 THEN Len(s) - 1 - 1 + 1 ELSE 0
          /\ \A i \in 1..(Len(s) - 1 - 1 + 1) : SubSeq(s, 1, Len(s) - 1)[i] = s[1 + i - 1]
      BY <1>2, <2>1, SubSeqProperties
    <2>3. Len(s) - 1 - 1 + 1 = Len(s) - 1 /\ \A i \in 1..(Len(s) - 1) : 1 + i - 1 = i
      BY <1>1
    <2>4. Pop(s) = SubSeq(s, 1, Len(s) - 1)
      BY DEF Pop
    <2>5. Len(Pop(s)) = Len(s) - 1
      <3>1. CASE 1 <= Len(s) - 1
        BY <1>1, <2>2, <2>3, <2>4, <3>1
      <3>2. CASE ~(1 <= Len(s) - 1)
        <4>1. \A n \in Nat \ {0} : ~(1 <= n - 1) => n - 1 = 0
          OBVIOUS
        <4>2. Len(s) - 1 = 0
          BY <1>1, <3>2, <4>1, Zenon
        <4> QED
          BY <2>2, <2>4, <3>2, <4>2
      <3> QED
        BY <3>1, <3>2
    <2>6. ASSUME NEW i \in 1..(Len(s) - 1) PROVE Pop(s)[i] = s[i]
      BY <1>1, <2>2, <2>3, <2>4
    <2> QED
      BY <2>2, <2>4, <2>5, <2>6
  <1>4. Top(s) \in S
    BY <1>1, ElementOfSeq DEF Top
  <1> QED
    BY <1>1, <1>3, <1>4, LenProperties

\* A stack whose top is replaced.
LEMMA SetTopLemma ==
    ASSUME NEW S, NEW s \in Seq(S), s # <<>>, NEW e \in S
    PROVE  /\ SetTop(s, e) \in Seq(S)
           /\ SetTop(s, e) # <<>>
           /\ Len(SetTop(s, e)) = Len(s)
           /\ DOMAIN SetTop(s, e) = 1..Len(s)
           /\ Top(SetTop(s, e)) = e
           /\ SetTop(s, e)[Len(s)] = e
           /\ \A i \in 1..Len(s) : i # Len(s) => SetTop(s, e)[i] = s[i]
  <1>1. Len(s) \in Nat \ {0}
    BY EmptySeq
  <1>2. Len(s) \in 1..Len(s)
    BY <1>1
  <1>3. /\ SetTop(s, e) \in Seq(S)
        /\ Len(SetTop(s, e)) = Len(s)
        /\ \A i \in 1..Len(s) : SetTop(s, e)[i] = IF i = Len(s) THEN e ELSE s[i]
    BY <1>2, ExceptSeq DEF SetTop
  <1> QED
    BY <1>1, <1>2, <1>3, LenProperties, EmptySeq DEF Top

\* A stack with one more activation.
LEMMA PushLemma ==
    ASSUME NEW S, NEW s \in Seq(S), NEW e \in S
    PROVE  /\ Append(s, e) \in Seq(S)
           /\ Append(s, e) # <<>>
           /\ Len(Append(s, e)) = Len(s) + 1
           /\ DOMAIN Append(s, e) = 1..(Len(s) + 1)
           /\ Top(Append(s, e)) = e
           /\ \A i \in 1..Len(s) : Append(s, e)[i] = s[i]
  BY AppendProperties, LenProperties DEF Top

\* The running activations of a process and what is left when one returns.
LEMMA CheckTop ==
    ASSUME TypeOK, NEW p \in Procs, Checking(p)
    PROVE  /\ checks[p] \in Seq(CheckFrame) /\ checks[p] # <<>>
           /\ Top(checks[p]) \in CheckFrame
           /\ Pop(checks[p]) \in Seq(CheckFrame)
           /\ \A e \in CheckFrame : SetTop(checks[p], e) \in Seq(CheckFrame)
  BY PopLemma, SetTopLemma DEF TypeOK, Checking

\* The running import, and the write times in the stack when it changes.
LEMMA ImportTop ==
    ASSUME TypeOK, NEW p \in Procs, imps[p] # <<>>
    PROVE  /\ imps[p] \in Seq(ImportFrame)
           /\ Top(imps[p]) \in ImportFrame
           /\ Top(imps[p]).time <= clock
           /\ Pop(imps[p]) \in Seq(ImportFrame)
           /\ \A i \in DOMAIN Pop(imps[p]) : Pop(imps[p])[i].time <= clock
           /\ \A e \in ImportFrame :
                 /\ SetTop(imps[p], e) \in Seq(ImportFrame)
                 /\ \A i \in DOMAIN SetTop(imps[p], e) :
                       SetTop(imps[p], e)[i].time <= IF clock < e.time THEN e.time ELSE clock
  <1>1. imps[p] \in Seq(ImportFrame) /\ DOMAIN imps[p] = 1..Len(imps[p])
    BY LenProperties DEF TypeOK
  <1>2. Len(imps[p]) \in Nat \ {0} /\ Len(imps[p]) \in DOMAIN imps[p]
    BY <1>1, PopLemma
  <1>3. clock \in Nat /\ \A i \in DOMAIN imps[p] : imps[p][i] \in ImportFrame /\ imps[p][i].time \in Nat
    <2>1. \A i \in DOMAIN imps[p] : imps[p][i] \in ImportFrame
      BY <1>1, ElementOfSeq
    <2> QED
      BY <2>1 DEF TypeOK, ImportFrame, Time
  <1>4. \A i \in DOMAIN imps[p] : imps[p][i].time <= clock
    BY DEF TypeOK
  <1>5. Top(imps[p]) \in ImportFrame /\ Top(imps[p]).time <= clock
    BY <1>2, <1>3, <1>4 DEF Top
  <1>6. Pop(imps[p]) \in Seq(ImportFrame) /\ \A i \in DOMAIN Pop(imps[p]) : Pop(imps[p])[i].time <= clock
    <2>1. /\ Pop(imps[p]) \in Seq(ImportFrame)
          /\ DOMAIN Pop(imps[p]) = 1..(Len(imps[p]) - 1)
          /\ \A i \in 1..(Len(imps[p]) - 1) : Pop(imps[p])[i] = imps[p][i]
      BY <1>1, PopLemma
    <2>2. 1..(Len(imps[p]) - 1) \subseteq DOMAIN imps[p]
      BY <1>1, <1>2
    <2> QED
      BY <1>4, <2>1, <2>2
  <1>7. ASSUME NEW e \in ImportFrame
        PROVE  /\ SetTop(imps[p], e) \in Seq(ImportFrame)
               /\ \A i \in DOMAIN SetTop(imps[p], e) :
                     SetTop(imps[p], e)[i].time <= IF clock < e.time THEN e.time ELSE clock
    <2>1. e.time \in Nat
      BY DEF ImportFrame, Time
    <2>2. /\ SetTop(imps[p], e) \in Seq(ImportFrame)
          /\ DOMAIN SetTop(imps[p], e) = 1..Len(imps[p])
          /\ SetTop(imps[p], e)[Len(imps[p])] = e
          /\ \A i \in 1..Len(imps[p]) : i # Len(imps[p]) => SetTop(imps[p], e)[i] = imps[p][i]
      <3>1. \A s \in Seq(ImportFrame) : s # <<>> =>
               /\ SetTop(s, e) \in Seq(ImportFrame)
               /\ DOMAIN SetTop(s, e) = 1..Len(s)
               /\ SetTop(s, e)[Len(s)] = e
               /\ \A i \in 1..Len(s) : i # Len(s) => SetTop(s, e)[i] = s[i]
        BY SetTopLemma
      <3> QED
        BY <1>1, <3>1
    <2>3. ASSUME NEW i \in DOMAIN imps[p]
          PROVE  SetTop(imps[p], e)[i].time <= IF clock < e.time THEN e.time ELSE clock
      <3>1. CASE i = Len(imps[p])
        BY <1>3, <2>1, <2>2, <3>1
      <3>2. CASE i # Len(imps[p])
        BY <1>3, <1>4, <2>1, <2>2, <3>2
      <3> QED
        BY <3>1, <3>2
    <2> QED
      BY <1>1, <2>2, <2>3
  <1> QED
    BY <1>1, <1>5, <1>6, <1>7

(***************************************************************************)
(* Types.                                                                   *)
(***************************************************************************)

\* The end of a process leaves every map a map.
LEMMA ExitTypes ==
    ASSUME TypeOK, NEW P \in SUBSET Procs, Exit(P),
           clock' = clock, src' = src, runs' = runs,
           bin' \in [Files -> Binary], \A f \in Files : bin'[f].time <= clock
    PROVE  TypeOK'
  <1>1. \A p \in Procs : imps'[p] = <<>> \/ imps'[p] = imps[p]
    BY DEF Exit
  <1>2. DOMAIN <<>> = {}
    BY EmptySeq, LenProperties
  <1>3. \A p \in Procs : \A i \in DOMAIN imps'[p] : imps'[p][i].time <= clock
    BY <1>1, <1>2 DEF TypeOK
  <1>4. /\ checks' \in [Procs -> Seq(CheckFrame)]
        /\ imps' \in [Procs -> Seq(ImportFrame)]
    BY EmptySeq DEF TypeOK, Exit
  <1>5. /\ running' \in SUBSET Procs
        /\ main' \in [Procs -> SUBSET Files]
        /\ import_state' \in [Procs -> [Files -> import_state_t]]
        /\ imported' \in [Procs -> SUBSET Files]
    BY DEF TypeOK, Exit, import_state_t
  <1>6. loaded' \in [Procs -> [Files -> Prov]]
    BY DEF TypeOK, Exit, Prov
  <1> QED
    BY <1>3, <1>4, <1>5, <1>6 DEF TypeOK

\* The initial state is well typed.
LEMMA InitTypes == Init => TypeOK
  <1> SUFFICES ASSUME Init PROVE TypeOK
    OBVIOUS
  <1>1. DOMAIN <<>> = {} /\ <<>> \in Seq(CheckFrame) /\ <<>> \in Seq(ImportFrame)
    BY EmptySeq, LenProperties
  <1>2. src \in [Files -> Source] /\ bin \in [Files -> Binary]
    BY BoundsAssumption DEF Init, Source, Binary, NoBinary, Time, Prov
  <1>3. loaded \in [Procs -> [Files -> Prov]] /\ import_state \in [Procs -> [Files -> import_state_t]]
    BY DEF Init, Prov, import_state_t
  <1>4. checks \in [Procs -> Seq(CheckFrame)] /\ imps \in [Procs -> Seq(ImportFrame)]
    BY <1>1 DEF Init
  <1>5. \A f \in Files : src[f].time <= clock /\ bin[f].time <= clock
    <2>1. clock = 0 /\ \A f \in Files : src[f].time = 0 /\ bin[f].time = 0
      BY DEF Init, NoBinary
    <2>2. 0 <= 0
      OBVIOUS
    <2> QED
      BY <2>1, <2>2, Zenon
  <1>6. runs \in 0..MaxRuns
    BY BoundsAssumption DEF Init
  <1> QED
    BY <1>1, <1>2, <1>3, <1>4, <1>5, <1>6 DEF Init, TypeOK, Time

\* A step of check_import_state changes the running check and the memo only.
LEMMA CheckStepTypes ==
    ASSUME TypeOK, NEW p \in Procs, Checking(p), NEW stack \in Seq(CheckFrame),
           checks' = [checks EXCEPT ![p] = stack],
           import_state' \in [Procs -> [Files -> import_state_t]],
           UNCHANGED <<fileVars, running, main, imported, loaded, imps, runs>>
    PROVE  TypeOK'
  BY DEF TypeOK, fileVars

\* A check that returns.
LEMMA CheckReturnTypes ==
    ASSUME TypeOK, NEW p \in Procs, Checking(p), NEW verdict \in import_state_t,
           CheckReturn(p, verdict),
           UNCHANGED <<fileVars, running, main, imported, loaded, imps, runs>>
    PROVE  TypeOK'
  <1>1. import_state' \in [Procs -> [Files -> import_state_t]]
    BY CheckTop DEF CheckReturn, TypeOK, CheckFrame
  <1>2. Pop(checks[p]) \in Seq(CheckFrame)
    BY CheckTop
  <1> QED
    BY <1>1, <1>2, CheckStepTypes DEF CheckReturn

\* Every step of check_import_state.
LEMMA CheckTypes ==
    ASSUME TypeOK, NEW p \in Procs, NEW f \in Files,
           CheckStat(p) \/ CheckOpen(p) \/ CheckImport(p, f) \/ CheckDone(p)
    PROVE  TypeOK'
  <1> DEFINE fr == Top(checks[p])
  <1>1. Checking(p)
    BY DEF CheckStat, CheckOpen, CheckImport, CheckDone
  <1>2. fr \in CheckFrame /\ checks[p] \in Seq(CheckFrame)
        /\ \A e \in CheckFrame : SetTop(checks[p], e) \in Seq(CheckFrame)
    BY <1>1, CheckTop
  <1>3. "bad" \in import_state_t /\ "good" \in import_state_t /\ "unknown" \in import_state_t
    BY DEF import_state_t
  <1>4. \A e \in CheckFrame : \/ ~(checks' = [checks EXCEPT ![p] = SetTop(@, e)] /\ UNCHANGED import_state)
                             \/ ~(UNCHANGED <<fileVars, running, main, imported, loaded, imps, runs>>)
                             \/ TypeOK'
    <2> SUFFICES ASSUME NEW e \in CheckFrame,
                        checks' = [checks EXCEPT ![p] = SetTop(@, e)], UNCHANGED import_state,
                        UNCHANGED <<fileVars, running, main, imported, loaded, imps, runs>>
                 PROVE  TypeOK'
      OBVIOUS
    <2>1. checks' = [checks EXCEPT ![p] = SetTop(checks[p], e)]
      OBVIOUS
    <2>2. import_state' \in [Procs -> [Files -> import_state_t]]
      BY DEF TypeOK
    <2> QED
      BY <1>1, <1>2, <2>1, <2>2, CheckStepTypes
  <1>5. CASE CheckStat(p)
    <2>1. [fr EXCEPT !.phase = "open", !.time = bin[fr.file].time] \in CheckFrame
      BY <1>2 DEF CheckFrame, TypeOK, Binary
    <2>2. CASE CheckReturn(p, "bad")
      BY <1>1, <1>3, <1>5, <2>2, CheckReturnTypes DEF CheckStat
    <2> QED
      BY <1>4, <1>5, <2>1, <2>2 DEF CheckStat
  <1>6. CASE CheckOpen(p)
    <2>1. [fr EXCEPT !.phase = "imports", !.todo = Imports[fr.file]] \in CheckFrame
      BY <1>2, ImportsAssumption DEF CheckFrame
    <2>2. CASE CheckReturn(p, "bad")
      BY <1>1, <1>3, <1>6, <2>2, CheckReturnTypes DEF CheckOpen
    <2> QED
      BY <1>4, <1>6, <2>1, <2>2 DEF CheckOpen
  <1>7. CASE CheckImport(p, f)
    <2>1. CASE CheckReturn(p, "bad")
      BY <1>1, <1>3, <1>7, <2>1, CheckReturnTypes DEF CheckImport
    <2>2. CASE checks' = [checks EXCEPT ![p] = SetTop(@, [fr EXCEPT !.todo = @ \ {f}])] /\ UNCHANGED import_state
      <3>1. [fr EXCEPT !.todo = @ \ {f}] \in CheckFrame
        BY <1>2 DEF CheckFrame
      <3> QED
        BY <1>4, <1>7, <2>2, <3>1 DEF CheckImport
    <2>3. CASE /\ checks' = [checks EXCEPT ![p] = Append(@, CheckCall(f))]
               /\ import_state' = [import_state EXCEPT ![p][f] = "unknown"]
      <3>1. CheckCall(f) \in CheckFrame
        BY DEF CheckCall, CheckFrame, Time
      <3>2. Append(checks[p], CheckCall(f)) \in Seq(CheckFrame)
        BY <1>2, <3>1
      <3>3. import_state' \in [Procs -> [Files -> import_state_t]]
        BY <1>3, <2>3 DEF TypeOK
      <3>4. checks' = [checks EXCEPT ![p] = Append(checks[p], CheckCall(f))]
        BY <2>3
      <3> QED
        BY <1>1, <1>7, <3>2, <3>3, <3>4, CheckStepTypes DEF CheckImport
    <2> QED
      BY <1>7, <2>1, <2>2, <2>3 DEF CheckImport
  <1>8. CASE CheckDone(p)
    BY <1>1, <1>3, <1>8, CheckReturnTypes DEF CheckDone
  <1> QED
    BY <1>5, <1>6, <1>7, <1>8

\* A step of v_import_helper changes one stack of imports; what else it
\* changes keeps its type.
LEMMA ImportStepTypes ==
    ASSUME TypeOK, NEW p \in Procs, NEW stack \in Seq(ImportFrame),
           \A i \in DOMAIN stack : stack[i].time <= clock',
           imps' = [imps EXCEPT ![p] = stack],
           clock' \in Nat, clock <= clock',
           main' \in [Procs -> SUBSET Files],
           import_state' \in [Procs -> [Files -> import_state_t]],
           imported' \in [Procs -> SUBSET Files],
           loaded' \in [Procs -> [Files -> Prov]],
           checks' \in [Procs -> Seq(CheckFrame)],
           bin' \in [Files -> Binary], \A f \in Files : bin'[f].time <= clock',
           UNCHANGED <<src, running, runs>>
    PROVE  TypeOK'
  <1>1. imps' \in [Procs -> Seq(ImportFrame)]
    BY DEF TypeOK
  <1>2. \A x \in Nat : x <= clock => x <= clock'
    BY DEF TypeOK, Time
  <1>3. ASSUME NEW q \in Procs, NEW i \in DOMAIN imps'[q]
        PROVE  imps'[q][i].time <= clock'
    <2>1. CASE q = p
      BY <2>1 DEF TypeOK
    <2>2. CASE q # p
      <3>1. imps'[q] = imps[q] /\ imps[q] \in Seq(ImportFrame)
        BY <2>2 DEF TypeOK
      <3>2. imps[q][i] \in ImportFrame /\ imps[q][i].time <= clock
        BY <1>3, <3>1, ElementOfSeq, LenProperties DEF TypeOK
      <3> QED
        BY <1>2, <3>1, <3>2 DEF ImportFrame, Time
    <2> QED
      BY <2>1, <2>2
  <1>4. ASSUME NEW f \in Files PROVE src[f].time <= clock'
    BY <1>2 DEF TypeOK, Source, Time
  <1> QED
    BY <1>1, <1>3, <1>4 DEF TypeOK, Time

\* The provenance handed to a caller.
LEMMA MergeTypes ==
    ASSUME TypeOK, NEW p \in Procs, NEW stack, NEW f \in Files
    PROVE  Merge(p, stack, f) \in [Procs -> [Files -> Prov]]
  <1>1. loaded \in [Procs -> [Files -> Prov]]
    BY DEF TypeOK
  <1>2. CASE stack # <<>> /\ Top(stack).phase = "compile"
    <2> DEFINE g == Top(stack).file
               row == [loaded[p] EXCEPT ![g] = @ \cup loaded[p][f]]
    <2>1. Merge(p, stack, f) = [loaded EXCEPT ![p] = row]
      BY <1>1, <1>2 DEF Merge
    <2>2. loaded[p] \in [Files -> Prov] /\ loaded[p][f] \in Prov
      BY <1>1
    <2> HIDE DEF g
    <2>3. row \in [Files -> Prov]
      BY <2>2 DEF Prov
    <2> HIDE DEF row
    <2> QED
      BY <1>1, <2>1, <2>3
  <1>3. CASE ~(stack # <<>> /\ Top(stack).phase = "compile")
    BY <1>1, <1>3 DEF Merge
  <1> QED
    BY <1>2, <1>3

\* The stack of a process that has asked for a file.
LEMMA AskedTypes ==
    ASSUME TypeOK, NEW p \in Procs, NEW f \in Files
    PROVE  /\ Asked(p, f) \in Seq(ImportFrame)
           /\ \A i \in DOMAIN Asked(p, f) : Asked(p, f)[i].time <= clock
           /\ AskedMain(p, f) => main' \in [Procs -> SUBSET Files]
  <1>1. AskedMain(p, f) => main' \in [Procs -> SUBSET Files]
    BY DEF AskedMain, TypeOK
  <1>2. CASE imps[p] = <<>>
    <2>1. Asked(p, f) = <<>>
      BY <1>2 DEF Asked
    <2> QED
      BY <1>1, <2>1, EmptySeq, LenProperties
  <1>3. CASE imps[p] # <<>>
    <2> DEFINE e == [Top(imps[p]) EXCEPT !.todo = @ \ {f}]
    <2>1. e \in ImportFrame /\ e.time <= clock /\ e.time \in Nat
      BY <1>3, ImportTop DEF ImportFrame, Time
    <2>2. /\ SetTop(imps[p], e) \in Seq(ImportFrame)
          /\ \A i \in DOMAIN SetTop(imps[p], e) :
                SetTop(imps[p], e)[i].time <= IF clock < e.time THEN e.time ELSE clock
      BY <1>3, <2>1, ImportTop
    <2>3. (IF clock < e.time THEN e.time ELSE clock) = clock
      BY <2>1 DEF TypeOK, Time
    <2>4. Asked(p, f) = SetTop(imps[p], e)
      BY <1>3 DEF Asked
    <2> QED
      BY <1>1, <2>2, <2>3, <2>4
  <1> QED
    BY <1>2, <1>3

\* An import that is asked for.
LEMMA ImportCallTypes ==
    ASSUME TypeOK, NEW p \in Procs, NEW f \in Files, ImportAgain(p, f) \/ ImportFirst(p, f)
    PROVE  TypeOK'
  <1>1. /\ Asked(p, f) \in Seq(ImportFrame)
        /\ \A i \in DOMAIN Asked(p, f) : Asked(p, f)[i].time <= clock
        /\ main' \in [Procs -> SUBSET Files]
    BY AskedTypes DEF ImportAgain, ImportFirst
  <1>2. clock \in Nat /\ clock <= clock /\ clock' = clock /\ bin' = bin
    BY DEF TypeOK, Time, ImportAgain, ImportFirst, fileVars
  <1>3. CASE ImportAgain(p, f)
    <2>1. loaded' \in [Procs -> [Files -> Prov]]
      BY <1>3, MergeTypes DEF ImportAgain
    <2>2. /\ imps' = [imps EXCEPT ![p] = Asked(p, f)]
          /\ UNCHANGED <<fileVars, running, import_state, imported, checks, runs>>
      BY <1>3 DEF ImportAgain
    <2> QED
      BY <1>1, <1>2, <2>1, <2>2, ImportStepTypes DEF TypeOK, fileVars
  <1>4. CASE ImportFirst(p, f)
    <2> DEFINE e == [file |-> f, phase |-> "check", time |-> 0, todo |-> {}]
               stack == Append(Asked(p, f), e)
    <2>1. e \in ImportFrame /\ e.time = 0
      BY DEF ImportFrame, Time
    <2>2. stack \in Seq(ImportFrame)
      BY <1>1, <2>1
    <2>3. ASSUME NEW i \in DOMAIN stack PROVE stack[i].time <= clock
      <3>1. /\ DOMAIN stack = 1..(Len(Asked(p, f)) + 1)
            /\ stack[Len(Asked(p, f)) + 1] = e
            /\ \A j \in 1..Len(Asked(p, f)) : stack[j] = Asked(p, f)[j]
            /\ Len(Asked(p, f)) \in Nat
            /\ DOMAIN Asked(p, f) = 1..Len(Asked(p, f))
        BY <1>1, <2>1, AppendProperties, LenProperties
      <3>2. CASE i = Len(Asked(p, f)) + 1
        BY <1>2, <2>1, <3>1, <3>2
      <3>3. CASE i \in 1..Len(Asked(p, f))
        BY <1>1, <3>1, <3>3
      <3> QED
        BY <3>1, <3>2, <3>3
    <2>4. checks' \in [Procs -> Seq(CheckFrame)] /\ import_state' \in [Procs -> [Files -> import_state_t]]
      <3>1. CheckCall(f) \in CheckFrame /\ <<CheckCall(f)>> \in Seq(CheckFrame)
        BY DEF CheckCall, CheckFrame, Time
      <3>2. CASE import_state[p][f] = "none"
        <4>1. /\ checks' = [checks EXCEPT ![p] = <<CheckCall(f)>>]
              /\ import_state' = [import_state EXCEPT ![p][f] = "unknown"]
          BY <1>4, <3>2 DEF ImportFirst
        <4> QED
          BY <3>1, <4>1 DEF TypeOK, import_state_t
      <3>3. CASE import_state[p][f] # "none"
        BY <1>4, <3>3 DEF ImportFirst, TypeOK
      <3> QED
        BY <3>2, <3>3
    <2>5. imported' \in [Procs -> SUBSET Files]
      BY <1>4 DEF ImportFirst, TypeOK
    <2>6. /\ imps' = [imps EXCEPT ![p] = stack]
          /\ UNCHANGED <<fileVars, running, loaded, runs>>
      BY <1>4 DEF ImportFirst
    <2> HIDE DEF stack
    <2> QED
      BY <1>1, <1>2, <2>2, <2>3, <2>4, <2>5, <2>6, ImportStepTypes DEF TypeOK, fileVars
  <1> QED
    BY <1>3, <1>4

\* What a running import does with its own activation.
LEMMA ImportTopTypes ==
    ASSUME TypeOK, NEW p \in Procs,
           OpenBinary(p) \/ OpenSource(p) \/ CloseBinary(p)
    PROVE  TypeOK'
  <1> DEFINE fr == Top(imps[p])
  <1>1. imps[p] # <<>>
    BY DEF OpenBinary, OpenSource, CloseBinary, Importing
  <1>2. /\ fr \in ImportFrame /\ fr.time <= clock /\ fr.file \in Files /\ fr.time \in Nat
        /\ \A e \in ImportFrame :
              /\ SetTop(imps[p], e) \in Seq(ImportFrame)
              /\ \A i \in DOMAIN SetTop(imps[p], e) :
                    SetTop(imps[p], e)[i].time <= IF clock < e.time THEN e.time ELSE clock
    BY <1>1, ImportTop DEF ImportFrame, Time
  <1>3. clock \in Nat /\ clock <= clock /\ clock + 1 \in Nat /\ clock <= clock + 1 /\ clock < clock + 1
    BY DEF TypeOK, Time
  <1>4. (IF clock < fr.time THEN fr.time ELSE clock) = clock
    BY <1>2, <1>3
  <1>5. CASE OpenBinary(p)
    <2> DEFINE e == [fr EXCEPT !.phase = "binary", !.todo = Imports[fr.file]]
    <2>1. e \in ImportFrame /\ e.time = fr.time
      BY <1>2, ImportsAssumption DEF ImportFrame
    <2>2. loaded' \in [Procs -> [Files -> Prov]]
      BY <1>2, <1>5 DEF OpenBinary, TypeOK, Binary
    <2>3. \A i \in DOMAIN SetTop(imps[p], e) : SetTop(imps[p], e)[i].time <= clock
      BY <1>2, <1>4, <2>1
    <2>4. /\ imps' = [imps EXCEPT ![p] = SetTop(imps[p], e)]
          /\ UNCHANGED <<fileVars, running, main, import_state, imported, checks, runs>>
      BY <1>5 DEF OpenBinary
    <2> HIDE DEF e
    <2> QED
      BY <1>2, <1>3, <2>1, <2>2, <2>3, <2>4, ImportStepTypes DEF TypeOK, fileVars
  <1>6. CASE OpenSource(p)
    <2> DEFINE e == [fr EXCEPT !.phase = "compile", !.todo = Imports[fr.file]]
    <2>1. e \in ImportFrame /\ e.time = fr.time
      BY <1>2, ImportsAssumption DEF ImportFrame
    <2>2. {<<fr.file, src[fr.file].ver>>} \in Prov
      BY <1>2 DEF TypeOK, Source, Prov
    <2>3. loaded' = [loaded EXCEPT ![p][fr.file] = {<<fr.file, src[fr.file].ver>>}]
      BY <1>6 DEF OpenSource
    <2>4. loaded' \in [Procs -> [Files -> Prov]]
      BY <1>2, <2>2, <2>3 DEF TypeOK
    <2>5. \A i \in DOMAIN SetTop(imps[p], e) : SetTop(imps[p], e)[i].time <= clock
      BY <1>2, <1>4, <2>1
    <2>6. /\ imps' = [imps EXCEPT ![p] = SetTop(imps[p], e)]
          /\ UNCHANGED <<fileVars, running, main, import_state, imported, checks, runs>>
      BY <1>6 DEF OpenSource
    <2> HIDE DEF e
    <2> QED
      BY <1>2, <1>3, <2>1, <2>4, <2>5, <2>6, ImportStepTypes DEF TypeOK, fileVars
  <1>7. CASE CloseBinary(p)
    <2> DEFINE e == [fr EXCEPT !.phase = "closed", !.time = clock + 1]
    <2>1. e \in ImportFrame /\ e.time = clock + 1
      BY <1>2, <1>3 DEF ImportFrame, Time
    <2>2. (IF clock < e.time THEN e.time ELSE clock) = clock + 1
      BY <1>3, <2>1
    <2>3. \A i \in DOMAIN SetTop(imps[p], e) : SetTop(imps[p], e)[i].time <= clock + 1
      BY <1>2, <2>1, <2>2
    <2>4. /\ imps' = [imps EXCEPT ![p] = SetTop(imps[p], e)]
          /\ clock' = clock + 1
          /\ UNCHANGED <<src, bin, running, main, import_state, imported, loaded, checks, runs>>
      BY <1>7 DEF CloseBinary
    <2>5. ASSUME NEW f \in Files PROVE bin[f].time <= clock + 1
      <3>1. bin[f].time \in Nat /\ bin[f].time <= clock
        BY DEF TypeOK, Binary, Time
      <3> QED
        BY <1>3, <3>1
    <2> HIDE DEF e
    <2> QED
      BY <1>2, <1>3, <2>1, <2>3, <2>4, <2>5, ImportStepTypes DEF TypeOK
  <1> QED
    BY <1>5, <1>6, <1>7

\* The return of an import, with a new binary or without one.
LEMMA ImportReturnTypes ==
    ASSUME TypeOK, NEW p \in Procs, Rename(p) \/ BinaryDone(p)
    PROVE  TypeOK'
  <1> DEFINE fr == Top(imps[p])
  <1>1. imps[p] # <<>>
    BY DEF Rename, BinaryDone, Importing
  <1>2. /\ fr \in ImportFrame /\ fr.time <= clock /\ fr.file \in Files /\ fr.time \in Nat
        /\ Pop(imps[p]) \in Seq(ImportFrame)
        /\ \A i \in DOMAIN Pop(imps[p]) : Pop(imps[p])[i].time <= clock
    BY <1>1, ImportTop DEF ImportFrame, Time
  <1>3. /\ imps' = [imps EXCEPT ![p] = Pop(imps[p])]
        /\ loaded' \in [Procs -> [Files -> Prov]]
    BY <1>2, MergeTypes DEF Rename, BinaryDone, ImportReturn
  <1>4. bin' \in [Files -> Binary] /\ \A f \in Files : bin'[f].time <= clock
    <2>1. CASE BinaryDone(p)
      BY <2>1 DEF BinaryDone, TypeOK, fileVars
    <2>2. CASE Rename(p)
      <3> DEFINE b == [exists |-> TRUE, magic |-> TRUE, time |-> fr.time, prov |-> loaded[p][fr.file]]
      <3>1. b \in Binary /\ b.time <= clock
        BY <1>2 DEF Binary, TypeOK, Time
      <3>2. bin' = [bin EXCEPT ![fr.file] = b]
        BY <2>2 DEF Rename
      <3> HIDE DEF b
      <3> QED
        BY <1>2, <3>1, <3>2 DEF TypeOK
    <2> QED
      BY <2>1, <2>2
  <1>5. /\ clock' = clock /\ clock \in Nat /\ clock <= clock
        /\ UNCHANGED <<src, running, main, import_state, imported, checks, runs>>
    BY DEF Rename, BinaryDone, fileVars, TypeOK, Time
  <1> QED
    BY <1>2, <1>3, <1>4, <1>5, ImportStepTypes DEF TypeOK

\* The start and the end of a process.
LEMMA LifeTypes ==
    ASSUME TypeOK, NEW p \in Procs, Start(p) \/ Finish(p) \/ NotFound(p) \/ Kill(p)
    PROVE  TypeOK'
  <1>1. CASE Start(p)
    <2>1. main' \in [Procs -> SUBSET Files] /\ running' \in SUBSET Procs
      BY <1>1, ProgramsAssumption DEF Start, TypeOK
    <2>2. runs' \in 0..MaxRuns
      BY <1>1, BoundsAssumption DEF Start, TypeOK
    <2> QED
      BY <1>1, <2>1, <2>2 DEF Start, TypeOK, fileVars
  <1>2. CASE Finish(p) \/ NotFound(p) \/ Kill(p)
    <2>1. Exit({p}) /\ UNCHANGED <<fileVars, runs>>
      BY <1>2 DEF Finish, NotFound, Kill
    <2> QED
      BY <2>1, ExitTypes DEF TypeOK, fileVars
  <1> QED
    BY <1>1, <1>2

\* Changes of the sources, and a power loss.
LEMMA WorldTypes ==
    ASSUME TypeOK, NEW f \in Files, Edit(f) \/ Remove(f) \/ PowerLoss
    PROVE  TypeOK'
  <1>1. clock \in Nat
    BY DEF TypeOK, Time
  <1>2. CASE Edit(f)
    <2> DEFINE s == [ver |-> src[f].ver + 1, time |-> clock + 1, exists |-> TRUE]
    <2>1. s \in Source
      <3>1. src[f].ver \in 1..MaxVer /\ src[f].ver < MaxVer
        BY <1>2 DEF Edit, TypeOK, Source
      <3>2. src[f].ver + 1 \in 1..MaxVer
        BY <3>1, BoundsAssumption
      <3> QED
        BY <1>1, <3>2 DEF Source, Time
    <2>2. src' = [src EXCEPT ![f] = s] /\ clock' = clock + 1 /\ UNCHANGED <<bin, procVars, runs>>
      BY <1>2 DEF Edit
    <2>3. \A x \in Nat : x <= clock => x <= clock + 1
      BY <1>1
    <2>4. ASSUME NEW g \in Files PROVE src'[g].time <= clock + 1 /\ bin[g].time <= clock + 1
      <3>1. src[g].time <= clock + 1 /\ bin[g].time <= clock + 1
        BY <2>3 DEF TypeOK, Source, Binary, Time
      <3>2. s.time <= clock + 1
        BY <1>1
      <3> QED
        BY <2>2, <3>1, <3>2 DEF TypeOK
    <2>5. ASSUME NEW p \in Procs, NEW i \in DOMAIN imps[p] PROVE imps[p][i].time <= clock + 1
      <3>1. imps[p] \in Seq(ImportFrame)
        BY DEF TypeOK
      <3>2. imps[p][i] \in ImportFrame
        BY <2>5, <3>1, ElementOfSeq, LenProperties
      <3> QED
        BY <2>3, <3>2 DEF TypeOK, ImportFrame, Time
    <2> HIDE DEF s
    <2> QED
      BY <1>1, <2>1, <2>2, <2>4, <2>5 DEF TypeOK, procVars, Time
  <1>3. CASE Remove(f)
    <2>1. src' = [src EXCEPT ![f].exists = FALSE] /\ UNCHANGED <<clock, bin, procVars, runs>>
      BY <1>3 DEF Remove
    <2>2. ASSUME NEW g \in Files PROVE src'[g] \in Source /\ src'[g].time = src[g].time
      <3>1. src[g] \in Source
        BY DEF TypeOK
      <3>2. [src[g] EXCEPT !.exists = FALSE] \in Source
        BY <3>1 DEF Source
      <3>3. src'[g] = IF g = f THEN [src[g] EXCEPT !.exists = FALSE] ELSE src[g]
        BY <2>1 DEF TypeOK
      <3> QED
        BY <3>1, <3>2, <3>3 DEF Source
    <2>3. src' \in [Files -> Source]
      BY <2>1, <2>2 DEF TypeOK
    <2> QED
      BY <2>1, <2>2, <2>3 DEF TypeOK, procVars
  <1>4. CASE PowerLoss
    <2>1. Exit(Procs) /\ UNCHANGED <<clock, src, runs>>
      BY <1>4 DEF PowerLoss
    <2>2. PICK lost \in SUBSET Files :
             bin' = [g \in Files |-> IF g \in lost THEN [bin[g] EXCEPT !.magic = FALSE, !.prov = {}]
                                     ELSE bin[g]]
      BY <1>4 DEF PowerLoss
    <2>3. bin' \in [Files -> Binary] /\ \A g \in Files : bin'[g].time = bin[g].time
      <3>1. ASSUME NEW g \in Files
            PROVE  bin'[g] \in Binary /\ bin'[g].time = bin[g].time
        <4>1. bin[g] \in Binary
          BY DEF TypeOK
        <4>2. CASE g \in lost
          <5>1. bin'[g] = [bin[g] EXCEPT !.magic = FALSE, !.prov = {}]
            BY <2>2, <4>2
          <5>2. {} \in Prov
            BY DEF Prov
          <5> QED
            BY <4>1, <5>1, <5>2 DEF Binary
        <4>3. CASE g \notin lost
          <5>1. bin'[g] = bin[g]
            BY <2>2, <4>3
          <5> QED
            BY <4>1, <5>1
        <4> QED
          BY <4>2, <4>3
      <3>2. bin' = [g \in Files |-> bin'[g]]
        BY <2>2
      <3> QED
        BY <3>1, <3>2
    <2>4. \A g \in Files : bin'[g].time <= clock
      BY <2>3 DEF TypeOK
    <2> QED
      BY <2>1, <2>3, <2>4, ExitTypes
  <1> QED
    BY <1>2, <1>3, <1>4

\* Every step keeps the types.
LEMMA NextTypes == TypeOK /\ [Next]_vars => TypeOK'
  <1> SUFFICES ASSUME TypeOK, [Next]_vars PROVE TypeOK'
    OBVIOUS
  <1>1. ASSUME NEW p \in Procs, Step(p) PROVE TypeOK'
    <2>1. ASSUME NEW f \in Files, CheckImport(p, f) \/ ImportAgain(p, f) \/ ImportFirst(p, f)
          PROVE  TypeOK'
      BY <2>1, CheckTypes, ImportCallTypes
    <2>2. CASE CheckStat(p) \/ CheckOpen(p) \/ CheckDone(p)
      <3>1. Checking(p)
        BY <2>2 DEF CheckStat, CheckOpen, CheckDone
      <3>2. Top(checks[p]).file \in Files
        BY <3>1, CheckTop DEF CheckFrame
      <3> QED
        BY <2>2, <3>2, CheckTypes
    <2> QED
      BY <1>1, <2>1, <2>2, ImportTopTypes, ImportReturnTypes, LifeTypes DEF Step
  <1>2. ASSUME NEW p \in Procs, Start(p) \/ Kill(p) PROVE TypeOK'
    BY <1>2, LifeTypes
  <1>3. ASSUME NEW f \in Files, Edit(f) \/ Remove(f) PROVE TypeOK'
    BY <1>3, WorldTypes
  <1>4. CASE PowerLoss
    <2>1. CASE Files # {}
      BY <1>4, <2>1, WorldTypes
    <2>2. CASE Files = {}
      BY <1>4, <2>2, ExitTypes DEF PowerLoss, TypeOK
    <2> QED
      BY <2>1, <2>2
  <1>5. CASE UNCHANGED vars
    BY <1>5 DEF TypeOK, vars, fileVars, procVars
  <1> QED
    BY <1>1, <1>2, <1>3, <1>4, <1>5 DEF Next

\* Every reachable state is well formed: the stacks hold activations of the
\* two functions of voidc_main.cpp, and no file carries a write time that
\* the file system has not yet given out.
THEOREM TypeCorrect == Spec => []TypeOK
  BY InitTypes, NextTypes, PTL DEF Spec

(***************************************************************************)
(* The safety of the cache.                                                 *)
(***************************************************************************)

\* What f imports, directly or not.
Under(f) == UNION {Reach(c) : c \in Imports[f]}

Acyclic == \A f \in Files : f \notin Under(f)

\* The binary of f is whole, made from the sources as they are, and no older
\* than any of them.
Fresh(f) ==
    /\ bin[f].exists /\ bin[f].magic
    /\ bin[f].prov = Current(f)
    /\ \A g \in Reach(f) : src[g].time <= bin[f].time

\* A whole binary holds something of every file that f reaches and of no
\* other; what it holds is current unless the source is newer than it.
BinInv ==
    \A f \in Files : bin[f].magic =>
        /\ bin[f].exists
        /\ \A g \in Reach(f) : \E x \in bin[f].prov : x[1] = g
        /\ \A x \in bin[f].prov :
              /\ x[1] \in Reach(f)
              /\ x[2] = src[x[1]].ver \/ ~(src[x[1]].time <= bin[f].time)

IdleInv(p) ==
    p \notin running => /\ checks[p] = <<>>
                        /\ imps[p] = <<>>
                        /\ imported[p] = {}
                        /\ \A f \in Files : import_state[p][f] = "none"

\* Each activation works on something that the one below it imports.
Ordered(s) ==
    /\ \A i, j \in DOMAIN s : i < j => s[j].file \in Under(s[i].file)
    /\ \A i \in DOMAIN s : s[i].todo \subseteq Imports[s[i].file]

\* A check that has seen the write time of its binary: the binary has been
\* replaced by a fresh one, or is the one it saw and what it has found is so.
FrameInv(fr) ==
    fr.phase # "stat" =>
        \/ Fresh(fr.file)
        \/ /\ bin[fr.file].exists
           /\ bin[fr.file].time = fr.time
           /\ src[fr.file].time <= fr.time
           /\ fr.phase = "imports" =>
                /\ bin[fr.file].magic
                /\ \A c \in Imports[fr.file] \ fr.todo :
                      \A g \in Reach(c) : src[g].time <= fr.time

CheckInv(p) ==
    /\ Ordered(checks[p])
    /\ \A i \in DOMAIN checks[p] : FrameInv(checks[p][i])
    /\ \A f \in Files :
          /\ import_state[p][f] = "good" => Fresh(f)
          /\ import_state[p][f] = "unknown" => \E i \in DOMAIN checks[p] : checks[p][i].file = f

\* What the units of the i-th activation have brought in so far.
LoadedInv(p, i) ==
    LET fr == imps[p][i] IN
    /\ fr.phase = "check" => import_state[p][fr.file] # "none"
    /\ fr.phase \in {"binary", "closed"} => loaded[p][fr.file] = Current(fr.file)
    /\ fr.phase = "closed" => \A g \in Reach(fr.file) : src[g].time <= fr.time
    /\ fr.phase = "compile" =>
          /\ loaded[p][fr.file] \subseteq Current(fr.file)
          /\ <<fr.file, src[fr.file].ver>> \in loaded[p][fr.file]
          /\ \A c \in Imports[fr.file] \ fr.todo :
                \/ Current(c) \subseteq loaded[p][fr.file]
                \/ i + 1 \in DOMAIN imps[p] /\ imps[p][i + 1].file = c

ImportInv(p) ==
    /\ Ordered(imps[p])
    /\ \A i \in DOMAIN imps[p] : imps[p][i].file \in imported[p] /\ LoadedInv(p, i)
    /\ \A f \in Files : Done(p, f) => loaded[p][f] = Current(f)

ProcInv(p) == IdleInv(p) /\ CheckInv(p) /\ ImportInv(p)

FreshInv == TypeOK /\ BinInv /\ \A p \in Procs : ProcInv(p)

(***************************************************************************)
(* What a file reaches.                                                     *)
(***************************************************************************)

\* A file reaches itself and, with any file, what that one imports.
LEMMA ReachClosed ==
    ASSUME NEW f \in Files
    PROVE  /\ Reach(f) \subseteq Files
           /\ f \in Reach(f)
           /\ \A g \in Reach(f) : Imports[g] \subseteq Reach(f)
  <1>1. ASSUME NEW g \in Reach(f), NEW h \in Imports[g] PROVE h \in Reach(f)
    <2>1. h \in Files
      BY ImportsAssumption DEF Reach
    <2>2. \A S \in SUBSET Files : f \in S /\ Closed(S) => h \in S
      BY DEF Reach, Closed
    <2> QED
      BY <2>1, <2>2 DEF Reach
  <1> QED
    BY <1>1 DEF Reach

\* What is reached from a reached file is reached.
LEMMA ReachTransitive ==
    ASSUME NEW f \in Files, NEW g \in Reach(f)
    PROVE  Reach(g) \subseteq Reach(f)
  <1>1. Closed(Reach(f)) /\ Reach(f) \in SUBSET Files
    BY ReachClosed DEF Closed
  <1> QED
    BY <1>1 DEF Reach

\* Everything below f is reached from f, with all that it imports.
LEMMA UnderClosed ==
    ASSUME NEW f \in Files
    PROVE  /\ Under(f) \subseteq Reach(f)
           /\ Imports[f] \subseteq Under(f)
           /\ \A g \in Under(f) : Imports[g] \subseteq Under(f)
  <1>1. \A c \in Imports[f] : c \in Files /\ c \in Reach(f) /\ c \in Reach(c)
    BY ReachClosed, ImportsAssumption
  <1>2. \A c \in Imports[f] : Reach(c) \subseteq Reach(f)
    BY <1>1, ReachTransitive
  <1>3. \A c \in Imports[f] : \A g \in Reach(c) : Imports[g] \subseteq Reach(c)
    BY <1>1, ReachClosed
  <1> QED
    BY <1>1, <1>2, <1>3 DEF Under

\* f reaches itself and what is below it, nothing else.
LEMMA ReachSplit ==
    ASSUME NEW f \in Files, NEW g \in Reach(f)
    PROVE  g = f \/ \E c \in Imports[f] : g \in Reach(c)
  <1> DEFINE S == {f} \cup Under(f)
  <1>1. S \in SUBSET Files /\ f \in S
    BY UnderClosed, ReachClosed
  <1>2. Closed(S)
    BY UnderClosed DEF Closed
  <1>3. g \in S
    BY <1>1, <1>2 DEF Reach
  <1> QED
    BY <1>3 DEF Under

\* The current contents of f are its own version and those of its imports.
LEMMA CurrentSplit ==
    ASSUME NEW f \in Files
    PROVE  /\ <<f, src[f].ver>> \in Current(f)
           /\ \A c \in Imports[f] : Current(c) \subseteq Current(f)
           /\ \A X : ( /\ X \subseteq Current(f)
                      /\ <<f, src[f].ver>> \in X
                      /\ \A c \in Imports[f] : Current(c) \subseteq X )
                    => X = Current(f)
  <1>1. <<f, src[f].ver>> \in Current(f)
    BY ReachClosed DEF Current
  <1>2. ASSUME NEW c \in Imports[f] PROVE Current(c) \subseteq Current(f)
    <2>1. c \in Reach(f)
      BY ReachClosed
    <2>2. Reach(c) \subseteq Reach(f)
      BY <2>1, ReachTransitive
    <2> QED
      BY <2>2 DEF Current
  <1>3. ASSUME NEW X, X \subseteq Current(f), <<f, src[f].ver>> \in X,
               \A c \in Imports[f] : Current(c) \subseteq X
        PROVE  X = Current(f)
    <2>1. ASSUME NEW g \in Reach(f) PROVE <<g, src[g].ver>> \in X
      <3>1. CASE g = f
        BY <1>3, <3>1
      <3>2. CASE \E c \in Imports[f] : g \in Reach(c)
        BY <1>3, <3>2 DEF Current
      <3> QED
        BY <3>1, <3>2, ReachSplit
    <2> QED
      BY <1>3, <2>1 DEF Current
  <1> QED
    BY <1>1, <1>2, <1>3

\* A whole binary no older than any source it was made from is fresh.
LEMMA NotOlderIsFresh ==
    ASSUME TypeOK, BinInv, NEW f \in Files, bin[f].magic,
           \A g \in Reach(f) : src[g].time <= bin[f].time
    PROVE  Fresh(f)
  <1>1. \A x \in bin[f].prov : x[1] \in Reach(f) /\ x[2] = src[x[1]].ver
    BY DEF BinInv
  <1>2. bin[f].prov \in Prov
    BY DEF TypeOK, Binary
  <1>3. bin[f].prov \subseteq Current(f)
    <2> SUFFICES ASSUME NEW x \in bin[f].prov PROVE x \in Current(f)
      OBVIOUS
    <2>1. x = <<x[1], x[2]>>
      BY <1>2 DEF Prov
    <2> QED
      BY <1>1, <2>1 DEF Current
  <1>4. ASSUME NEW g \in Reach(f) PROVE <<g, src[g].ver>> \in bin[f].prov
    <2>1. PICK x \in bin[f].prov : x[1] = g
      BY DEF BinInv
    <2>2. x = <<x[1], x[2]>>
      BY <1>2 DEF Prov
    <2> QED
      BY <1>1, <2>1, <2>2
  <1> QED
    BY <1>3, <1>4 DEF Current, Fresh, BinInv

(***************************************************************************)
(* Stacks whose activations work on ever lower files.                       *)
(***************************************************************************)

\* The last index and those before it.
LEMMA Indices ==
    \A n \in Nat \ {0} : /\ n \in 1..n
                         /\ \A i \in 1..n : i # n => i < n /\ i \in 1..(n - 1)
                         /\ 1..(n - 1) \subseteq 1..n
                         /\ \A i \in 1..(n - 1) : i # n /\ i + 1 \in 1..n
  OBVIOUS

\* What is left of a stack is as ordered as it was.
LEMMA OrderedPop ==
    ASSUME NEW S, NEW s \in Seq(S), s # <<>>, Ordered(s)
    PROVE  Ordered(Pop(s))
  <1>1. /\ Len(s) \in Nat \ {0} /\ DOMAIN s = 1..Len(s)
        /\ DOMAIN Pop(s) = 1..(Len(s) - 1)
        /\ \A i \in 1..(Len(s) - 1) : Pop(s)[i] = s[i]
    BY PopLemma, LenProperties
  <1>2. 1..(Len(s) - 1) \subseteq 1..Len(s)
    BY <1>1
  <1> QED
    BY <1>1, <1>2, SMTT(30) DEF Ordered

\* The top may change what it has still to do, not its file.
LEMMA OrderedSetTop ==
    ASSUME NEW S, NEW s \in Seq(S), s # <<>>, Ordered(s),
           NEW e \in S, e.file = Top(s).file, e.todo \subseteq Imports[e.file]
    PROVE  Ordered(SetTop(s, e))
  <1> DEFINE t == SetTop(s, e)
  <1>1. /\ Len(s) \in Nat \ {0} /\ DOMAIN s = 1..Len(s) /\ Len(s) \in 1..Len(s)
        /\ DOMAIN t = 1..Len(s)
        /\ t[Len(s)] = e
        /\ \A i \in 1..Len(s) : i # Len(s) => t[i] = s[i]
    <2>1. Len(s) \in Nat \ {0} /\ DOMAIN s = 1..Len(s) /\ Len(s) \in 1..Len(s)
      BY PopLemma, LenProperties, Indices
    <2>2. /\ DOMAIN t = 1..Len(s)
          /\ t[Len(s)] = e
          /\ \A i \in 1..Len(s) : i # Len(s) => t[i] = s[i]
      BY SetTopLemma, SMTT(30)
    <2> QED
      BY <2>1, <2>2
  <1>2. \A i \in 1..Len(s) : t[i].file = s[i].file
    BY <1>1, ZenonT(40) DEF Top
  <1>3. \A i \in 1..Len(s) : t[i].todo \subseteq Imports[t[i].file]
    BY <1>1, ZenonT(40) DEF Ordered
  <1> HIDE DEF t
  <1>4. \A i, j \in DOMAIN t : i < j => t[j].file \in Under(t[i].file)
    BY <1>1, <1>2, ZenonT(40) DEF Ordered
  <1>5. Ordered(t)
    BY <1>1, <1>3, <1>4 DEF Ordered
  <1> QED
    BY <1>5 DEF t

\* A call on something that the top imports keeps the order.
LEMMA OrderedPush ==
    ASSUME NEW S, NEW s \in Seq(S), Ordered(s), \A x \in S : x.file \in Files,
           NEW e \in S, e.todo \subseteq Imports[e.file],
           s # <<>> => e.file \in Imports[Top(s).file]
    PROVE  Ordered(Append(s, e))
  <1> DEFINE t == Append(s, e)  n == Len(s)
  <1>1. /\ n \in Nat /\ DOMAIN s = 1..n
        /\ DOMAIN t = 1..(n + 1)
        /\ t[n + 1] = e
        /\ \A i \in 1..n : t[i] = s[i]
    BY AppendProperties, LenProperties
  <1>2. ASSUME NEW i \in 1..n PROVE e.file \in Under(s[i].file)
    <2>1. s # <<>> /\ n \in 1..n /\ s[i].file \in Files /\ s[n].file \in Files
      BY <1>1, <1>2, EmptySeq, ElementOfSeq
    <2>2. e.file \in Imports[s[n].file]
      BY <2>1 DEF Top
    <2>3. CASE i = n
      BY <2>1, <2>2, <2>3, UnderClosed
    <2>4. CASE i # n
      <3>1. i < n
        <4>1. n \in Nat \ {0}
          BY <1>1, <2>1
        <4> QED
          BY <1>2, <2>4, <4>1, Indices, Zenon
      <3>2. s[n].file \in Under(s[i].file)
        BY <1>1, <2>1, <3>1 DEF Ordered
      <3> QED
        BY <2>1, <2>2, <3>2, UnderClosed
    <2> QED
      BY <2>3, <2>4
  <1>3. ASSUME NEW i \in 1..(n + 1), NEW j \in 1..(n + 1), i < j
        PROVE  t[j].file \in Under(t[i].file)
    <2>1. CASE j = n + 1
      <3>1. i \in 1..n
        BY <1>1, <1>3, <2>1
      <3> QED
        BY <1>1, <1>2, <2>1, <3>1
    <2>2. CASE j # n + 1
      <3>1. i \in 1..n /\ j \in 1..n
        BY <1>1, <1>3, <2>2
      <3> QED
        BY <1>1, <1>3, <3>1 DEF Ordered
    <2> QED
      BY <2>1, <2>2
  <1>4. ASSUME NEW i \in 1..(n + 1) PROVE t[i].todo \subseteq Imports[t[i].file]
    <2>1. i = n + 1 \/ i \in 1..n
      BY <1>1
    <2> QED
      BY <1>1, <2>1 DEF Ordered
  <1> HIDE DEF t, n
  <1>5. Ordered(t)
    BY <1>1, <1>3, <1>4 DEF Ordered
  <1> QED
    BY <1>5 DEF t

\* No file is worked on twice in a stack, and what the top of it imports is
\* not being worked on.
LEMMA OrderedDistinct ==
    ASSUME Acyclic, NEW S, NEW s \in Seq(S), Ordered(s), \A x \in S : x.file \in Files
    PROVE  /\ \A i, j \in DOMAIN s : i # j => s[i].file # s[j].file
           /\ s # <<>> => \A i \in DOMAIN s : s[i].file \notin Imports[Top(s).file]
  <1>1. Len(s) \in Nat /\ DOMAIN s = 1..Len(s)
    BY LenProperties
  <1>2. \A i \in DOMAIN s : s[i].file \in Files
    BY <1>1, ElementOfSeq
  <1>3. ASSUME NEW i \in DOMAIN s, NEW j \in DOMAIN s, i < j PROVE s[i].file # s[j].file
    BY <1>2, <1>3 DEF Ordered, Acyclic
  <1>4. \A i, j \in DOMAIN s : i # j => i < j \/ j < i
    BY <1>1
  <1>5. ASSUME s # <<>>, NEW i \in DOMAIN s PROVE s[i].file \notin Imports[Top(s).file]
    <2> SUFFICES ASSUME s[i].file \in Imports[Top(s).file] PROVE FALSE
      OBVIOUS
    <2>1. Len(s) \in DOMAIN s /\ Top(s) = s[Len(s)]
      BY <1>1, <1>5, EmptySeq DEF Top
    <2>2. CASE i = Len(s)
      BY <1>2, <2>1, <2>2, UnderClosed DEF Acyclic
    <2>3. CASE i # Len(s)
      <3>1. i < Len(s)
        BY <1>1, <2>3
      <3>2. s[Len(s)].file \in Under(s[i].file)
        BY <2>1, <3>1, SMTT(30) DEF Ordered
      <3> QED
        BY <1>2, <2>1, <3>2, UnderClosed DEF Acyclic
    <2> QED
      BY <2>2, <2>3
  <1> QED
    BY <1>3, <1>4, <1>5

\* A stack of checks: its top, what is below it, and what replaces the top.
LEMMA CheckStackFacts ==
    \A s \in Seq(CheckFrame) : s # <<>> =>
        /\ Len(s) \in Nat \ {0} /\ Len(s) \in 1..Len(s) /\ DOMAIN s = 1..Len(s)
        /\ Top(s) = s[Len(s)] /\ Top(s) \in CheckFrame
        /\ Pop(s) \in Seq(CheckFrame) /\ DOMAIN Pop(s) = 1..(Len(s) - 1)
        /\ \A i \in 1..(Len(s) - 1) : Pop(s)[i] = s[i]
        /\ 1..(Len(s) - 1) \subseteq 1..Len(s)
        /\ \A i \in 1..Len(s) : i # Len(s) => i \in 1..(Len(s) - 1)
        /\ \A e \in CheckFrame :
              /\ SetTop(s, e) \in Seq(CheckFrame)
              /\ DOMAIN SetTop(s, e) = 1..Len(s)
              /\ SetTop(s, e)[Len(s)] = e
              /\ \A i \in 1..Len(s) : i # Len(s) => SetTop(s, e)[i] = s[i]
  <1> SUFFICES ASSUME NEW s \in Seq(CheckFrame), s # <<>>
      PROVE  /\ Len(s) \in Nat \ {0} /\ Len(s) \in 1..Len(s) /\ DOMAIN s = 1..Len(s)
             /\ Top(s) = s[Len(s)] /\ Top(s) \in CheckFrame
             /\ Pop(s) \in Seq(CheckFrame) /\ DOMAIN Pop(s) = 1..(Len(s) - 1)
             /\ \A i \in 1..(Len(s) - 1) : Pop(s)[i] = s[i]
             /\ 1..(Len(s) - 1) \subseteq 1..Len(s)
             /\ \A i \in 1..Len(s) : i # Len(s) => i \in 1..(Len(s) - 1)
             /\ \A e \in CheckFrame :
                   /\ SetTop(s, e) \in Seq(CheckFrame)
                   /\ DOMAIN SetTop(s, e) = 1..Len(s)
                   /\ SetTop(s, e)[Len(s)] = e
                   /\ \A i \in 1..Len(s) : i # Len(s) => SetTop(s, e)[i] = s[i]
    OBVIOUS
  <1>1. Len(s) \in Nat \ {0} /\ DOMAIN s = 1..Len(s)
    BY PopLemma, LenProperties
  <1>2. /\ Len(s) \in 1..Len(s) /\ 1..(Len(s) - 1) \subseteq 1..Len(s)
        /\ \A i \in 1..Len(s) : i # Len(s) => i \in 1..(Len(s) - 1)
    BY <1>1, Indices
  <1>3. /\ Top(s) \in CheckFrame /\ Pop(s) \in Seq(CheckFrame) /\ DOMAIN Pop(s) = 1..(Len(s) - 1)
        /\ \A i \in 1..(Len(s) - 1) : Pop(s)[i] = s[i]
    BY PopLemma
  <1>4. \A e \in CheckFrame :
           /\ SetTop(s, e) \in Seq(CheckFrame)
           /\ DOMAIN SetTop(s, e) = 1..Len(s)
           /\ SetTop(s, e)[Len(s)] = e
           /\ \A i \in 1..Len(s) : i # Len(s) => SetTop(s, e)[i] = s[i]
    BY SetTopLemma
  <1>5. Top(s) = s[Len(s)]
    BY DEF Top
  <1> QED
    BY <1>1, <1>2, <1>3, <1>4, <1>5

\* No file is worked on twice in a stack of checks.
LEMMA CheckStackDistinct ==
    Acyclic => \A s \in Seq(CheckFrame) : Ordered(s) =>
        /\ \A i, j \in DOMAIN s : i # j => s[i].file # s[j].file
        /\ s # <<>> => \A i \in DOMAIN s : s[i].file \notin Imports[Top(s).file]
  <1>1. \A x \in CheckFrame : x.file \in Files
    BY DEF CheckFrame
  <1> QED
    BY <1>1, OrderedDistinct

\* A stack of imports: its top, what is below it, and what replaces the top.
LEMMA ImportStackFacts ==
    \A s \in Seq(ImportFrame) : s # <<>> =>
        /\ Len(s) \in Nat \ {0} /\ Len(s) \in 1..Len(s) /\ DOMAIN s = 1..Len(s)
        /\ Top(s) = s[Len(s)] /\ Top(s) \in ImportFrame
        /\ Pop(s) \in Seq(ImportFrame) /\ DOMAIN Pop(s) = 1..(Len(s) - 1)
        /\ \A i \in 1..(Len(s) - 1) : Pop(s)[i] = s[i]
        /\ 1..(Len(s) - 1) \subseteq 1..Len(s)
        /\ \A i \in 1..Len(s) : i # Len(s) => i \in 1..(Len(s) - 1)
        /\ \A e \in ImportFrame :
              /\ SetTop(s, e) \in Seq(ImportFrame)
              /\ DOMAIN SetTop(s, e) = 1..Len(s)
              /\ SetTop(s, e)[Len(s)] = e
              /\ \A i \in 1..Len(s) : i # Len(s) => SetTop(s, e)[i] = s[i]
  <1> SUFFICES ASSUME NEW s \in Seq(ImportFrame), s # <<>>
      PROVE  /\ Len(s) \in Nat \ {0} /\ Len(s) \in 1..Len(s) /\ DOMAIN s = 1..Len(s)
             /\ Top(s) = s[Len(s)] /\ Top(s) \in ImportFrame
             /\ Pop(s) \in Seq(ImportFrame) /\ DOMAIN Pop(s) = 1..(Len(s) - 1)
             /\ \A i \in 1..(Len(s) - 1) : Pop(s)[i] = s[i]
             /\ 1..(Len(s) - 1) \subseteq 1..Len(s)
             /\ \A i \in 1..Len(s) : i # Len(s) => i \in 1..(Len(s) - 1)
             /\ \A e \in ImportFrame :
                   /\ SetTop(s, e) \in Seq(ImportFrame)
                   /\ DOMAIN SetTop(s, e) = 1..Len(s)
                   /\ SetTop(s, e)[Len(s)] = e
                   /\ \A i \in 1..Len(s) : i # Len(s) => SetTop(s, e)[i] = s[i]
    OBVIOUS
  <1>1. Len(s) \in Nat \ {0} /\ DOMAIN s = 1..Len(s)
    BY PopLemma, LenProperties
  <1>2. /\ Len(s) \in 1..Len(s) /\ 1..(Len(s) - 1) \subseteq 1..Len(s)
        /\ \A i \in 1..Len(s) : i # Len(s) => i \in 1..(Len(s) - 1)
    BY <1>1, Indices
  <1>3. /\ Top(s) \in ImportFrame /\ Pop(s) \in Seq(ImportFrame) /\ DOMAIN Pop(s) = 1..(Len(s) - 1)
        /\ \A i \in 1..(Len(s) - 1) : Pop(s)[i] = s[i]
    BY PopLemma
  <1>4. \A e \in ImportFrame :
           /\ SetTop(s, e) \in Seq(ImportFrame)
           /\ DOMAIN SetTop(s, e) = 1..Len(s)
           /\ SetTop(s, e)[Len(s)] = e
           /\ \A i \in 1..Len(s) : i # Len(s) => SetTop(s, e)[i] = s[i]
    BY SetTopLemma
  <1>5. Top(s) = s[Len(s)]
    BY DEF Top
  <1> QED
    BY <1>1, <1>2, <1>3, <1>4, <1>5

\* No file is worked on twice in a stack of imports.
LEMMA ImportStackDistinct ==
    Acyclic => \A s \in Seq(ImportFrame) : Ordered(s) =>
        /\ \A i, j \in DOMAIN s : i # j => s[i].file # s[j].file
        /\ s # <<>> => \A i \in DOMAIN s : s[i].file \notin Imports[Top(s).file]
  <1>1. \A x \in ImportFrame : x.file \in Files
    BY DEF ImportFrame
  <1> QED
    BY <1>1, OrderedDistinct

(***************************************************************************)
(* Binaries change by becoming fresh.                                       *)
(***************************************************************************)

\* A fresh binary is replaced by fresh ones only.
LEMMA FreshKept ==
    ASSUME src' = src, NEW f \in Files, bin'[f] = bin[f] \/ Fresh(f)', Fresh(f)
    PROVE  Fresh(f)'
  BY DEF Fresh, Current

\* What a check has found stays so for whoever is in the middle of one.
LEMMA FrameKept ==
    ASSUME src' = src, NEW fr \in CheckFrame, FrameInv(fr),
           bin'[fr.file] = bin[fr.file] \/ Fresh(fr.file)'
    PROVE  FrameInv(fr)'
  <1>1. CASE fr.phase = "stat"
    BY <1>1 DEF FrameInv
  <1>2. CASE fr.phase # "stat" /\ Fresh(fr.file)
    <2>1. Fresh(fr.file)'
      BY <1>2, FreshKept DEF CheckFrame
    <2> QED
      BY <2>1 DEF FrameInv
  <1>3. CASE fr.phase # "stat" /\ ~Fresh(fr.file)
    <2>1. CASE bin'[fr.file] = bin[fr.file]
      BY <1>3, <2>1 DEF FrameInv
    <2>2. CASE Fresh(fr.file)'
      BY <2>2 DEF FrameInv
    <2> QED
      BY <2>1, <2>2
  <1> QED
    BY <1>1, <1>2, <1>3

\* A process that does nothing keeps its invariant while others make
\* binaries fresh.
LEMMA Bystander ==
    ASSUME TypeOK, NEW q \in Procs, ProcInv(q), src' = src,
           \A f \in Files : bin'[f] = bin[f] \/ Fresh(f)',
           (q \in running') = (q \in running),
           checks'[q] = checks[q], imps'[q] = imps[q], imported'[q] = imported[q],
           loaded'[q] = loaded[q], import_state'[q] = import_state[q]
    PROVE  ProcInv(q)'
  <1>1. IdleInv(q)'
    BY DEF ProcInv, IdleInv
  <1>2. CheckInv(q)'
    <2>1. Ordered(checks[q])'
      BY DEF ProcInv, CheckInv, Ordered
    <2>2. ASSUME NEW i \in DOMAIN checks[q] PROVE FrameInv(checks[q][i])'
      <3>1. checks[q][i] \in CheckFrame
        <4>1. checks[q] \in Seq(CheckFrame)
          BY DEF TypeOK
        <4> QED
          BY <2>2, <4>1, ElementOfSeq, LenProperties
      <3>2. PICK fr \in CheckFrame : fr = checks[q][i]
        BY <3>1
      <3>3. FrameInv(fr)
        BY <2>2, <3>2 DEF ProcInv, CheckInv
      <3>4. FrameInv(fr)'
        BY <3>3, FrameKept DEF CheckFrame
      <3> QED
        BY <3>2, <3>4 DEF FrameInv
    <2>3. ASSUME NEW f \in Files, import_state[q][f] = "good" PROVE Fresh(f)'
      BY <2>3, FreshKept DEF ProcInv, CheckInv
    <2> QED
      BY <2>1, <2>2, <2>3 DEF ProcInv, CheckInv
  <1>3. ImportInv(q)'
    <2>1. Ordered(imps[q])'
      BY DEF ProcInv, ImportInv, Ordered
    <2>2. ASSUME NEW i \in DOMAIN imps[q]
          PROVE  (imps[q][i].file \in imported[q] /\ LoadedInv(q, i))'
      BY <2>2 DEF ProcInv, ImportInv, LoadedInv, Current
    <2>3. ASSUME NEW f \in Files, Done(q, f)' PROVE (loaded[q][f] = Current(f))'
      BY <2>3 DEF ProcInv, ImportInv, Done, Current
    <2> QED
      BY <2>1, <2>2, <2>3 DEF ImportInv
  <1> QED
    BY <1>1, <1>2, <1>3 DEF ProcInv

(***************************************************************************)
(* check_import_state.                                                      *)
(***************************************************************************)

\* The running check of a process is that of a running process, on a file
\* that is not being checked further down.
LEMMA CheckFacts ==
    ASSUME TypeOK, Acyclic, NEW p \in Procs, ProcInv(p), Checking(p)
    PROVE  /\ p \in running
           /\ checks[p] \in Seq(CheckFrame) /\ checks[p] # <<>>
           /\ Top(checks[p]) \in CheckFrame /\ Top(checks[p]).file \in Files
           /\ FrameInv(Top(checks[p]))
           /\ Top(checks[p]).todo \subseteq Imports[Top(checks[p]).file]
           /\ \A c \in Imports[Top(checks[p]).file] :
                 c \in Files /\ import_state[p][c] # "unknown"
  <1>1. p \in running /\ checks[p] # <<>> /\ checks[p] \in Seq(CheckFrame)
    BY DEF ProcInv, IdleInv, Checking, TypeOK
  <1>2. /\ Top(checks[p]) \in CheckFrame /\ Top(checks[p]).file \in Files
        /\ Len(checks[p]) \in DOMAIN checks[p] /\ Top(checks[p]) = checks[p][Len(checks[p])]
    BY <1>1, CheckStackFacts DEF CheckFrame
  <1>3. FrameInv(Top(checks[p])) /\ Top(checks[p]).todo \subseteq Imports[Top(checks[p]).file]
    BY <1>2 DEF ProcInv, CheckInv, Ordered
  <1>4. ASSUME NEW c \in Imports[Top(checks[p]).file]
        PROVE  c \in Files /\ import_state[p][c] # "unknown"
    <2>1. c \in Files
      BY <1>2, ImportsAssumption
    <2>2. \A i \in DOMAIN checks[p] : checks[p][i].file # c
      BY <1>1, <1>4, CheckStackDistinct DEF ProcInv, CheckInv
    <2> QED
      BY <2>1, <2>2 DEF ProcInv, CheckInv
  <1> QED
    BY <1>1, <1>2, <1>3, <1>4

\* A check changes nothing that the imports of its process rely on.
LEMMA CheckKeepsImports ==
    ASSUME NEW p \in Procs, ImportInv(p), UNCHANGED <<src, imported, loaded, imps>>,
           \A i \in DOMAIN imps[p] : imps[p][i].file \in Files,
           \A f \in Files : import_state[p][f] # "none" => import_state'[p][f] # "none"
    PROVE  ImportInv(p)'
  <1>1. ASSUME NEW i \in DOMAIN imps[p]
        PROVE  (imps[p][i].file \in imported[p] /\ LoadedInv(p, i))'
    <2>1. LoadedInv(p, i) /\ imps[p][i].file \in imported[p]
      BY <1>1 DEF ImportInv
    <2>2. imps[p][i].phase = "check" => import_state'[p][imps[p][i].file] # "none"
      BY <2>1, <1>1, SMTT(30) DEF LoadedInv
    <2> QED
      BY <2>1, <2>2 DEF LoadedInv, Current
  <1> QED
    BY <1>1 DEF ImportInv, Ordered, Done, Current

\* A check that goes on.
LEMMA CheckGoesOn ==
    ASSUME TypeOK, NEW p \in Procs, CheckInv(p), Checking(p),
           NEW e \in CheckFrame, e.file = Top(checks[p]).file,
           e.todo \subseteq Imports[e.file], FrameInv(e),
           checks' = [checks EXCEPT ![p] = SetTop(checks[p], e)],
           UNCHANGED <<src, bin, import_state>>
    PROVE  CheckInv(p)'
  <1> DEFINE s == checks[p]  t == SetTop(s, e)
  <1>1. s \in Seq(CheckFrame) /\ s # <<>> /\ Ordered(s) /\ checks'[p] = t
    BY DEF TypeOK, Checking, CheckInv
  <1>2. Len(s) \in Nat \ {0} /\ DOMAIN s = 1..Len(s) /\ Len(s) \in 1..Len(s)
    BY <1>1, CheckStackFacts
  <1>3. /\ DOMAIN t = 1..Len(s) /\ t[Len(s)] = e
        /\ \A i \in 1..Len(s) : i # Len(s) => t[i] = s[i]
    BY <1>1, CheckStackFacts
  <1>4. Ordered(t)
    BY <1>1, OrderedSetTop
  <1>5. \A i \in 1..Len(s) : t[i].file = s[i].file
    BY <1>2, <1>3 DEF Top
  <1>6. \A i \in DOMAIN t : FrameInv(t[i])
    BY <1>2, <1>3 DEF CheckInv
  <1> HIDE DEF t
  <1>7. Ordered(checks'[p])
    BY <1>1, <1>4
  <1>8. \A i \in DOMAIN checks'[p] : FrameInv(checks'[p][i])
    BY <1>1, <1>6
  <1>9. \A f \in Files : import_state[p][f] = "unknown" =>
           \E i \in DOMAIN checks'[p] : checks'[p][i].file = f
    BY <1>1, <1>2, <1>3, <1>5 DEF CheckInv
  <1> QED
    BY <1>7, <1>8, <1>9 DEF CheckInv, FrameInv, Fresh, Current, Ordered

\* A check that returns: a good verdict is about a fresh binary.
LEMMA CheckReturns ==
    ASSUME TypeOK, NEW p \in Procs, CheckInv(p), Checking(p),
           NEW verdict \in {"good", "bad"}, CheckReturn(p, verdict),
           verdict = "good" => Fresh(Top(checks[p]).file),
           UNCHANGED <<src, bin>>
    PROVE  CheckInv(p)'
  <1> DEFINE s == checks[p]  t == Pop(s)  f0 == Top(s).file
  <1>1. s \in Seq(CheckFrame) /\ s # <<>> /\ Ordered(s) /\ checks'[p] = t
    BY DEF TypeOK, Checking, CheckInv, CheckReturn
  <1>2. /\ Len(s) \in Nat \ {0} /\ DOMAIN s = 1..Len(s) /\ f0 \in Files
        /\ DOMAIN t = 1..(Len(s) - 1) /\ \A i \in 1..(Len(s) - 1) : t[i] = s[i]
    BY <1>1, CheckStackFacts DEF CheckFrame
  <1>3. /\ 1..(Len(s) - 1) \subseteq 1..Len(s)
        /\ \A i \in 1..Len(s) : i # Len(s) => i \in 1..(Len(s) - 1)
    BY <1>2, Indices
  <1>4. Ordered(t)
    BY <1>1, OrderedPop
  <1>5. \A i \in DOMAIN t : FrameInv(t[i])
    BY <1>2, <1>3 DEF CheckInv
  <1>6. /\ import_state'[p][f0] = verdict
        /\ \A f \in Files : f # f0 => import_state'[p][f] = import_state[p][f]
    BY <1>2 DEF CheckReturn, TypeOK
  <1>7. ASSUME NEW f \in Files, import_state'[p][f] = "unknown"
        PROVE  \E i \in DOMAIN t : t[i].file = f
    <2>1. f # f0 /\ import_state[p][f] = "unknown"
      BY <1>6, <1>7
    <2>2. PICK i \in DOMAIN s : s[i].file = f
      BY <2>1 DEF CheckInv
    <2>3. i # Len(s)
      BY <2>1, <2>2 DEF Top
    <2> QED
      BY <1>2, <1>3, <2>2, <2>3
  <1>8. ASSUME NEW f \in Files, import_state'[p][f] = "good" PROVE Fresh(f)
    <2>1. CASE f = f0
      BY <1>6, <1>8, <2>1
    <2>2. CASE f # f0
      BY <1>6, <1>8, <2>2 DEF CheckInv
    <2> QED
      BY <2>1, <2>2
  <1> HIDE DEF t
  <1>9. Ordered(checks'[p]) /\ \A i \in DOMAIN checks'[p] : FrameInv(checks'[p][i])
    BY <1>1, <1>4, <1>5
  <1>10. \A f \in Files : import_state'[p][f] = "unknown" =>
            \E i \in DOMAIN checks'[p] : checks'[p][i].file = f
    BY <1>1, <1>7, SMTT(30)
  <1> QED
    BY <1>8, <1>9, <1>10 DEF CheckInv, FrameInv, Fresh, Current, Ordered

\* A check that calls itself for an import, or the first one for a file.
LEMMA CheckIsCalled ==
    ASSUME TypeOK, NEW p \in Procs, CheckInv(p), NEW c \in Files,
           checks[p] # <<>> => c \in Imports[Top(checks[p]).file],
           checks' = [checks EXCEPT ![p] = Append(checks[p], CheckCall(c))],
           import_state' = [import_state EXCEPT ![p][c] = "unknown"],
           UNCHANGED <<src, bin>>
    PROVE  CheckInv(p)'
  <1> DEFINE s == checks[p]  e == CheckCall(c)  t == Append(s, e)
  <1>1. s \in Seq(CheckFrame) /\ Ordered(s) /\ checks'[p] = t
    BY DEF TypeOK, CheckInv
  <1>2. e \in CheckFrame /\ e.file = c /\ e.phase = "stat" /\ e.todo = {}
    BY DEF CheckCall, CheckFrame, Time
  <1>3. /\ Len(s) \in Nat /\ DOMAIN s = 1..Len(s)
        /\ DOMAIN t = 1..(Len(s) + 1) /\ t[Len(s) + 1] = e
        /\ \A i \in 1..Len(s) : t[i] = s[i]
    BY <1>1, <1>2, AppendProperties, LenProperties
  <1>4. /\ 1..Len(s) \subseteq 1..(Len(s) + 1) /\ Len(s) + 1 \in 1..(Len(s) + 1)
        /\ \A i \in 1..(Len(s) + 1) : i = Len(s) + 1 \/ i \in 1..Len(s)
    <2>1. \A n \in Nat : /\ 1..n \subseteq 1..(n + 1) /\ n + 1 \in 1..(n + 1)
                         /\ \A i \in 1..(n + 1) : i = n + 1 \/ i \in 1..n
      OBVIOUS
    <2> QED
      BY <1>3, <2>1
  <1> HIDE DEF e
  <1>5. Ordered(t)
    <2>1. \A x \in CheckFrame : x.file \in Files
      BY DEF CheckFrame
    <2> QED
      BY <1>1, <1>2, <2>1, OrderedPush
  <1>6. \A i \in DOMAIN t : FrameInv(t[i])
    <2>1. FrameInv(e)
      BY <1>2 DEF FrameInv
    <2> QED
      BY <1>3, <1>4, <2>1 DEF CheckInv
  <1>7. /\ import_state'[p][c] = "unknown"
        /\ \A f \in Files : f # c => import_state'[p][f] = import_state[p][f]
    BY DEF TypeOK
  <1>8. ASSUME NEW f \in Files, import_state'[p][f] = "unknown"
        PROVE  \E i \in DOMAIN t : t[i].file = f
    <2>1. CASE f = c
      BY <1>2, <1>3, <1>4, <2>1
    <2>2. CASE f # c
      <3>1. PICK i \in DOMAIN s : s[i].file = f
        BY <1>7, <1>8, <2>2 DEF CheckInv
      <3> QED
        BY <1>3, <1>4, <3>1
    <2> QED
      BY <2>1, <2>2
  <1>9. ASSUME NEW f \in Files, import_state'[p][f] = "good" PROVE Fresh(f)
    BY <1>7, <1>9 DEF CheckInv
  <1> HIDE DEF t
  <1>10. Ordered(checks'[p]) /\ \A i \in DOMAIN checks'[p] : FrameInv(checks'[p][i])
    BY <1>1, <1>5, <1>6
  <1>11. \A f \in Files : import_state'[p][f] = "unknown" =>
            \E i \in DOMAIN checks'[p] : checks'[p][i].file = f
    BY <1>1, <1>8
  <1> QED
    BY <1>9, <1>10, <1>11 DEF CheckInv, FrameInv, Fresh, Current, Ordered

\* The activations of v_import_helper are on files.
LEMMA ImportFiles ==
    ASSUME TypeOK, NEW p \in Procs
    PROVE  \A i \in DOMAIN imps[p] : imps[p][i] \in ImportFrame /\ imps[p][i].file \in Files
  <1>1. imps[p] \in Seq(ImportFrame)
    BY DEF TypeOK
  <1>2. \A i \in DOMAIN imps[p] : imps[p][i] \in ImportFrame
    BY <1>1, ElementOfSeq, LenProperties
  <1> QED
    BY <1>2 DEF ImportFrame

\* Whatever a step of check_import_state does to its own stack, the rest of
\* the process is as before.
LEMMA CheckKeepsRest ==
    ASSUME TypeOK, NEW p \in Procs, ProcInv(p), p \in running, CheckInv(p)',
           UNCHANGED <<src, running, imported, loaded, imps>>,
           \A f \in Files : import_state[p][f] # "none" => import_state'[p][f] # "none"
    PROVE  ProcInv(p)'
  <1>1. ImportInv(p)'
    BY CheckKeepsImports, ImportFiles DEF ProcInv
  <1>2. IdleInv(p)'
    BY DEF IdleInv
  <1> QED
    BY <1>1, <1>2 DEF ProcInv

\* A check that returns keeps the whole invariant of its process.
LEMMA CheckReturnsRest ==
    ASSUME TypeOK, NEW p \in Procs, ProcInv(p), p \in running, Checking(p),
           Top(checks[p]).file \in Files,
           NEW verdict \in {"good", "bad"}, CheckReturn(p, verdict),
           verdict = "good" => Fresh(Top(checks[p]).file),
           UNCHANGED <<fileVars, running, main, imported, loaded, imps, runs>>
    PROVE  ProcInv(p)'
  <1>1. CheckInv(p)'
    BY CheckReturns DEF ProcInv, fileVars
  <1>2. \A f \in Files : import_state[p][f] # "none" => import_state'[p][f] # "none"
    BY DEF CheckReturn, TypeOK
  <1> QED
    BY <1>1, <1>2, CheckKeepsRest DEF fileVars

\* So does one that goes on.
LEMMA CheckGoesOnRest ==
    ASSUME TypeOK, NEW p \in Procs, ProcInv(p), p \in running, Checking(p),
           NEW e \in CheckFrame, e.file = Top(checks[p]).file,
           e.todo \subseteq Imports[e.file], FrameInv(e),
           checks' = [checks EXCEPT ![p] = SetTop(checks[p], e)],
           UNCHANGED <<import_state, fileVars, running, main, imported, loaded, imps, runs>>
    PROVE  ProcInv(p)'
  <1>1. CheckInv(p)'
    BY CheckGoesOn DEF ProcInv, fileVars
  <1> QED
    BY <1>1, CheckKeepsRest DEF fileVars

\* Every step of check_import_state keeps the invariant of its process.
LEMMA CheckFresh ==
    ASSUME TypeOK, BinInv, Acyclic, NEW p \in Procs, ProcInv(p), NEW c \in Files,
           CheckStat(p) \/ CheckOpen(p) \/ CheckImport(p, c) \/ CheckDone(p)
    PROVE  ProcInv(p)'
  <1> DEFINE fr == Top(checks[p])
  <1>1. Checking(p)
    BY DEF CheckStat, CheckOpen, CheckImport, CheckDone
  <1>2. /\ p \in running /\ checks[p] \in Seq(CheckFrame) /\ checks[p] # <<>>
        /\ fr \in CheckFrame /\ fr.file \in Files /\ FrameInv(fr)
        /\ fr.todo \subseteq Imports[fr.file]
        /\ \A d \in Imports[fr.file] : d \in Files /\ import_state[p][d] # "unknown"
    BY <1>1, CheckFacts
  <1>3. CASE CheckStat(p)
    <2>1. CASE CheckReturn(p, "bad")
      BY <1>1, <1>2, <1>3, <2>1, CheckReturnsRest DEF CheckStat
    <2>2. CASE ~(~bin[fr.file].exists \/ src[fr.file].time > bin[fr.file].time)
      <3> DEFINE e == [fr EXCEPT !.phase = "open", !.time = bin[fr.file].time]
      <3>1. e \in CheckFrame /\ e.file = fr.file /\ e.todo = fr.todo /\ e.phase = "open" /\ e.time = bin[fr.file].time
        BY <1>2 DEF CheckFrame, TypeOK, Binary
      <3>2. src[fr.file].time <= bin[fr.file].time
        <4>1. src[fr.file].time \in Nat /\ bin[fr.file].time \in Nat
          BY <1>2 DEF TypeOK, Source, Binary, Time
        <4> QED
          BY <2>2, <4>1
      <3>3. /\ checks' = [checks EXCEPT ![p] = SetTop(checks[p], e)]
            /\ UNCHANGED <<import_state, fileVars, running, main, imported, loaded, imps, runs>>
        BY <1>3, <2>2 DEF CheckStat
      <3>4. FrameInv(e)
        BY <2>2, <3>1, <3>2 DEF FrameInv
      <3> HIDE DEF e
      <3> QED
        BY <1>1, <1>2, <3>1, <3>3, <3>4, CheckGoesOnRest
    <2> QED
      BY <1>3, <2>1, <2>2 DEF CheckStat
  <1>4. CASE CheckOpen(p)
    <2>1. CASE CheckReturn(p, "bad")
      BY <1>1, <1>2, <1>4, <2>1, CheckReturnsRest DEF CheckOpen
    <2>2. CASE bin[fr.file].magic
      <3> DEFINE e == [fr EXCEPT !.phase = "imports", !.todo = Imports[fr.file]]
      <3>1. /\ e \in CheckFrame /\ e.file = fr.file /\ e.todo = Imports[fr.file]
            /\ e.phase = "imports" /\ e.time = fr.time
        BY <1>2, ImportsAssumption DEF CheckFrame
      <3>2. /\ checks' = [checks EXCEPT ![p] = SetTop(checks[p], e)]
            /\ UNCHANGED <<import_state, fileVars, running, main, imported, loaded, imps, runs>>
        BY <1>4, <2>2 DEF CheckOpen
      <3>3. fr.phase = "open"
        BY <1>4 DEF CheckOpen
      <3>4. FrameInv(e)
        BY <1>2, <2>2, <3>1, <3>3 DEF FrameInv
      <3> HIDE DEF e
      <3> QED
        BY <1>1, <1>2, <3>1, <3>2, <3>4, CheckGoesOnRest
    <2> QED
      BY <1>4, <2>1, <2>2 DEF CheckOpen
  <1>5. CASE CheckImport(p, c)
    <2>1. c \in fr.todo /\ c \in Imports[fr.file] /\ fr.phase = "imports"
          /\ UNCHANGED <<fileVars, running, main, imported, loaded, imps, runs>>
      BY <1>2, <1>5 DEF CheckImport
    <2>2. CASE CheckReturn(p, "bad")
      BY <1>1, <1>2, <2>1, <2>2, CheckReturnsRest
    <2>3. CASE /\ import_state[p][c] # "none"
               /\ ImportUsable(p, c, fr.time)
               /\ checks' = [checks EXCEPT ![p] = SetTop(@, [fr EXCEPT !.todo = @ \ {c}])]
               /\ UNCHANGED import_state
      <3> DEFINE e == [fr EXCEPT !.todo = @ \ {c}]
      <3>1. /\ e \in CheckFrame /\ e.file = fr.file /\ e.todo = fr.todo \ {c}
            /\ e.phase = "imports" /\ e.time = fr.time
        BY <1>2, <2>1 DEF CheckFrame
      <3>2. import_state[p][c] = "good"
        BY <1>2, <2>1, <2>3 DEF ImportUsable, TypeOK, import_state_t
      <3>3. Fresh(c) /\ ~(bin[c].time > fr.time)
        BY <2>3, <3>2 DEF ProcInv, CheckInv, ImportUsable
      <3>4. ASSUME NEW g \in Reach(c) PROVE src[g].time <= fr.time
        <4>1. g \in Files
          BY <3>4 DEF Reach
        <4>2. src[g].time <= bin[c].time
          BY <3>3, <3>4 DEF Fresh
        <4>3. src[g].time \in Nat /\ bin[c].time \in Nat /\ fr.time \in Nat
          BY <1>2, <4>1 DEF TypeOK, Source, Binary, Time, CheckFrame
        <4> QED
          BY <3>3, <4>2, <4>3
      <3>5. FrameInv(e)
        <4>1. \A d \in Imports[fr.file] \ e.todo : d = c \/ d \in Imports[fr.file] \ fr.todo
          BY <3>1
        <4> QED
          BY <1>2, <2>1, <3>1, <3>4, <4>1 DEF FrameInv
      <3>6. checks' = [checks EXCEPT ![p] = SetTop(checks[p], e)]
        BY <2>3
      <3>7. e.todo \subseteq Imports[e.file]
        BY <1>2, <3>1
      <3> HIDE DEF e
      <3> QED
        BY <1>1, <1>2, <2>1, <2>3, <3>1, <3>5, <3>6, <3>7, CheckGoesOnRest
    <2>4. CASE /\ import_state[p][c] = "none"
               /\ checks' = [checks EXCEPT ![p] = Append(@, CheckCall(c))]
               /\ import_state' = [import_state EXCEPT ![p][c] = "unknown"]
      <3>1. CheckInv(p)'
        BY <2>1, <2>4, CheckIsCalled DEF ProcInv, fileVars
      <3>2. \A f \in Files : import_state[p][f] # "none" => import_state'[p][f] # "none"
        BY <2>4 DEF TypeOK
      <3> QED
        BY <1>2, <2>1, <3>1, <3>2, CheckKeepsRest DEF fileVars
    <2> QED
      BY <1>5, <2>2, <2>3, <2>4 DEF CheckImport
  <1>6. CASE CheckDone(p)
    <2>1. fr.phase = "imports" /\ fr.todo = {} /\ CheckReturn(p, "good")
          /\ UNCHANGED <<fileVars, running, main, imported, loaded, imps, runs>>
      BY <1>6 DEF CheckDone
    <2>2. Fresh(fr.file)
      <3>1. CASE Fresh(fr.file)
        BY <3>1
      <3>2. CASE ~Fresh(fr.file)
        <4>1. /\ bin[fr.file].time = fr.time /\ src[fr.file].time <= fr.time /\ bin[fr.file].magic
              /\ \A d \in Imports[fr.file] : \A g \in Reach(d) : src[g].time <= fr.time
          BY <1>2, <2>1, <3>2 DEF FrameInv
        <4>2. \A g \in Reach(fr.file) : src[g].time <= bin[fr.file].time
          BY <1>2, <4>1, ReachSplit
        <4> QED
          BY <1>2, <4>1, <4>2, NotOlderIsFresh
      <3> QED
        BY <3>1, <3>2
    <2> QED
      BY <1>1, <1>2, <2>1, <2>2, CheckReturnsRest
  <1> QED
    BY <1>3, <1>4, <1>5, <1>6

(***************************************************************************)
(* v_import_helper.                                                         *)
(***************************************************************************)

\* What goes into the units of a file from anything below it is current.
LEMMA UnderCurrent ==
    ASSUME NEW f \in Files, NEW g \in Under(f)
    PROVE  Current(g) \subseteq Current(f)
  <1>1. g \in Reach(f)
    BY UnderClosed
  <1>2. Reach(g) \subseteq Reach(f)
    BY <1>1, ReachTransitive
  <1> QED
    BY <1>2 DEF Current

\* The running import of a process is that of a running process, on a file
\* that is imported nowhere else in the stack, and no check is open.
LEMMA ImportFacts ==
    ASSUME TypeOK, Acyclic, NEW p \in Procs, ProcInv(p), ~Checking(p), imps[p] # <<>>
    PROVE  /\ p \in running /\ checks[p] = <<>>
           /\ imps[p] \in Seq(ImportFrame) /\ Ordered(imps[p])
           /\ Top(imps[p]) \in ImportFrame /\ Top(imps[p]).file \in Files
           /\ Top(imps[p]).file \in imported[p]
           /\ Top(imps[p]) = imps[p][Len(imps[p])] /\ DOMAIN imps[p] = 1..Len(imps[p])
           /\ Len(imps[p]) \in Nat \ {0} /\ Len(imps[p]) \in DOMAIN imps[p]
           /\ LoadedInv(p, Len(imps[p]))
           /\ Top(imps[p]).todo \subseteq Imports[Top(imps[p]).file]
           /\ \A i, j \in DOMAIN imps[p] : i # j => imps[p][i].file # imps[p][j].file
           /\ \A i \in DOMAIN imps[p] : imps[p][i].file \notin Imports[Top(imps[p]).file]
           /\ \A f \in Files : import_state[p][f] # "unknown"
  <1>1. p \in running /\ checks[p] = <<>> /\ imps[p] \in Seq(ImportFrame)
    BY DEF ProcInv, IdleInv, Checking, TypeOK
  <1>2. /\ Top(imps[p]) \in ImportFrame /\ Top(imps[p]).file \in Files
        /\ Top(imps[p]) = imps[p][Len(imps[p])] /\ DOMAIN imps[p] = 1..Len(imps[p])
        /\ Len(imps[p]) \in Nat \ {0} /\ Len(imps[p]) \in DOMAIN imps[p]
    BY <1>1, ImportStackFacts DEF ImportFrame
  <1>3. /\ Ordered(imps[p]) /\ LoadedInv(p, Len(imps[p]))
        /\ Top(imps[p]).file \in imported[p]
    BY <1>2 DEF ProcInv, ImportInv
  <1>4. Top(imps[p]).todo \subseteq Imports[Top(imps[p]).file]
    BY <1>2, <1>3 DEF Ordered
  <1>5. /\ \A i, j \in DOMAIN imps[p] : i # j => imps[p][i].file # imps[p][j].file
        /\ \A i \in DOMAIN imps[p] : imps[p][i].file \notin Imports[Top(imps[p]).file]
    BY <1>1, <1>3, ImportStackDistinct
  <1>6. \A f \in Files : import_state[p][f] # "unknown"
    <2>1. DOMAIN <<>> = {}
      BY EmptySeq, LenProperties
    <2> QED
      BY <1>1, <2>1 DEF ProcInv, CheckInv
  <1> QED
    BY <1>1, <1>2, <1>3, <1>4, <1>5, <1>6

\* An import that goes on: its own activation changes, and what it has loaded.
LEMMA ImportGoesOn ==
    ASSUME TypeOK, Acyclic, NEW p \in Procs, ProcInv(p), ~Checking(p), imps[p] # <<>>,
           NEW e \in ImportFrame, e.file = Top(imps[p]).file,
           e.todo \subseteq Imports[e.file],
           imps' = [imps EXCEPT ![p] = SetTop(imps[p], e)],
           NEW v, loaded' = [loaded EXCEPT ![p][e.file] = v],
           UNCHANGED <<src, bin, running, checks, import_state, imported>>,
           NEW k, k = Len(imps[p]), LoadedInv(p, k)'
    PROVE  ProcInv(p)'
  <1> DEFINE s == imps[p]  n == Len(s)  t == SetTop(s, e)
  <1>1. /\ p \in running /\ checks[p] = <<>> /\ s \in Seq(ImportFrame) /\ Ordered(s)
        /\ Top(s).file \in Files /\ Top(s).file \in imported[p]
        /\ Top(s) = s[n] /\ DOMAIN s = 1..n /\ n \in Nat \ {0} /\ n \in DOMAIN s
        /\ \A i, j \in DOMAIN s : i # j => s[i].file # s[j].file
    BY ImportFacts
  <1>2. /\ t \in Seq(ImportFrame) /\ DOMAIN t = 1..n /\ t[n] = e
        /\ \A i \in 1..n : i # n => t[i] = s[i]
    BY ImportStackFacts, <1>1
  <1>3. Ordered(t)
    BY <1>1, OrderedSetTop
  <1>4. imps'[p] = t
    BY DEF TypeOK
  <1>5. \A i \in 1..n : t[i].file = s[i].file
    BY <1>1, <1>2
  <1>6. /\ loaded'[p][e.file] = v
        /\ \A f \in Files : f # e.file => loaded'[p][f] = loaded[p][f]
    BY <1>1, SMTT(30) DEF TypeOK
  <1> HIDE DEF t
  <1>7. ASSUME NEW i \in 1..n, i # n PROVE LoadedInv(p, i)'
    <2>1. LoadedInv(p, i) /\ s[i].file # e.file /\ s[i].file \in Files
      BY <1>1, <1>7, ImportFiles DEF ProcInv, ImportInv
    <2>2. imps'[p][i] = s[i] /\ loaded'[p][s[i].file] = loaded[p][s[i].file]
      BY <1>2, <1>4, <1>6, <1>7, <2>1
    <2>3. \A c : i + 1 \in DOMAIN s /\ s[i + 1].file = c
                => i + 1 \in DOMAIN imps'[p] /\ imps'[p][i + 1].file = c
      BY <1>1, <1>2, <1>4, <1>5
    <2>4. UNCHANGED <<src, import_state>>
      OBVIOUS
    <2> QED
      BY <2>1, <2>2, <2>3, <2>4 DEF LoadedInv, Current
  <1>8. \A i \in DOMAIN imps'[p] : imps'[p][i].file \in imported'[p] /\ LoadedInv(p, i)'
    <2>1. \A i \in DOMAIN s : s[i].file \in imported[p]
      BY DEF ProcInv, ImportInv
    <2>2. DOMAIN imps'[p] = 1..n /\ imported' = imported
      BY <1>2, <1>4
    <2>3. \A i \in 1..n : LoadedInv(p, i)'
      BY <1>7
    <2> QED
      BY <1>1, <1>4, <1>5, <2>1, <2>2, <2>3
  <1>9. ASSUME NEW f \in Files, Done(p, f)' PROVE (loaded[p][f] = Current(f))'
    <2>1. Done(p, f) /\ f # e.file
      BY <1>1, <1>2, <1>4, <1>5, <1>9 DEF Done
    <2> QED
      BY <1>6, <2>1 DEF ProcInv, ImportInv, Current
  <1>10. ImportInv(p)'
    BY <1>3, <1>4, <1>8, <1>9 DEF ImportInv, Ordered
  <1>11. CheckInv(p)'
    BY DEF ProcInv, CheckInv, Ordered, FrameInv, Fresh, Current
  <1>12. IdleInv(p)'
    BY <1>1 DEF IdleInv
  <1> QED
    BY <1>10, <1>11, <1>12 DEF ProcInv

\* The binary of a file judged good is fresh when it is opened.
LEMMA OpenedIsFresh ==
    ASSUME TypeOK, Acyclic, NEW p \in Procs, ProcInv(p), Importing(p),
           Top(imps[p]).phase = "check", import_state[p][Top(imps[p]).file] # "bad"
    PROVE  Fresh(Top(imps[p]).file)
  <1> DEFINE f == Top(imps[p]).file
  <1>1. f \in Files /\ import_state[p][f] # "unknown" /\ import_state[p][f] # "none"
    BY ImportFacts DEF Importing, LoadedInv
  <1>2. import_state[p][f] = "good"
    BY <1>1 DEF TypeOK, import_state_t
  <1> QED
    BY <1>1, <1>2 DEF ProcInv, CheckInv

\* The opening of a binary or a source and the end of a compilation.
LEMMA OpenFresh ==
    ASSUME TypeOK, Acyclic, NEW p \in Procs, ProcInv(p),
           OpenBinary(p) \/ OpenSource(p) \/ CloseBinary(p)
    PROVE  ProcInv(p)'
  <1> DEFINE fr == Top(imps[p])
  <1>0. PICK n : n = Len(imps[p])
    OBVIOUS
  <1>1. Importing(p) /\ ~Checking(p) /\ imps[p] # <<>>
    BY DEF OpenBinary, OpenSource, CloseBinary, Importing
  <1>2. /\ imps[p] \in Seq(ImportFrame) /\ fr \in ImportFrame /\ fr.file \in Files
        /\ fr = imps[p][n] /\ LoadedInv(p, n) /\ n \in Nat \ {0} /\ DOMAIN imps[p] = 1..n
        /\ fr.todo \subseteq Imports[fr.file] /\ Imports[fr.file] \subseteq Files
    BY <1>0, <1>1, ImportFacts, ImportsAssumption
  <1>3. \A e \in ImportFrame : SetTop(imps[p], e)[n] = e /\ DOMAIN SetTop(imps[p], e) = 1..n
    BY <1>0, <1>1, <1>2, ImportStackFacts
  <1>4. CASE OpenBinary(p)
    <2> DEFINE e == [fr EXCEPT !.phase = "binary", !.todo = Imports[fr.file]]
               v == bin[fr.file].prov
    <2>1. e \in ImportFrame /\ e.file = fr.file /\ e.phase = "binary" /\ e.todo = Imports[e.file]
      BY <1>2 DEF ImportFrame
    <2>2. v = Current(fr.file)
      BY <1>1, <1>4, OpenedIsFresh DEF OpenBinary, Fresh
    <2>3. /\ imps' = [imps EXCEPT ![p] = SetTop(imps[p], e)]
          /\ loaded' = [loaded EXCEPT ![p][e.file] = v]
          /\ UNCHANGED <<src, bin, running, checks, import_state, imported>>
      BY <1>4, <2>1 DEF OpenBinary, fileVars
    <2> HIDE DEF e, v
    <2>4. imps'[p][n] = e /\ loaded'[p][e.file] = v
      BY <1>2, <1>3, <2>1, <2>3 DEF TypeOK
    <2>5. LoadedInv(p, n)'
      BY <2>1, <2>2, <2>3, <2>4 DEF LoadedInv, Current
    <2> QED
      BY <1>0, <1>1, <2>1, <2>3, <2>5, ImportGoesOn
  <1>5. CASE OpenSource(p)
    <2> DEFINE e == [fr EXCEPT !.phase = "compile", !.todo = Imports[fr.file]]
               v == {<<fr.file, src[fr.file].ver>>}
    <2>1. e \in ImportFrame /\ e.file = fr.file /\ e.phase = "compile" /\ e.todo = Imports[e.file]
      BY <1>2 DEF ImportFrame
    <2>2. v \subseteq Current(fr.file) /\ <<fr.file, src[fr.file].ver>> \in v
      BY <1>2, CurrentSplit
    <2>3. /\ imps' = [imps EXCEPT ![p] = SetTop(imps[p], e)]
          /\ loaded' = [loaded EXCEPT ![p][e.file] = v]
          /\ UNCHANGED <<src, bin, running, checks, import_state, imported>>
      BY <1>5, <2>1 DEF OpenSource, fileVars
    <2> HIDE DEF e, v
    <2>4. imps'[p][n] = e /\ loaded'[p][e.file] = v
      BY <1>2, <1>3, <2>1, <2>3 DEF TypeOK
    <2>5. LoadedInv(p, n)'
      BY <2>1, <2>2, <2>3, <2>4 DEF LoadedInv, Current
    <2> QED
      BY <1>0, <1>1, <2>1, <2>3, <2>5, ImportGoesOn
  <1>6. CASE CloseBinary(p)
    <2> DEFINE e == [fr EXCEPT !.phase = "closed", !.time = clock + 1]
               v == loaded[p][fr.file]
    <2>1. e \in ImportFrame /\ e.file = fr.file /\ e.phase = "closed" /\ e.todo = fr.todo
          /\ e.time = clock + 1
      <3>1. clock + 1 \in Time
        BY DEF TypeOK, Time
      <3> QED
        BY <1>2, <3>1 DEF ImportFrame
    <2>2. v = Current(fr.file)
      <3>1. fr.phase = "compile" /\ fr.todo = {} /\ n + 1 \notin DOMAIN imps[p]
        BY <1>2, <1>6 DEF CloseBinary
      <3> QED
        BY <1>2, <3>1, CurrentSplit DEF LoadedInv
    <2>3. \A g \in Files : src[g].time <= clock + 1
      BY DEF TypeOK, Source, Time
    <2>4. /\ imps' = [imps EXCEPT ![p] = SetTop(imps[p], e)]
          /\ loaded' = [loaded EXCEPT ![p][e.file] = v]
          /\ UNCHANGED <<src, bin, running, checks, import_state, imported>>
      BY <1>2, <1>6, <2>1 DEF CloseBinary, TypeOK
    <2> HIDE DEF e, v
    <2>5. imps'[p][n] = e /\ loaded'[p][e.file] = v
      BY <1>2, <1>3, <2>1, <2>4 DEF TypeOK
    <2>6. LoadedInv(p, n)'
      BY <2>1, <2>2, <2>3, <2>4, <2>5 DEF LoadedInv, Current, Reach
    <2> QED
      BY <1>0, <1>1, <1>2, <2>1, <2>4, <2>6, ImportGoesOn
  <1> QED
    BY <1>4, <1>5, <1>6

\* What the running units ask for again is done: it is not below them in the
\* stack, for then it would import itself.
LEMMA AgainFresh ==
    ASSUME TypeOK, Acyclic, NEW p \in Procs, ProcInv(p), NEW f \in Files, ImportAgain(p, f)
    PROVE  ProcInv(p)'
  <1>1. /\ ~Checking(p) /\ f \in imported[p]
        /\ imps' = [imps EXCEPT ![p] = Asked(p, f)] /\ loaded' = Merge(p, imps[p], f)
        /\ UNCHANGED <<src, bin, running, checks, import_state, imported>>
    BY SMTT(30) DEF ImportAgain, Wants, fileVars
  <1>2. CASE imps[p] = <<>>
    <2>1. imps' = imps /\ loaded' = loaded
      BY <1>1, <1>2 DEF Asked, Merge, TypeOK
    <2> QED
      BY <1>1, <2>1, SMTT(30) DEF ProcInv, IdleInv, CheckInv, ImportInv, LoadedInv, Ordered, FrameInv,
                        Fresh, Current, Done
  <1>3. CASE imps[p] # <<>>
    <2> DEFINE fr == Top(imps[p])  e == [fr EXCEPT !.todo = @ \ {f}]
               v == IF fr.phase = "compile" THEN loaded[p][fr.file] \cup loaded[p][f]
                                            ELSE loaded[p][fr.file]
    <2>0. PICK n : n = Len(imps[p])
      OBVIOUS
    <2>1. /\ imps[p] \in Seq(ImportFrame) /\ fr \in ImportFrame /\ fr.file \in Files
          /\ fr = imps[p][n] /\ LoadedInv(p, n) /\ n \in Nat \ {0} /\ DOMAIN imps[p] = 1..n
          /\ fr.todo \subseteq Imports[fr.file]
          /\ \A i \in DOMAIN imps[p] : imps[p][i].file \notin Imports[fr.file]
      BY <1>1, <1>3, <2>0, ImportFacts
    <2>2. f \in fr.todo /\ f \in Imports[fr.file] /\ fr.phase \in {"binary", "compile"}
      BY <1>3, <2>1 DEF ImportAgain, Wants
    <2>3. Current(f) = loaded[p][f] /\ Current(f) \subseteq Current(fr.file)
      <3>1. Done(p, f)
        BY <1>1, <2>1, <2>2 DEF Done
      <3> QED
        BY <2>1, <2>2, <3>1, CurrentSplit DEF ProcInv, ImportInv
    <2>4. e \in ImportFrame /\ e.file = fr.file /\ e.phase = fr.phase /\ e.todo = fr.todo \ {f}
      BY <2>1 DEF ImportFrame
    <2>5. imps' = [imps EXCEPT ![p] = SetTop(imps[p], e)]
      BY <1>1, <1>3 DEF Asked
    <2>6. loaded' = [loaded EXCEPT ![p][e.file] = v]
      <3>1. CASE fr.phase = "compile"
        BY <1>1, <1>3, <2>4, <3>1 DEF Merge
      <3>2. CASE fr.phase # "compile"
        BY <1>1, <1>3, <2>1, <2>4, <3>2 DEF Merge, TypeOK
      <3> QED
        BY <3>1, <3>2
    <2>7. SetTop(imps[p], e)[n] = e /\ DOMAIN SetTop(imps[p], e) = 1..n
      BY <1>3, <2>0, <2>1, <2>4, ImportStackFacts
    <2>8. /\ fr.phase = "compile" => v = loaded[p][fr.file] \cup loaded[p][f]
          /\ fr.phase # "compile" => v = loaded[p][fr.file]
      OBVIOUS
    <2> HIDE DEF e, v
    <2>9. imps'[p][n] = e /\ loaded'[p][e.file] = v
      BY <2>1, <2>4, <2>5, <2>6, <2>7 DEF TypeOK
    <2>10. n + 1 \notin DOMAIN imps[p]
      BY <2>1
    <2>11. LoadedInv(p, n)'
      <3>1. CASE fr.phase = "binary"
        BY <1>1, <2>1, <2>4, <2>8, <2>9, <3>1 DEF LoadedInv, Current
      <3>2. CASE fr.phase = "compile"
        <4>1. /\ v \subseteq Current(fr.file) /\ <<fr.file, src[fr.file].ver>> \in v
          BY <2>1, <2>3, <2>8, <3>2 DEF LoadedInv
        <4>2. \A c \in Imports[fr.file] \ e.todo : Current(c) \subseteq v
          BY <2>1, <2>3, <2>4, <2>8, <2>10, <3>2 DEF LoadedInv
        <4> QED
          BY <1>1, <2>4, <2>9, <3>2, <4>1, <4>2 DEF LoadedInv, Current
      <3> QED
        BY <2>2, <3>1, <3>2
    <2>12. e.todo \subseteq Imports[e.file]
      BY <2>1, <2>4
    <2> QED
      BY <1>1, <1>3, <2>0, <2>4, <2>5, <2>6, <2>11, <2>12, ImportGoesOn
  <1> QED
    BY <1>2, <1>3

\* The stack of a process that has asked for f: the same activations.
LEMMA AskedFacts ==
    ASSUME TypeOK, Acyclic, NEW p \in Procs, ProcInv(p), ~Checking(p), NEW f \in Files, Wants(p, f)
    PROVE  LET s == imps[p]  t == Asked(p, f)  n == Len(imps[p]) IN
           /\ s \in Seq(ImportFrame) /\ t \in Seq(ImportFrame)
           /\ n \in Nat /\ Len(t) = n /\ DOMAIN s = 1..n /\ DOMAIN t = 1..n
           /\ Ordered(t)
           /\ \A i \in 1..n : i # n => t[i] = s[i]
           /\ \A i \in 1..n : t[i].file = s[i].file /\ t[i].phase = s[i].phase
           /\ n # 0 => t[n].todo = s[n].todo \ {f} /\ s[n].phase \in {"binary", "compile"}
           /\ t # <<>> => f \in Imports[Top(t).file]
  <1>0. imps[p] \in Seq(ImportFrame) /\ <<>> \in Seq(ImportFrame) /\ Len(<<>>) = 0 /\ DOMAIN <<>> = {}
    BY EmptySeq, LenProperties DEF TypeOK
  <1>1. CASE imps[p] = <<>>
    <2>1. Asked(p, f) = <<>>
      BY <1>1 DEF Asked
    <2>2. 1..0 = {}
      OBVIOUS
    <2> QED
      BY <1>0, <1>1, <2>1, <2>2 DEF Ordered
  <1>2. CASE imps[p] # <<>>
    <2> DEFINE s == imps[p]  fr == Top(s)  n == Len(s)  e == [fr EXCEPT !.todo = @ \ {f}]
               t == SetTop(s, e)
    <2>1. /\ s \in Seq(ImportFrame) /\ Ordered(s) /\ fr \in ImportFrame /\ fr.file \in Files
          /\ fr = s[n] /\ n \in Nat \ {0} /\ DOMAIN s = 1..n
          /\ fr.todo \subseteq Imports[fr.file]
      BY <1>2, ImportFacts
    <2>2. f \in fr.todo /\ fr.phase \in {"binary", "compile"}
      BY <1>2 DEF Wants
    <2>3. /\ e \in ImportFrame /\ e.file = fr.file /\ e.phase = fr.phase /\ e.todo = fr.todo \ {f}
      BY <2>1 DEF ImportFrame
    <2>4. /\ t \in Seq(ImportFrame) /\ DOMAIN t = 1..n /\ t[n] = e
          /\ \A i \in 1..n : i # n => t[i] = s[i]
      BY <1>2, <2>1, <2>3, ImportStackFacts
    <2>5. Len(t) = n /\ Top(t) = e /\ t # <<>>
      BY <1>2, <2>1, <2>3, SetTopLemma
    <2>6. Ordered(t)
      BY <1>2, <2>1, <2>3, OrderedSetTop
    <2>7. Asked(p, f) = t
      BY <1>2 DEF Asked
    <2> HIDE DEF e, t
    <2>8. \A i \in 1..n : t[i].file = s[i].file /\ t[i].phase = s[i].phase
      BY <2>1, <2>3, <2>4
    <2> QED
      BY <2>1, <2>2, <2>3, <2>4, <2>5, <2>6, <2>7, <2>8
  <1> QED
    BY <1>1, <1>2

\* The first import of a file puts an activation on the stack of imports and
\* a check on the empty stack of checks.
LEMMA FirstFresh ==
    ASSUME TypeOK, Acyclic, NEW p \in Procs, ProcInv(p), NEW f \in Files, ImportFirst(p, f)
    PROVE  ProcInv(p)'
  <1> DEFINE s == imps[p]  a == Asked(p, f)
             e == [file |-> f, phase |-> "check", time |-> 0, todo |-> {}]
             t == Append(a, e)
  <1>0. PICK n : n = Len(imps[p])
    OBVIOUS
  <1>1. /\ ~Checking(p) /\ checks[p] = <<>> /\ p \in running /\ Wants(p, f) /\ f \notin imported[p]
        /\ imps' = [imps EXCEPT ![p] = t]
        /\ imported' = [imported EXCEPT ![p] = @ \cup {f}]
        /\ UNCHANGED <<src, bin, running, loaded>>
    BY DEF ImportFirst, Wants, fileVars, Checking
  <1>2. /\ s \in Seq(ImportFrame) /\ a \in Seq(ImportFrame)
        /\ n \in Nat /\ Len(a) = n /\ DOMAIN s = 1..n /\ DOMAIN a = 1..n
        /\ Ordered(a)
        /\ \A i \in 1..n : i # n => a[i] = s[i]
        /\ \A i \in 1..n : a[i].file = s[i].file /\ a[i].phase = s[i].phase
        /\ n # 0 => a[n].todo = s[n].todo \ {f} /\ s[n].phase \in {"binary", "compile"}
        /\ a # <<>> => f \in Imports[Top(a).file]
    BY <1>0, <1>1, AskedFacts
  <1>3. e \in ImportFrame /\ e.file = f /\ e.phase = "check" /\ e.todo = {}
    BY DEF ImportFrame, Time
  <1> HIDE DEF a, e
  <1>4. /\ DOMAIN t = 1..(n + 1) /\ t[n + 1] = e /\ \A i \in 1..n : t[i] = a[i]
        /\ imps'[p] = t
    <2>1. /\ DOMAIN t = 1..(n + 1) /\ t[n + 1] = e /\ \A i \in 1..n : t[i] = a[i]
      BY <1>2, <1>3, AppendProperties, LenProperties
    <2> QED
      BY <1>1, <2>1 DEF TypeOK
  <1>5. /\ 1..n \subseteq 1..(n + 1) /\ n + 1 \in 1..(n + 1)
        /\ \A i \in 1..(n + 1) : i = n + 1 \/ i \in 1..n
    <2>1. \A m \in Nat : /\ 1..m \subseteq 1..(m + 1) /\ m + 1 \in 1..(m + 1)
                         /\ \A i \in 1..(m + 1) : i = m + 1 \/ i \in 1..m
      OBVIOUS
    <2> QED
      BY <1>2, <2>1
  <1>6. Ordered(t)
    <2>1. \A x \in ImportFrame : x.file \in Files
      BY DEF ImportFrame
    <2> QED
      BY <1>2, <1>3, <2>1, OrderedPush
  <1> HIDE DEF t
  <1>7. /\ CheckInv(p)' /\ import_state'[p][f] # "none"
        /\ \A g \in Files : import_state[p][g] # "none" => import_state'[p][g] # "none"
    <2>1. CASE import_state[p][f] = "none"
      <3>1. /\ checks' = [checks EXCEPT ![p] = <<CheckCall(f)>>]
            /\ import_state' = [import_state EXCEPT ![p][f] = "unknown"]
        BY <2>1 DEF ImportFirst
      <3>2. <<CheckCall(f)>> = Append(checks[p], CheckCall(f))
        BY <1>1
      <3>3. CheckInv(p)'
        BY <1>1, <3>1, <3>2, CheckIsCalled DEF ProcInv
      <3> QED
        BY <3>1, <3>3 DEF TypeOK
    <2>2. CASE import_state[p][f] # "none"
      <3>1. UNCHANGED <<checks, import_state>>
        BY <2>2 DEF ImportFirst
      <3> QED
        BY <1>1, <2>2, <3>1 DEF ProcInv, CheckInv, Ordered, FrameInv, Fresh, Current
    <2> QED
      BY <2>1, <2>2
  <1>8. imported'[p] = imported[p] \cup {f}
    BY <1>1 DEF TypeOK
  <1>9. ASSUME NEW i \in 1..(n + 1) PROVE imps'[p][i].file \in imported'[p] /\ LoadedInv(p, i)'
    <2>1. CASE i = n + 1
      BY <1>3, <1>4, <1>7, <1>8, <2>1 DEF LoadedInv
    <2>2. CASE i \in 1..n
      <3>1. LoadedInv(p, i) /\ s[i].file \in imported[p] /\ s[i].file \in Files
        BY <1>2, <2>2, ImportFiles, SMTT(30) DEF ProcInv, ImportInv
      <3>2. imps'[p][i] = a[i] /\ a[i].file = s[i].file /\ a[i].phase = s[i].phase
        BY <1>2, <1>4, <2>2
      <3>3. CASE i # n
        <4>1. a[i] = s[i] /\ i + 1 \in 1..n
          BY <1>2, <2>2, <3>3, Indices
        <4>2. i + 1 \in DOMAIN imps'[p] /\ imps'[p][i + 1].file = s[i + 1].file
          BY <1>2, <1>4, <1>5, <4>1
        <4> QED
          BY <1>1, <1>7, <1>8, <3>1, <3>2, <4>1, <4>2 DEF LoadedInv, Current
      <3>4. CASE i = n
        <4>1. /\ n # 0 /\ n + 1 \notin DOMAIN s /\ a[n].todo = s[n].todo \ {f}
              /\ s[n].phase \in {"binary", "compile"}
          BY <1>2, <2>2, <3>4
        <4>2. i + 1 \in DOMAIN imps'[p] /\ imps'[p][i + 1].file = f
          BY <1>3, <1>4, <1>5, <3>4
        <4>3. CASE s[n].phase = "binary"
          BY <1>1, <3>1, <3>2, <3>4, <4>3, SMTT(30) DEF LoadedInv, Current
        <4>4. CASE s[n].phase = "compile"
          <5>1. \A c \in Imports[s[n].file] \ a[n].todo :
                   c = f \/ Current(c) \subseteq loaded[p][s[n].file]
            BY <3>1, <3>4, <4>1, <4>4 DEF LoadedInv
          <5> QED
            BY <1>1, <3>1, <3>2, <3>4, <4>2, <4>4, <5>1 DEF LoadedInv, Current
        <4> QED
          BY <4>1, <4>3, <4>4
      <3>5. imps'[p][i].file \in imported'[p]
        BY <1>8, <3>1, <3>2
      <3> QED
        BY <3>3, <3>4, <3>5
    <2> QED
      BY <1>5, <2>1, <2>2
  <1>10. ASSUME NEW g \in Files, Done(p, g)' PROVE (loaded[p][g] = Current(g))'
    <2>1. g # f
      BY <1>3, <1>4, <1>5, <1>10 DEF Done
    <2>2. Done(p, g)
      BY <1>2, <1>4, <1>5, <1>8, <1>10, <2>1 DEF Done
    <2> QED
      BY <1>1, <2>2 DEF ProcInv, ImportInv, Current
  <1>11. ImportInv(p)'
    BY <1>4, <1>6, <1>9, <1>10 DEF ImportInv, Ordered
  <1>12. IdleInv(p)'
    BY <1>1 DEF IdleInv
  <1> QED
    BY <1>7, <1>11, <1>12 DEF ProcInv

\* A new binary is fresh: it was closed after all its sources were written.
LEMMA RenamedIsFresh ==
    ASSUME TypeOK, BinInv, Acyclic, NEW p \in Procs, ProcInv(p), Rename(p)
    PROVE  /\ BinInv'
           /\ \A f \in Files : bin'[f] = bin[f] \/ Fresh(f)'
  <1> DEFINE fr == Top(imps[p])
  <1>0. PICK f0 : f0 = fr.file
    OBVIOUS
  <1>1. PICK b : b = [exists |-> TRUE, magic |-> TRUE, time |-> fr.time, prov |-> loaded[p][f0]]
    OBVIOUS
  <1>2. ~Checking(p) /\ imps[p] # <<>> /\ fr.phase = "closed" /\ bin' = [bin EXCEPT ![f0] = b]
        /\ src' = src
    BY <1>0, <1>1 DEF Rename, Importing
  <1>3. /\ f0 \in Files /\ b.exists /\ b.magic /\ b.prov = Current(f0)
        /\ \A g \in Reach(f0) : src[g].time <= b.time
    <2>1. /\ f0 \in Files /\ loaded[p][f0] = Current(f0)
          /\ \A g \in Reach(f0) : src[g].time <= fr.time
      BY <1>0, <1>2, ImportFacts DEF LoadedInv
    <2> QED
      BY <1>1, <2>1
  <1>4. bin'[f0] = b /\ \A f \in Files : f # f0 => bin'[f] = bin[f]
    BY <1>2, <1>3 DEF TypeOK
  <1>5. Fresh(f0)'
    BY <1>2, <1>3, <1>4 DEF Fresh, Current
  <1>6. ASSUME NEW f \in Files, bin'[f].magic
        PROVE  /\ bin'[f].exists
               /\ \A g \in Reach(f) : \E x \in bin'[f].prov : x[1] = g
               /\ \A x \in bin'[f].prov :
                     /\ x[1] \in Reach(f)
                     /\ x[2] = src'[x[1]].ver \/ ~(src'[x[1]].time <= bin'[f].time)
    <2>1. CASE f = f0
      <3>1. bin'[f].exists /\ bin'[f].prov = {<<g, src[g].ver>> : g \in Reach(f)}
        BY <1>3, <1>4, <2>1 DEF Current
      <3>2. \A g \in Reach(f) : \E x \in bin'[f].prov : x[1] = g
        <4> TAKE g \in Reach(f)
        <4>1. <<g, src[g].ver>> \in bin'[f].prov /\ <<g, src[g].ver>>[1] = g
          BY <3>1
        <4> QED
          BY <4>1
      <3>3. \A x \in bin'[f].prov : x[1] \in Reach(f) /\ x[2] = src'[x[1]].ver
        BY <1>2, <3>1
      <3> QED
        BY <3>1, <3>2, <3>3
    <2>2. CASE f # f0
      BY <1>2, <1>4, <1>6, <2>2 DEF BinInv
    <2> QED
      BY <2>1, <2>2
  <1>7. BinInv'
    BY <1>6 DEF BinInv
  <1>8. ASSUME NEW f \in Files PROVE bin'[f] = bin[f] \/ Fresh(f)'
    BY <1>4, <1>5, <1>8
  <1> QED
    BY <1>7, <1>8

\* An import that returns hands what it has loaded to the file that asked.
LEMMA ReturnFresh ==
    ASSUME TypeOK, BinInv, Acyclic, NEW p \in Procs, ProcInv(p), Rename(p) \/ BinaryDone(p)
    PROVE  ProcInv(p)'
  <1> DEFINE s == imps[p]  fr == Top(s)  t == Pop(s)
  <1>0. PICK n : n = Len(imps[p])
    OBVIOUS
  <1>1. /\ ~Checking(p) /\ s # <<>> /\ fr.phase \in {"binary", "closed"} /\ ImportReturn(p)
        /\ UNCHANGED <<src, running, checks, import_state, imported>>
    BY DEF Rename, BinaryDone, Importing, fileVars
  <1>2. \A f \in Files : bin'[f] = bin[f] \/ Fresh(f)'
    BY RenamedIsFresh DEF BinaryDone, fileVars
  <1>3. /\ p \in running /\ checks[p] = <<>> /\ s \in Seq(ImportFrame) /\ Ordered(s)
        /\ fr.file \in Files /\ fr = s[n] /\ DOMAIN s = 1..n /\ n \in Nat \ {0} /\ n \in DOMAIN s
        /\ loaded[p][fr.file] = Current(fr.file)
        /\ \A i, j \in DOMAIN s : i # j => s[i].file # s[j].file
    BY <1>0, <1>1, ImportFacts DEF LoadedInv
  <1>4. /\ t \in Seq(ImportFrame) /\ DOMAIN t = 1..(n - 1) /\ Len(t) = n - 1
        /\ \A i \in 1..(n - 1) : t[i] = s[i] /\ i \in DOMAIN s /\ i # n
        /\ \A i \in 1..n : i # n => i \in 1..(n - 1)
    BY <1>0, <1>1, <1>3, PopLemma, Indices
  <1>5. Ordered(t)
    BY <1>1, <1>3, OrderedPop
  <1> HIDE DEF t
  <1>6. imps'[p] = t
    BY <1>1 DEF ImportReturn, TypeOK, t
  <1>7. CheckInv(p)'
    <2>1. DOMAIN <<>> = {}
      BY EmptySeq, LenProperties
    <2>2. \A f \in Files : import_state[p][f] = "good" => Fresh(f)'
      BY <1>1, <1>2, FreshKept DEF ProcInv, CheckInv
    <2> QED
      BY <1>1, <1>3, <2>1, <2>2 DEF ProcInv, CheckInv, Ordered
  <1>8. ASSUME t # <<>>, Top(t).phase = "compile"
        PROVE  /\ n - 1 \in 1..(n - 1) /\ Top(t) = s[n - 1] /\ Top(t).file \in Files
               /\ Top(t).file # fr.file
               /\ loaded' = [loaded EXCEPT ![p][Top(t).file] = @ \cup Current(fr.file)]
               /\ Current(fr.file) \subseteq Current(Top(t).file)
    <2>1. n - 1 \in 1..(n - 1) /\ Top(t) = s[n - 1]
      <3>1. Len(t) \in Nat \ {0}
        BY <1>4, <1>8, PopLemma
      <3> QED
        BY <1>4, <3>1, Indices DEF Top
    <2>2. Top(t).file \in Files /\ Top(t).file # fr.file
      BY <1>3, <1>4, <2>1, ImportFiles
    <2>3. loaded' = [loaded EXCEPT ![p][Top(t).file] = @ \cup Current(fr.file)]
      BY <1>1, <1>3, <1>8 DEF ImportReturn, Merge, t
    <2>4. fr.file \in Under(Top(t).file)
      <3>1. n - 1 < n
        BY <1>3
      <3> QED
        BY <1>3, <1>4, <2>1, <3>1 DEF Ordered
    <2> QED
      BY <2>1, <2>2, <2>3, <2>4, UnderCurrent
  <1>9. (t = <<>> \/ Top(t).phase # "compile") => loaded' = loaded
    BY <1>1 DEF ImportReturn, Merge, t
  <1>10. ASSUME NEW i \in 1..(n - 1) PROVE imps'[p][i].file \in imported'[p] /\ LoadedInv(p, i)'
    <2>1. LoadedInv(p, i) /\ s[i].file \in imported[p] /\ s[i].file \in Files /\ imps'[p][i] = s[i]
      BY <1>3, <1>4, <1>6, ImportFiles, SMTT(30) DEF ProcInv, ImportInv
    <2>2. CASE i # n - 1
      <3>1. n - 1 \in Nat \ {0} /\ i + 1 \in 1..(n - 1)
        <4>1. n - 1 \in Nat \ {0}
          BY <1>3
        <4>2. \A m \in Nat \ {0} : \A j \in 1..m : j # m => j + 1 \in 1..m
          OBVIOUS
        <4> QED
          BY <2>2, <4>1, <4>2
      <3>2. i + 1 \in DOMAIN imps'[p] /\ imps'[p][i + 1] = s[i + 1]
        BY <1>4, <1>6, <3>1
      <3>3. loaded'[p][s[i].file] = loaded[p][s[i].file]
        BY <1>3, <1>4, <1>8, <1>9, <2>1, <2>2 DEF TypeOK
      <3> QED
        BY <1>1, <2>1, <3>2, <3>3 DEF LoadedInv, Current
    <2>3. CASE i = n - 1
      <3>1. Top(t) = s[i] /\ t # <<>>
        <4>1. t # <<>>
          BY <1>4, EmptySeq, LenProperties
        <4> QED
          BY <1>4, <2>3, <4>1 DEF Top
      <3>2. i + 1 = n
        BY <1>3, <2>3
      <3>3. CASE s[i].phase # "compile"
        <4>1. loaded' = loaded
          BY <1>9, <3>1, <3>3, SMTT(30)
        <4> QED
          BY <1>1, <2>1, <3>3, <4>1 DEF LoadedInv, Current
      <3>4. CASE s[i].phase = "compile"
        <4>1. /\ loaded'[p][s[i].file] = loaded[p][s[i].file] \cup Current(fr.file)
              /\ Current(fr.file) \subseteq Current(s[i].file)
          BY <1>8, <2>1, <3>1, <3>4 DEF TypeOK
        <4>2. \A c \in Imports[s[i].file] \ s[i].todo :
                 Current(c) \subseteq loaded[p][s[i].file] \/ c = fr.file
          BY <1>3, <2>1, <3>2, <3>4 DEF LoadedInv
        <4>3. /\ loaded[p][s[i].file] \subseteq Current(s[i].file)
              /\ <<s[i].file, src[s[i].file].ver>> \in loaded[p][s[i].file]
          BY <2>1, <3>4 DEF LoadedInv
        <4>4. /\ \A c \in Imports[s[i].file] \ s[i].todo : Current(c) \subseteq loaded'[p][s[i].file]
              /\ loaded'[p][s[i].file] \subseteq Current(s[i].file)
              /\ <<s[i].file, src[s[i].file].ver>> \in loaded'[p][s[i].file]
          BY <4>1, <4>2, <4>3
        <4> QED
          BY <1>1, <2>1, <3>4, <4>4 DEF LoadedInv, Current
      <3> QED
        BY <3>3, <3>4
    <2> QED
      BY <1>1, <2>1, <2>2, <2>3
  <1>11. ASSUME NEW f \in Files, Done(p, f)' PROVE (loaded[p][f] = Current(f))'
    <2>1. loaded'[p][f] = loaded[p][f]
      <3>1. (t # <<>> /\ Top(t).phase = "compile") => f # Top(t).file
        BY <1>4, <1>6, <1>8, <1>11 DEF Done
      <3> QED
        BY <1>8, <1>9, <3>1 DEF TypeOK
    <2>2. CASE f = fr.file
      BY <1>1, <1>3, <2>1, <2>2 DEF Current
    <2>3. CASE f # fr.file
      <3>1. Done(p, f)
        BY <1>1, <1>3, <1>4, <1>6, <1>11, <2>3 DEF Done
      <3> QED
        BY <1>1, <2>1, <3>1 DEF ProcInv, ImportInv, Current
    <2> QED
      BY <2>2, <2>3
  <1>12. ImportInv(p)'
    BY <1>4, <1>5, <1>6, <1>10, <1>11 DEF ImportInv, Ordered
  <1>13. IdleInv(p)'
    BY <1>1, <1>3 DEF IdleInv
  <1> QED
    BY <1>7, <1>12, <1>13 DEF ProcInv

(***************************************************************************)
(* Processes come and go, sources change between their runs.                *)
(***************************************************************************)

\* A process that is not running has nothing to be wrong about.
LEMMA IdleIsSafe ==
    ASSUME NEW p \in Procs, checks[p] = <<>>, imps[p] = <<>>, imported[p] = {},
           \A f \in Files : import_state[p][f] = "none"
    PROVE  ProcInv(p)
  <1>1. DOMAIN <<>> = {}
    BY EmptySeq, LenProperties
  <1> QED
    BY <1>1 DEF ProcInv, IdleInv, CheckInv, ImportInv, Ordered, Done

\* The same in the next state.
LEMMA IdleIsSafeNext ==
    ASSUME NEW p \in Procs, checks'[p] = <<>>, imps'[p] = <<>>, imported'[p] = {},
           \A f \in Files : import_state'[p][f] = "none"
    PROVE  ProcInv(p)'
  <1>1. DOMAIN <<>> = {}
    BY EmptySeq, LenProperties
  <1> QED
    BY <1>1 DEF ProcInv, IdleInv, CheckInv, ImportInv, Ordered, Done

\* Binaries stay what they are while no file changes.
LEMMA BinKept == ASSUME BinInv, UNCHANGED <<src, bin>> PROVE BinInv'
  BY DEF BinInv

\* A new process starts with empty maps.
LEMMA StartFresh ==
    ASSUME FreshInv, NEW p \in Procs, Start(p)
    PROVE  BinInv' /\ \A q \in Procs : ProcInv(q)'
  <1>1. /\ UNCHANGED <<src, bin, checks, imps, imported, loaded, import_state>>
        /\ p \notin running /\ running' = running \cup {p}
    BY DEF Start, fileVars
  <1>2. ASSUME NEW q \in Procs PROVE ProcInv(q)'
    <2>1. CASE q = p
      BY <1>1, <2>1, IdleIsSafeNext DEF FreshInv, ProcInv, IdleInv
    <2>2. CASE q # p
      BY <1>1, <2>2, Bystander DEF FreshInv
    <2> QED
      BY <2>1, <2>2
  <1> QED
    BY <1>1, <1>2, BinKept DEF FreshInv

\* The end of a process, however it comes.
LEMMA ExitFresh ==
    ASSUME FreshInv, NEW p \in Procs, Exit({p}), UNCHANGED fileVars
    PROVE  BinInv' /\ \A q \in Procs : ProcInv(q)'
  <1>1. ASSUME NEW q \in Procs PROVE ProcInv(q)'
    <2>1. CASE q = p
      BY <2>1, IdleIsSafeNext DEF Exit
    <2>2. CASE q # p
      <3>1. /\ (q \in running') = (q \in running)
            /\ checks'[q] = checks[q] /\ imps'[q] = imps[q] /\ imported'[q] = imported[q]
            /\ loaded'[q] = loaded[q] /\ import_state'[q] = import_state[q]
        BY <2>2 DEF Exit
      <3> QED
        BY <3>1, Bystander DEF FreshInv, fileVars
    <2> QED
      BY <2>1, <2>2
  <1> QED
    BY <1>1, BinKept DEF FreshInv, fileVars

\* A source written or removed while nobody runs: what was made from it is
\* older than the change.
LEMMA EditFresh ==
    ASSUME FreshInv, ~EditWhileRunning, NEW f \in Files, Edit(f) \/ Remove(f)
    PROVE  BinInv' /\ \A q \in Procs : ProcInv(q)'
  <1>1. running = {} /\ UNCHANGED <<bin, procVars>>
    BY DEF Edit, Remove
  <1>2. ASSUME NEW q \in Procs PROVE ProcInv(q)'
    BY <1>1, IdleIsSafeNext DEF FreshInv, ProcInv, IdleInv, procVars
  <1>3. ASSUME NEW g \in Files PROVE src'[g] = [src[g] EXCEPT !.exists = FALSE]
                                   \/ src'[g] = src[g] \/ src'[g].time = clock + 1
    <2>1. src \in [Files -> Source]
      BY DEF FreshInv, TypeOK
    <2>2. CASE Remove(f)
      BY <2>1, <2>2 DEF Remove
    <2>3. CASE Edit(f)
      <3>1. g # f => src'[g] = src[g]
        BY <2>1, <2>3 DEF Edit
      <3>2. g = f => src'[g].time = clock + 1
        BY <2>1, <2>3 DEF Edit
      <3> QED
        BY <3>1, <3>2
    <2> QED
      BY <2>2, <2>3
  <1>4. ASSUME NEW h \in Files PROVE ~(clock + 1 <= bin[h].time)
    BY DEF FreshInv, TypeOK, Binary, Time
  <1>5. ASSUME NEW h \in Files, bin[h].magic, NEW x \in bin[h].prov
        PROVE  x[2] = src'[x[1]].ver \/ ~(src'[x[1]].time <= bin[h].time)
    <2>1. x[1] \in Files /\ (x[2] = src[x[1]].ver \/ ~(src[x[1]].time <= bin[h].time))
      BY <1>5 DEF FreshInv, BinInv, Reach
    <2>2. CASE src'[x[1]].time = clock + 1
      BY <1>4, <2>2
    <2>3. CASE src'[x[1]] = src[x[1]]
      BY <2>1, <2>3
    <2>4. CASE src'[x[1]] = [src[x[1]] EXCEPT !.exists = FALSE]
      <3>1. src[x[1]] \in Source
        BY <2>1 DEF FreshInv, TypeOK
      <3> QED
        BY <2>1, <2>4, <3>1 DEF Source
    <2> QED
      BY <1>3, <2>1, <2>2, <2>3, <2>4
  <1>6. BinInv'
    BY <1>1, <1>5 DEF FreshInv, BinInv
  <1> QED
    BY <1>2, <1>6

\* A power loss ends every process, and spoils binaries in a way that their
\* header shows.
LEMMA PowerFresh ==
    ASSUME FreshInv, PowerLoss
    PROVE  BinInv' /\ \A q \in Procs : ProcInv(q)'
  <1>1. ASSUME NEW q \in Procs PROVE ProcInv(q)'
    BY IdleIsSafeNext DEF PowerLoss, Exit
  <1>2. PICK lost \in SUBSET Files :
           bin' = [f \in Files |-> IF f \in lost THEN [bin[f] EXCEPT !.magic = FALSE, !.prov = {}]
                                   ELSE bin[f]]
    BY DEF PowerLoss
  <1>3. ASSUME NEW f \in Files, bin'[f].magic PROVE bin'[f] = bin[f]
    <2>1. CASE f \in lost
      <3>1. bin'[f] = [bin[f] EXCEPT !.magic = FALSE, !.prov = {}] /\ bin[f] \in Binary
        BY <1>2, <2>1 DEF FreshInv, TypeOK
      <3>2. ~bin'[f].magic
        BY <3>1 DEF Binary
      <3> QED
        BY <1>3, <3>2
    <2>2. CASE f \notin lost
      BY <1>2, <2>2
    <2> QED
      BY <2>1, <2>2
  <1>4. src' = src
    BY DEF PowerLoss
  <1>5. BinInv'
    BY <1>3, <1>4 DEF FreshInv, BinInv
  <1> QED
    BY <1>1, <1>5

(***************************************************************************)
(* The invariant and the theorems.                                          *)
(***************************************************************************)

\* A step of v_import_helper or check_import_state in p is seen by another
\* process as binaries becoming fresh, or not at all.
LEMMA StepFresh ==
    ASSUME FreshInv, Acyclic, NEW p \in Procs, Step(p)
    PROVE  BinInv' /\ \A q \in Procs : ProcInv(q)'
  <1>1. CASE Finish(p) \/ NotFound(p)
    BY <1>1, ExitFresh DEF Finish, NotFound
  <1>2. CASE ~(Finish(p) \/ NotFound(p))
    <2>1. ProcInv(p)'
      <3>1. ASSUME NEW c \in Files, CheckImport(p, c) \/ ImportAgain(p, c) \/ ImportFirst(p, c)
            PROVE  ProcInv(p)'
        BY <3>1, CheckFresh, AgainFresh, FirstFresh DEF FreshInv
      <3>2. CASE CheckStat(p) \/ CheckOpen(p) \/ CheckDone(p)
        <4>1. Top(checks[p]).file \in Files
          BY <3>2, CheckFacts DEF FreshInv, CheckStat, CheckOpen, CheckDone
        <4> QED
          BY <3>2, <4>1, CheckFresh DEF FreshInv
      <3>3. CASE OpenBinary(p) \/ OpenSource(p) \/ CloseBinary(p) \/ Rename(p) \/ BinaryDone(p)
        BY <3>3, OpenFresh, ReturnFresh DEF FreshInv
      <3> QED
        BY <1>2, <3>1, <3>2, <3>3 DEF Step
    <2>2. /\ src' = src /\ running' = running
          /\ \A f \in Files : bin'[f] = bin[f] \/ Fresh(f)'
          /\ BinInv'
      <3>1. CASE Rename(p)
        BY <3>1, RenamedIsFresh DEF Rename, FreshInv
      <3>2. CASE ~Rename(p)
        <4>1. UNCHANGED <<src, bin, running>>
          BY <1>2, <3>2 DEF Step, fileVars, CheckStat, CheckOpen, CheckDone, CheckImport,
                            ImportAgain, ImportFirst, OpenBinary, OpenSource, CloseBinary, BinaryDone
        <4> QED
          BY <4>1, BinKept DEF FreshInv
      <3> QED
        BY <3>1, <3>2
    <2>3. ASSUME NEW q \in Procs, q # p
          PROVE  /\ checks'[q] = checks[q] /\ imps'[q] = imps[q] /\ imported'[q] = imported[q]
                 /\ loaded'[q] = loaded[q] /\ import_state'[q] = import_state[q]
      <3>1. /\ checks \in [Procs -> Seq(CheckFrame)] /\ imps \in [Procs -> Seq(ImportFrame)]
            /\ imported \in [Procs -> SUBSET Files] /\ loaded \in [Procs -> [Files -> Prov]]
            /\ import_state \in [Procs -> [Files -> import_state_t]]
        BY DEF FreshInv, TypeOK
      <3>2. CASE CheckStat(p) \/ CheckOpen(p) \/ CheckDone(p) \/ \E f \in Files : CheckImport(p, f)
        BY <3>1, <3>2, <2>3 DEF CheckStat, CheckOpen, CheckDone, CheckImport, CheckReturn
      <3>3. CASE \E f \in Files : ImportAgain(p, f) \/ ImportFirst(p, f)
        BY <3>1, <3>3, <2>3 DEF ImportAgain, ImportFirst, Merge
      <3>4. CASE OpenBinary(p) \/ OpenSource(p) \/ CloseBinary(p)
        BY <3>1, <3>4, <2>3 DEF OpenBinary, OpenSource, CloseBinary
      <3>5. CASE Rename(p) \/ BinaryDone(p)
        BY <3>1, <3>5, <2>3 DEF Rename, BinaryDone, ImportReturn, Merge
      <3> QED
        BY <1>2, <3>2, <3>3, <3>4, <3>5 DEF Step
    <2>4. ASSUME NEW q \in Procs, q # p PROVE ProcInv(q)'
      BY <2>2, <2>3, <2>4, Bystander DEF FreshInv
    <2> QED
      BY <2>1, <2>2, <2>4
  <1> QED
    BY <1>1, <1>2

\* Before the first compiler runs there are no binaries.
LEMMA InitFresh == Init => FreshInv
  <1> SUFFICES ASSUME Init PROVE FreshInv
    OBVIOUS
  <1>1. \A p \in Procs : ProcInv(p)
    BY IdleIsSafe DEF Init
  <1>2. BinInv
    BY DEF Init, NoBinary, BinInv
  <1> QED
    BY <1>1, <1>2, InitTypes DEF FreshInv

\* The invariant is inductive.
LEMMA NextFresh == Acyclic /\ ~EditWhileRunning /\ FreshInv /\ [Next]_vars => FreshInv'
  <1> SUFFICES ASSUME Acyclic, ~EditWhileRunning, FreshInv, [Next]_vars PROVE FreshInv'
    OBVIOUS
  <1>1. TypeOK'
    BY NextTypes DEF FreshInv
  <1>2. BinInv' /\ \A q \in Procs : ProcInv(q)'
    <2>1. ASSUME NEW p \in Procs, Step(p) \/ Start(p) \/ Kill(p)
          PROVE  BinInv' /\ \A q \in Procs : ProcInv(q)'
      BY <2>1, StepFresh, StartFresh, ExitFresh DEF Kill
    <2>2. ASSUME NEW f \in Files, Edit(f) \/ Remove(f)
          PROVE  BinInv' /\ \A q \in Procs : ProcInv(q)'
      BY <2>2, EditFresh
    <2>3. CASE PowerLoss
      BY <2>3, PowerFresh
    <2>4. CASE UNCHANGED vars
      BY <2>4, BinKept, Bystander DEF FreshInv, vars, fileVars, procVars
    <2> QED
      BY <2>1, <2>2, <2>3, <2>4 DEF Next
  <1> QED
    BY <1>1, <1>2 DEF FreshInv

\* However many compilers share a tree without import cycles, are killed or
\* lose power, and whatever is written between their runs: no import of
\* v_import_helper brings in anything made from a source that has changed.
THEOREM NoStaleImport == Acyclic /\ ~EditWhileRunning => (Spec => []FreshImports)
  <1> SUFFICES ASSUME Acyclic, ~EditWhileRunning PROVE Spec => []FreshImports
    OBVIOUS
  <1>1. FreshInv => FreshImports
    BY DEF FreshInv, ProcInv, ImportInv, FreshImports, TypeOK
  <1> QED
    BY <1>1, InitFresh, NextFresh, PTL DEF Spec

\* In the same circumstances the assertion of v_import_helper on the header
\* of a binary that check_import_state has accepted never fails.
THEOREM HeaderHolds == Acyclic /\ ~EditWhileRunning => (Spec => []HeaderAsserted)
  <1> SUFFICES ASSUME Acyclic, ~EditWhileRunning PROVE Spec => []HeaderAsserted
    OBVIOUS
  <1>1. FreshInv => HeaderAsserted
    BY OpenedIsFresh DEF FreshInv, HeaderAsserted, Fresh, TypeOK
  <1> QED
    BY <1>1, InitFresh, NextFresh, PTL DEF Spec

(***************************************************************************)
(* Progress: sums.                                                          *)
(***************************************************************************)

\* A set of numbers has a least one, ...
LEMMA LeastOne ==
    ASSUME NEW X \in SUBSET Nat, X # {}
    PROVE  \E i \in X : \A j \in X : i <= j
  <1> DEFINE R == {ss \in Nat \X Nat : ss[1] < ss[2]}
  <1>1. \A i, j \in Nat : <<i, j>> \in R <=> i < j
    OBVIOUS
  <1>2. IsWellFoundedOn(R, Nat)
    BY NatLessThanWellFounded DEF OpToRel, IsWellFoundedOn
  <1> HIDE DEF R
  <1>3. PICK i \in X : \A j \in X : ~(<<j, i>> \in R)
    BY <1>2, WFMin
  <1>4. \A j \in X : ~(j < i)
    BY <1>1, <1>3
  <1> QED
    BY <1>3, <1>4

\* ... so that one with 0, and with each number the next, has all numbers.
LEMMA Induction ==
    ASSUME NEW X \in SUBSET Nat, 0 \in X, \A n \in X : n + 1 \in X
    PROVE  X = Nat
  <1>1. SUFFICES ASSUME Nat \ X # {} PROVE FALSE
    OBVIOUS
  <1>2. PICK i \in Nat \ X : \A j \in Nat \ X : i <= j
    BY <1>1, LeastOne
  <1>3. i - 1 \in Nat /\ i - 1 \notin Nat \ X
    BY <1>2
  <1>4. i - 1 + 1 = i
    BY <1>2
  <1> QED
    BY <1>2, <1>3, <1>4

\* f holds the sums of the first numbers of s.
Sums(f, s, n) ==
    /\ f = [i \in 0..n |-> f[i]]
    /\ \A i \in 0..n : f[i] = IF i = 0 THEN 0 ELSE f[i - 1] + s[i]

LEMMA SumsExist ==
    ASSUME NEW s, NEW n \in Nat, \A i \in 1..n : s[i] \in Nat
    PROVE  \E f : Sums(f, s, n) /\ \A i \in 0..n : f[i] \in Nat
  <1> DEFINE Good(f, m) == Sums(f, s, m) /\ \A i \in 0..m : f[i] \in Nat
             X == {m \in Nat : m <= n => \E f : Good(f, m)}
  <1>1. 0 \in X
    <2>1. PICK f : f = [i \in 0..0 |-> 0]
      OBVIOUS
    <2>2. f = [i \in 0..0 |-> f[i]] /\ \A i \in 0..0 : f[i] = 0 /\ i = 0
      BY <2>1
    <2>3. Good(f, 0)
      BY <2>2 DEF Sums
    <2> QED
      BY <2>3
  <1>2. ASSUME NEW m \in X PROVE m + 1 \in X
    <2>1. CASE m + 1 <= n
      <3>1. m \in Nat /\ m <= n /\ m + 1 \in 1..n
        BY <2>1
      <3>2. PICK f : Good(f, m)
        BY <3>1
      <3>3. PICK e \in Nat : e = f[m] + s[m + 1]
        BY <3>1, <3>2
      <3>4. PICK g : g = [i \in 0..(m + 1) |-> IF i = m + 1 THEN e ELSE f[i]]
        OBVIOUS
      <3>5. g = [i \in 0..(m + 1) |-> g[i]] /\ g[m + 1] = e /\ \A i \in 0..m : g[i] = f[i]
        BY <3>1, <3>4
      <3>6. ASSUME NEW i \in 0..(m + 1)
            PROVE  g[i] \in Nat /\ g[i] = IF i = 0 THEN 0 ELSE g[i - 1] + s[i]
        <4>1. CASE i = m + 1
          <5>1. i # 0 /\ i - 1 = m /\ m \in 0..m
            BY <3>1, <4>1
          <5>2. g[m] = f[m]
            BY <3>5, <5>1
          <5> QED
            BY <3>3, <3>5, <4>1, <5>1, <5>2
        <4>2. CASE i # m + 1
          <5>1. i \in 0..m /\ (i # 0 => i - 1 \in 0..m)
            BY <3>1, <4>2
          <5>2. f[i] \in Nat /\ f[i] = IF i = 0 THEN 0 ELSE f[i - 1] + s[i]
            BY <3>2, <5>1 DEF Sums
          <5>3. g[i] = f[i] /\ (i # 0 => g[i - 1] = f[i - 1])
            BY <3>5, <5>1
          <5> QED
            BY <5>2, <5>3
        <4> QED
          BY <4>1, <4>2
      <3>7. Good(g, m + 1)
        BY <3>5, <3>6 DEF Sums
      <3> QED
        BY <3>1, <3>7
    <2>2. CASE ~(m + 1 <= n)
      BY <2>2
    <2> QED
      BY <2>1, <2>2
  <1> HIDE DEF X
  <1>3. X \in SUBSET Nat
    BY DEF X
  <1>4. X = Nat
    BY <1>1, <1>2, <1>3, Induction
  <1> QED
    BY <1>4 DEF X

\* The sums of what is the same are the same.
LEMMA SumsSame ==
    ASSUME NEW n \in Nat, NEW s, NEW t, NEW f, NEW g, Sums(f, s, n), Sums(g, t, n),
           \A i \in 1..n : s[i] = t[i]
    PROVE  \A i \in 0..n : f[i] = g[i]
  <1> DEFINE X == {m \in Nat : m <= n => f[m] = g[m]}
  <1>1. 0 \in X
    <2>1. 0 \in 0..n
      OBVIOUS
    <2>2. f[0] = 0 /\ g[0] = 0
      BY <2>1 DEF Sums
    <2> QED
      BY <2>2
  <1>2. ASSUME NEW m \in X PROVE m + 1 \in X
    <2>1. CASE m + 1 <= n
      <3>1. m \in Nat /\ m <= n /\ m + 1 \in 1..n /\ m + 1 \in 0..n /\ m + 1 # 0 /\ m + 1 - 1 = m
        BY <2>1
      <3>2. PICK k : k = m + 1
        OBVIOUS
      <3>3. k \in 1..n /\ k \in 0..n /\ k # 0 /\ k - 1 = m
        BY <3>1, <3>2
      <3>4. f[k] = f[k - 1] + s[k] /\ g[k] = g[k - 1] + t[k]
        BY <3>3 DEF Sums
      <3>5. f[k - 1] = g[k - 1] /\ s[k] = t[k]
        BY <3>1, <3>3
      <3> QED
        BY <3>2, <3>4, <3>5
    <2>2. CASE ~(m + 1 <= n)
      BY <2>2
    <2> QED
      BY <2>1, <2>2
  <1> HIDE DEF X
  <1>3. X \in SUBSET Nat
    BY DEF X
  <1>4. X = Nat
    BY <1>1, <1>2, <1>3, Induction
  <1> QED
    BY <1>4 DEF X

\* Total is the last of the sums.
LEMMA TotalIs ==
    ASSUME NEW s \in Seq(Nat), NEW f, Sums(f, s, Len(s))
    PROVE  Total(s) = f[Len(s)]
  <1>1. PICK n \in Nat : n = Len(s)
    BY LenProperties
  <1>2. f = [i \in 0..n |-> IF i = 0 THEN 0 ELSE f[i - 1] + s[i]]
    <2>1. f = [i \in 0..n |-> f[i]] /\ \A i \in 0..n : f[i] = IF i = 0 THEN 0 ELSE f[i - 1] + s[i]
      BY <1>1 DEF Sums
    <2> QED
      BY <2>1
  <1> DEFINE h == CHOOSE h : h = [i \in 0..n |-> IF i = 0 THEN 0 ELSE h[i - 1] + s[i]]
  <1>3. h = [i \in 0..n |-> IF i = 0 THEN 0 ELSE h[i - 1] + s[i]]
    BY <1>2
  <1>4. Total(s) = h[n]
    BY <1>1 DEF Total
  <1> HIDE DEF h
  <1>5. Sums(h, s, n)
    <2>1. DOMAIN h = 0..n /\ h = [i \in 0..n |-> h[i]]
      BY <1>3
    <2>2. \A i \in 0..n : h[i] = IF i = 0 THEN 0 ELSE h[i - 1] + s[i]
      BY <1>3
    <2> QED
      BY <2>1, <2>2 DEF Sums
  <1>6. Sums(f, s, n) /\ n \in 0..n
    BY <1>1
  <1> QED
    BY <1>1, <1>4, <1>5, <1>6, SumsSame

\* The sum of nothing, and of one number more.
LEMMA TotalLaws ==
    /\ Total(<<>>) = 0
    /\ \A s \in Seq(Nat) : Total(s) \in Nat
    /\ \A s, t \in Seq(Nat) :
            Len(t) = Len(s) + 1 /\ (\A i \in 1..Len(s) : t[i] = s[i])
            => Total(t) = Total(s) + t[Len(t)]
  <1>1. ASSUME NEW s \in Seq(Nat)
        PROVE  \E f : /\ Sums(f, s, Len(s)) /\ Len(s) \in Nat
                      /\ f[Len(s)] \in Nat /\ Total(s) = f[Len(s)]
    <2>1. Len(s) \in Nat /\ \A i \in 1..Len(s) : s[i] \in Nat
      BY LenProperties, ElementOfSeq
    <2>2. PICK f : Sums(f, s, Len(s)) /\ \A i \in 0..Len(s) : f[i] \in Nat
      BY <2>1, SumsExist
    <2> QED
      BY <2>1, <2>2, TotalIs
  <1>2. Total(<<>>) = 0
    <2>1. <<>> \in Seq(Nat) /\ Len(<<>>) = 0
      BY EmptySeq
    <2>2. PICK f : Sums(f, <<>>, 0) /\ Total(<<>>) = f[0]
      BY <1>1, <2>1
    <2>3. 0 \in 0..0
      OBVIOUS
    <2> QED
      BY <2>2, <2>3 DEF Sums
  <1>3. ASSUME NEW s \in Seq(Nat), NEW t \in Seq(Nat),
               Len(t) = Len(s) + 1, \A i \in 1..Len(s) : t[i] = s[i]
        PROVE  Total(t) = Total(s) + t[Len(t)]
    <2>1. PICK f : Sums(f, s, Len(s)) /\ Len(s) \in Nat /\ Total(s) = f[Len(s)]
      BY <1>1
    <2>2. PICK g : Sums(g, t, Len(t)) /\ Total(t) = g[Len(t)]
      BY <1>1
    <2>3. PICK n \in Nat : n = Len(s)
      BY <2>1
    <2>4. PICK h : h = [i \in 0..n |-> g[i]]
      OBVIOUS
    <2>5. \A i \in 0..n : i \in 0..(n + 1) /\ (i # 0 => i - 1 \in 0..n) /\ h[i] = g[i]
      BY <2>4
    <2>6. \A i \in 0..(n + 1) : g[i] = IF i = 0 THEN 0 ELSE g[i - 1] + t[i]
      BY <1>3, <2>2, <2>3 DEF Sums
    <2>7. Sums(h, t, n)
      BY <2>4, <2>5, <2>6 DEF Sums
    <2>8. \A i \in 0..n : h[i] = f[i]
      <3>1. Sums(f, s, n) /\ \A i \in 1..n : t[i] = s[i]
        BY <1>3, <2>1, <2>3
      <3> QED
        BY <2>7, <3>1, SumsSame
    <2>9. n \in 0..n /\ n + 1 \in 0..(n + 1) /\ n + 1 # 0 /\ n + 1 - 1 = n
      OBVIOUS
    <2>10. g[n + 1] = g[n] + t[n + 1] /\ g[n] = f[n]
      BY <2>5, <2>6, <2>8, <2>9
    <2> QED
      BY <1>3, <2>1, <2>2, <2>3, <2>10
  <1> QED
    BY <1>1, <1>2, <1>3

(***************************************************************************)
(* Progress: what a compiler has left.                                      *)
(***************************************************************************)

\* Sets of files can be counted.
LEMMA Counts ==
    /\ Cardinality(Files) \in Nat
    /\ \A S \in SUBSET Files : Cardinality(S) \in Nat /\ Cardinality(S) <= Cardinality(Files)
    /\ \A S, T \in SUBSET Files : T \subseteq S => Cardinality(T) <= Cardinality(S)
    /\ \A S \in SUBSET Files, f \in Files :
            f \in S => Cardinality(S \ {f}) = Cardinality(S) - 1
  <1>1. \A S \in SUBSET Files : IsFiniteSet(S)
    BY FilesAssumption, FS_Subset
  <1>2. \A S \in SUBSET Files : Cardinality(S) \in Nat
    BY <1>1, FS_CardinalityType
  <1>3. \A S, T \in SUBSET Files : T \subseteq S => Cardinality(T) <= Cardinality(S)
    BY <1>1, FS_Subset
  <1>4. \A S \in SUBSET Files, f \in Files :
            f \in S => Cardinality(S \ {f}) = Cardinality(S) - 1
    BY <1>1, FS_RemoveElement
  <1> QED
    BY <1>2, <1>3, <1>4

\* An activation has a step left.
LEMMA ActivationLeft ==
    /\ \A fr \in CheckFrame : CheckLeft(fr) \in Nat \ {0}
    /\ \A fr \in ImportFrame : ImportLeft(fr) \in Nat \ {0}
  <1>1. ASSUME NEW fr \in CheckFrame PROVE CheckLeft(fr) \in Nat \ {0}
    <2>1. fr.phase \in {"stat", "open", "imports"} /\ fr.todo \in SUBSET Files
      BY DEF CheckFrame
    <2>2. Cardinality(fr.todo) \in Nat /\ Cardinality(Files) \in Nat
      BY <2>1, Counts
    <2> QED
      BY <2>1, <2>2 DEF CheckLeft
  <1>2. ASSUME NEW fr \in ImportFrame PROVE ImportLeft(fr) \in Nat \ {0}
    <2>1. fr.phase \in {"check", "binary", "compile", "closed"} /\ fr.todo \in SUBSET Files
      BY DEF ImportFrame
    <2>2. Cardinality(fr.todo) \in Nat /\ Cardinality(Files) \in Nat
      BY <2>1, Counts
    <2> QED
      BY <2>1, <2>2 DEF ImportLeft
  <1> QED
    BY <1>1, <1>2

\* A function on 1..n is a sequence.
LEMMA NumbersSeq ==
    ASSUME NEW n \in Nat, NEW f, f = [i \in 1..n |-> f[i]], \A i \in 1..n : f[i] \in Nat
    PROVE  f \in Seq(Nat) /\ Len(f) = n
  <1>1. f \in [1..n -> Nat]
    OBVIOUS
  <1> QED
    BY <1>1, SeqDef

LEMMA CheckNumbers ==
    ASSUME NEW s \in Seq(CheckFrame)
    PROVE  \E l \in Seq(Nat) : /\ ChecksLeft(s) = Total(l) /\ Len(l) = Len(s)
                               /\ \A i \in 1..Len(s) : l[i] = CheckLeft(s[i])
  <1>1. PICK l : l = [i \in 1..Len(s) |-> CheckLeft(s[i])]
    OBVIOUS
  <1>2. Len(s) \in Nat /\ \A i \in 1..Len(s) : s[i] \in CheckFrame
    BY ElementOfSeq, LenProperties
  <1>3. \A i \in 1..Len(s) : l[i] = CheckLeft(s[i]) /\ l[i] \in Nat
    BY <1>1, <1>2, ActivationLeft
  <1>4. l \in Seq(Nat) /\ Len(l) = Len(s)
    BY <1>1, <1>2, <1>3, NumbersSeq
  <1> QED
    BY <1>1, <1>3, <1>4 DEF ChecksLeft

LEMMA ImportNumbers ==
    ASSUME NEW s \in Seq(ImportFrame)
    PROVE  \E l \in Seq(Nat) : /\ ImportsLeft(s) = Total(l) /\ Len(l) = Len(s)
                               /\ \A i \in 1..Len(s) : l[i] = ImportLeft(s[i])
  <1>1. PICK l : l = [i \in 1..Len(s) |-> ImportLeft(s[i])]
    OBVIOUS
  <1>2. Len(s) \in Nat /\ \A i \in 1..Len(s) : s[i] \in ImportFrame
    BY ElementOfSeq, LenProperties
  <1>3. \A i \in 1..Len(s) : l[i] = ImportLeft(s[i]) /\ l[i] \in Nat
    BY <1>1, <1>2, ActivationLeft
  <1>4. l \in Seq(Nat) /\ Len(l) = Len(s)
    BY <1>1, <1>2, <1>3, NumbersSeq
  <1> QED
    BY <1>1, <1>3, <1>4 DEF ImportsLeft

\* One activation more is what it has left more.
LEMMA ChecksGrow ==
    ASSUME NEW s \in Seq(CheckFrame), NEW t \in Seq(CheckFrame),
           Len(t) = Len(s) + 1, \A i \in 1..Len(s) : t[i] = s[i]
    PROVE  ChecksLeft(t) = ChecksLeft(s) + CheckLeft(t[Len(t)])
  <1>1. PICK l \in Seq(Nat) : /\ ChecksLeft(s) = Total(l) /\ Len(l) = Len(s)
                             /\ \A i \in 1..Len(s) : l[i] = CheckLeft(s[i])
    BY CheckNumbers
  <1>2. PICK k \in Seq(Nat) : /\ ChecksLeft(t) = Total(k) /\ Len(k) = Len(t)
                             /\ \A i \in 1..Len(t) : k[i] = CheckLeft(t[i])
    BY CheckNumbers
  <1>3. Len(s) \in Nat
    BY LenProperties
  <1>4. \A i \in 1..Len(s) : i \in 1..Len(t)
    BY <1>3
  <1>5. \A i \in 1..Len(l) : k[i] = l[i]
    BY <1>1, <1>2, <1>4
  <1>6. Total(k) = Total(l) + k[Len(k)]
    BY <1>1, <1>2, <1>5, TotalLaws
  <1>7. Len(t) \in 1..Len(t)
    BY <1>3
  <1> QED
    BY <1>1, <1>2, <1>6, <1>7

LEMMA ImportsGrow ==
    ASSUME NEW s \in Seq(ImportFrame), NEW t \in Seq(ImportFrame),
           Len(t) = Len(s) + 1, \A i \in 1..Len(s) : t[i] = s[i]
    PROVE  ImportsLeft(t) = ImportsLeft(s) + ImportLeft(t[Len(t)])
  <1>1. PICK l \in Seq(Nat) : /\ ImportsLeft(s) = Total(l) /\ Len(l) = Len(s)
                             /\ \A i \in 1..Len(s) : l[i] = ImportLeft(s[i])
    BY ImportNumbers
  <1>2. PICK k \in Seq(Nat) : /\ ImportsLeft(t) = Total(k) /\ Len(k) = Len(t)
                             /\ \A i \in 1..Len(t) : k[i] = ImportLeft(t[i])
    BY ImportNumbers
  <1>3. Len(s) \in Nat
    BY LenProperties
  <1>4. \A i \in 1..Len(s) : i \in 1..Len(t)
    BY <1>3
  <1>5. \A i \in 1..Len(l) : k[i] = l[i]
    BY <1>1, <1>2, <1>4
  <1>6. Total(k) = Total(l) + k[Len(k)]
    BY <1>1, <1>2, <1>5, TotalLaws
  <1>7. Len(t) \in 1..Len(t)
    BY <1>3
  <1> QED
    BY <1>1, <1>2, <1>6, <1>7

\* What is left when activations go on, return, or call.
LEMMA ChecksLaws ==
    ASSUME NEW s \in Seq(CheckFrame)
    PROVE  /\ ChecksLeft(s) \in Nat
           /\ \A e \in CheckFrame : ChecksLeft(Append(s, e)) = ChecksLeft(s) + CheckLeft(e)
           /\ s # <<>> =>
                /\ ChecksLeft(s) = ChecksLeft(Pop(s)) + CheckLeft(Top(s))
                /\ \A e \in CheckFrame : ChecksLeft(SetTop(s, e)) = ChecksLeft(Pop(s)) + CheckLeft(e)
  <1>1. ChecksLeft(s) \in Nat
    BY CheckNumbers, TotalLaws
  <1>2. ASSUME NEW e \in CheckFrame PROVE ChecksLeft(Append(s, e)) = ChecksLeft(s) + CheckLeft(e)
    <2>1. PICK t \in Seq(CheckFrame) : t = Append(s, e)
      BY PushLemma
    <2>2. Len(t) = Len(s) + 1 /\ t[Len(t)] = e /\ \A i \in 1..Len(s) : t[i] = s[i]
      BY <2>1, PushLemma DEF Top
    <2>3. ChecksLeft(t) = ChecksLeft(s) + CheckLeft(t[Len(t)])
      BY <2>2, ChecksGrow
    <2> QED
      BY <2>1, <2>2, <2>3
  <1>3. ASSUME s # <<>>, NEW t \in Seq(CheckFrame), Len(t) = Len(s),
               \A i \in 1..(Len(s) - 1) : t[i] = s[i]
        PROVE  ChecksLeft(t) = ChecksLeft(Pop(s)) + CheckLeft(t[Len(s)])
    <2>1. PICK r \in Seq(CheckFrame) : r = Pop(s)
      BY <1>3, PopLemma
    <2>2. Len(s) \in Nat \ {0} /\ Len(r) = Len(s) - 1 /\ \A i \in 1..(Len(s) - 1) : r[i] = s[i]
      BY <1>3, <2>1, PopLemma
    <2>3. Len(t) = Len(r) + 1 /\ \A i \in 1..Len(r) : t[i] = r[i]
      BY <1>3, <2>2
    <2>4. ChecksLeft(t) = ChecksLeft(r) + CheckLeft(t[Len(t)])
      BY <1>3, <2>1, <2>3, ChecksGrow
    <2> QED
      BY <1>3, <2>1, <2>4
  <1>4. ASSUME s # <<>> PROVE ChecksLeft(s) = ChecksLeft(Pop(s)) + CheckLeft(Top(s))
    BY <1>3, <1>4 DEF Top
  <1>5. ASSUME s # <<>>, NEW e \in CheckFrame
        PROVE  ChecksLeft(SetTop(s, e)) = ChecksLeft(Pop(s)) + CheckLeft(e)
    <2>1. PICK t \in Seq(CheckFrame) : t = SetTop(s, e)
      BY <1>5, SetTopLemma
    <2>2. /\ Len(t) = Len(s) /\ t[Len(s)] = e
          /\ \A i \in 1..Len(s) : i # Len(s) => t[i] = s[i]
      <3>1. /\ Len(SetTop(s, e)) = Len(s) /\ SetTop(s, e)[Len(s)] = e
            /\ \A i \in 1..Len(s) : i # Len(s) => SetTop(s, e)[i] = s[i]
        BY <1>5, SetTopLemma
      <3> QED
        BY <2>1, <3>1
    <2>3. Len(s) \in Nat \ {0}
      BY <1>5, PopLemma
    <2>4. \A i \in 1..(Len(s) - 1) : i \in 1..Len(s) /\ i # Len(s)
      BY <2>3
    <2>5. ChecksLeft(t) = ChecksLeft(Pop(s)) + CheckLeft(t[Len(s)])
      BY <1>3, <1>5, <2>2, <2>4
    <2> QED
      BY <2>1, <2>2, <2>5
  <1> QED
    BY <1>1, <1>2, <1>4, <1>5

LEMMA ImportsLaws ==
    ASSUME NEW s \in Seq(ImportFrame)
    PROVE  /\ ImportsLeft(s) \in Nat
           /\ \A e \in ImportFrame : ImportsLeft(Append(s, e)) = ImportsLeft(s) + ImportLeft(e)
           /\ s # <<>> =>
                /\ ImportsLeft(s) = ImportsLeft(Pop(s)) + ImportLeft(Top(s))
                /\ \A e \in ImportFrame : ImportsLeft(SetTop(s, e)) = ImportsLeft(Pop(s)) + ImportLeft(e)
  <1>1. ImportsLeft(s) \in Nat
    BY ImportNumbers, TotalLaws
  <1>2. ASSUME NEW e \in ImportFrame PROVE ImportsLeft(Append(s, e)) = ImportsLeft(s) + ImportLeft(e)
    <2>1. PICK t \in Seq(ImportFrame) : t = Append(s, e)
      BY PushLemma
    <2>2. Len(t) = Len(s) + 1 /\ t[Len(t)] = e /\ \A i \in 1..Len(s) : t[i] = s[i]
      BY <2>1, PushLemma DEF Top
    <2>3. ImportsLeft(t) = ImportsLeft(s) + ImportLeft(t[Len(t)])
      BY <2>2, ImportsGrow
    <2> QED
      BY <2>1, <2>2, <2>3
  <1>3. ASSUME s # <<>>, NEW t \in Seq(ImportFrame), Len(t) = Len(s),
               \A i \in 1..(Len(s) - 1) : t[i] = s[i]
        PROVE  ImportsLeft(t) = ImportsLeft(Pop(s)) + ImportLeft(t[Len(s)])
    <2>1. PICK r \in Seq(ImportFrame) : r = Pop(s)
      BY <1>3, PopLemma
    <2>2. Len(s) \in Nat \ {0} /\ Len(r) = Len(s) - 1 /\ \A i \in 1..(Len(s) - 1) : r[i] = s[i]
      BY <1>3, <2>1, PopLemma
    <2>3. Len(t) = Len(r) + 1 /\ \A i \in 1..Len(r) : t[i] = r[i]
      BY <1>3, <2>2
    <2>4. ImportsLeft(t) = ImportsLeft(r) + ImportLeft(t[Len(t)])
      BY <1>3, <2>1, <2>3, ImportsGrow
    <2> QED
      BY <1>3, <2>1, <2>4
  <1>4. ASSUME s # <<>> PROVE ImportsLeft(s) = ImportsLeft(Pop(s)) + ImportLeft(Top(s))
    BY <1>3, <1>4 DEF Top
  <1>5. ASSUME s # <<>>, NEW e \in ImportFrame
        PROVE  ImportsLeft(SetTop(s, e)) = ImportsLeft(Pop(s)) + ImportLeft(e)
    <2>1. PICK t \in Seq(ImportFrame) : t = SetTop(s, e)
      BY <1>5, SetTopLemma
    <2>2. /\ Len(t) = Len(s) /\ t[Len(s)] = e
          /\ \A i \in 1..Len(s) : i # Len(s) => t[i] = s[i]
      <3>1. /\ Len(SetTop(s, e)) = Len(s) /\ SetTop(s, e)[Len(s)] = e
            /\ \A i \in 1..Len(s) : i # Len(s) => SetTop(s, e)[i] = s[i]
        BY <1>5, SetTopLemma
      <3> QED
        BY <2>1, <3>1
    <2>3. Len(s) \in Nat \ {0}
      BY <1>5, PopLemma
    <2>4. \A i \in 1..(Len(s) - 1) : i \in 1..Len(s) /\ i # Len(s)
      BY <2>3
    <2>5. ImportsLeft(t) = ImportsLeft(Pop(s)) + ImportLeft(t[Len(s)])
      BY <1>3, <1>5, <2>2, <2>4
    <2> QED
      BY <2>1, <2>2, <2>5
  <1> QED
    BY <1>1, <1>2, <1>4, <1>5

\* CallsLeft, and what is left but for these, from what they are made of.
Calls(memo, im) == Cardinality({f \in Files : memo[f] = "none"}) + Cardinality(Files \ im)

Now(m, cs, is) == Cardinality(m) + ChecksLeft(cs) + ImportsLeft(is)

\* A set that loses something has less.
LEMMA FewerLeft ==
    ASSUME NEW X \in SUBSET Files, NEW Y \in SUBSET Files, Y \subseteq X
    PROVE  /\ Cardinality(X) \in Nat /\ Cardinality(Y) \in Nat
           /\ Cardinality(Y) <= Cardinality(X)
           /\ \A f \in X : f \notin Y => Cardinality(Y) + 1 <= Cardinality(X)
  <1>1. Cardinality(X) \in Nat /\ Cardinality(Y) \in Nat /\ Cardinality(Y) <= Cardinality(X)
    BY Counts
  <1>2. ASSUME NEW f \in X, f \notin Y PROVE Cardinality(Y) + 1 <= Cardinality(X)
    <2>1. PICK Z \in SUBSET Files : Z = X \ {f}
      OBVIOUS
    <2>2. Cardinality(Z) = Cardinality(X) - 1
      BY <2>1, Counts
    <2>3. Y \subseteq Z
      BY <1>2, <2>1
    <2>4. Cardinality(Y) <= Cardinality(Z)
      BY <2>3, Counts
    <2> QED
      BY <1>1, <2>2, <2>4
  <1> QED
    BY <1>1, <1>2

\* The memo and tctx.imported use calls up.
LEMMA CallsUsed ==
    ASSUME NEW memo, NEW memo2, NEW im \in SUBSET Files, NEW im2 \in SUBSET Files,
           \A f \in Files : memo2[f] = "none" => memo[f] = "none",
           im \subseteq im2
    PROVE  /\ Calls(memo, im) \in Nat /\ Calls(memo2, im2) \in Nat
           /\ Calls(memo2, im2) <= Calls(memo, im)
           /\ \A f \in Files : memo[f] = "none" /\ memo2[f] # "none"
                => Calls(memo2, im2) + 1 <= Calls(memo, im)
           /\ \A f \in Files : f \in im2 /\ f \notin im
                => /\ Calls(memo2, im2) + 1 <= Calls(memo, im)
                   /\ memo[f] = "none" /\ memo2[f] # "none" => Calls(memo2, im2) + 2 <= Calls(memo, im)
  <1>1. PICK S \in SUBSET Files, S2 \in SUBSET Files :
            S = {f \in Files : memo[f] = "none"} /\ S2 = {f \in Files : memo2[f] = "none"}
    OBVIOUS
  <1>2. PICK T \in SUBSET Files, T2 \in SUBSET Files : T = Files \ im /\ T2 = Files \ im2
    OBVIOUS
  <1>3. S2 \subseteq S /\ T2 \subseteq T
    BY <1>1, <1>2
  <1>4. PICK a \in Nat, a2 \in Nat, b \in Nat, b2 \in Nat :
            a = Cardinality(S) /\ a2 = Cardinality(S2) /\ b = Cardinality(T) /\ b2 = Cardinality(T2)
    BY Counts
  <1>5. a2 <= a /\ \A f \in S : f \notin S2 => a2 + 1 <= a
    BY <1>3, <1>4, FewerLeft
  <1>6. b2 <= b /\ \A f \in T : f \notin T2 => b2 + 1 <= b
    BY <1>3, <1>4, FewerLeft
  <1>7. Calls(memo, im) = a + b /\ Calls(memo2, im2) = a2 + b2
    BY <1>1, <1>2, <1>4 DEF Calls
  <1>8. \A f \in Files : memo[f] = "none" /\ memo2[f] # "none" => f \in S /\ f \notin S2
    BY <1>1
  <1>9. \A f \in Files : f \in im2 /\ f \notin im => f \in T /\ f \notin T2
    BY <1>2
  <1>10. \A f \in Files : memo[f] = "none" /\ memo2[f] # "none" => a2 + 1 <= a
    BY <1>5, <1>8
  <1>11. \A f \in Files : f \in im2 /\ f \notin im => b2 + 1 <= b
    BY <1>6, <1>9
  <1> QED
    BY <1>5, <1>6, <1>7, <1>10, <1>11

LEMMA Products ==
    ASSUME NEW x \in Nat, NEW k \in Nat, NEW d \in Nat, NEW l \in Nat, k + d <= l
    PROVE  x * k \in Nat /\ x * l \in Nat /\ x * d \in Nat /\ x * k + x * d <= x * l
  <1>1. \A u, v \in Nat : x * (u + v) = x * u + x * v /\ x * u \in Nat /\ x * v \in Nat
    OBVIOUS
  <1>2. PICK e \in Nat : l = (k + d) + e
    <2>1. l - (k + d) \in Nat /\ l = (k + d) + (l - (k + d))
      OBVIOUS
    <2> QED
      BY <2>1
  <1>3. x * l = x * (k + d) + x * e /\ x * (k + d) = x * k + x * d
    BY <1>1, <1>2
  <1>4. x * k \in Nat /\ x * d \in Nat /\ x * e \in Nat /\ x * l \in Nat
    BY <1>1
  <1> QED
    BY <1>3, <1>4

\* A step that uses up calls may put as many steps in their place as each has.
LEMMA StepLess ==
    ASSUME TypeOK, TypeOK', NEW p \in Procs, NEW d \in Nat,
           Calls(import_state'[p], imported'[p]) + d <= Calls(import_state[p], imported[p]),
           Now(main'[p], checks'[p], imps'[p])
             < Now(main[p], checks[p], imps[p]) + (Cardinality(Files) + 4) * d
    PROVE  StepsLeft(p)' < StepsLeft(p)
  <1>1. /\ main[p] \in SUBSET Files /\ imported[p] \in SUBSET Files
        /\ checks[p] \in Seq(CheckFrame) /\ imps[p] \in Seq(ImportFrame)
        /\ main'[p] \in SUBSET Files /\ imported'[p] \in SUBSET Files
        /\ checks'[p] \in Seq(CheckFrame) /\ imps'[p] \in Seq(ImportFrame)
    BY DEF TypeOK
  <1>2. PICK x \in Nat : x = Cardinality(Files) + 4
    BY Counts
  <1>3. PICK k \in Nat, l \in Nat :
            k = Calls(import_state'[p], imported'[p]) /\ l = Calls(import_state[p], imported[p])
    BY <1>1, CallsUsed
  <1>4. PICK m \in Nat, m2 \in Nat, c \in Nat, c2 \in Nat, i \in Nat, i2 \in Nat :
            /\ m = Cardinality(main[p]) /\ m2 = Cardinality(main'[p])
            /\ c = ChecksLeft(checks[p]) /\ c2 = ChecksLeft(checks'[p])
            /\ i = ImportsLeft(imps[p]) /\ i2 = ImportsLeft(imps'[p])
    BY <1>1, Counts, ChecksLaws, ImportsLaws
  <1>5. StepsLeft(p) = m + x * l + c + i
    <2>1. CallsLeft(p) = l
      BY <1>3 DEF CallsLeft, Calls
    <2> QED
      BY <1>2, <1>4, <2>1 DEF StepsLeft
  <1>6. StepsLeft(p)' = m2 + x * k + c2 + i2
    <2>1. CallsLeft(p)' = k
      BY <1>3 DEF CallsLeft, Calls
    <2> QED
      BY <1>2, <1>4, <2>1 DEF StepsLeft
  <1>7. PICK xk \in Nat, xl \in Nat, xd \in Nat :
            xk = x * k /\ xl = x * l /\ xd = x * d /\ xk + xd <= xl
    <2>1. k + d <= l
      BY <1>3
    <2>2. x * k \in Nat /\ x * l \in Nat /\ x * d \in Nat /\ x * k + x * d <= x * l
      BY <2>1, Products, Zenon
    <2> QED
      BY <2>2, Zenon
  <1>8. m2 + c2 + i2 < m + c + i + xd
    BY <1>2, <1>4, <1>7 DEF Now
  <1>9. m2 + xk + c2 + i2 < m + xl + c + i
    BY <1>7, <1>8
  <1> QED
    BY <1>5, <1>6, <1>7, <1>9

\* A check uses up one of its steps, or the memo's leave to start another.
LEMMA CheckUses ==
    ASSUME TypeOK, TypeOK', NEW p \in Procs, NEW f \in Files,
           CheckStat(p) \/ CheckOpen(p) \/ CheckImport(p, f) \/ CheckDone(p)
    PROVE  StepsLeft(p)' < StepsLeft(p)
  <1>1. /\ Checking(p) /\ checks[p] # <<>>
        /\ main'[p] = main[p] /\ imported'[p] = imported[p] /\ imps'[p] = imps[p]
    BY DEF CheckStat, CheckOpen, CheckImport, CheckDone, Checking
  <1>2. PICK s \in Seq(CheckFrame) : s = checks[p]
    BY <1>1, CheckTop
  <1>3. PICK r \in Seq(CheckFrame), fr \in CheckFrame : r = Pop(s) /\ fr = Top(s)
    BY <1>1, <1>2, CheckTop
  <1>4. PICK a \in Nat, b \in Nat \ {0} : a = ChecksLeft(r) /\ b = CheckLeft(fr)
    BY ChecksLaws, ActivationLeft
  <1>5. /\ ChecksLeft(s) = a + b
        /\ \A e \in CheckFrame : ChecksLeft(SetTop(s, e)) = a + CheckLeft(e)
        /\ \A e \in CheckFrame : ChecksLeft(Append(s, e)) = a + b + CheckLeft(e)
    <2>1. s # <<>>
      BY <1>1, <1>2
    <2>2. /\ ChecksLeft(s) = ChecksLeft(Pop(s)) + CheckLeft(Top(s))
          /\ \A e \in CheckFrame : ChecksLeft(SetTop(s, e)) = ChecksLeft(Pop(s)) + CheckLeft(e)
          /\ \A e \in CheckFrame : ChecksLeft(Append(s, e)) = ChecksLeft(s) + CheckLeft(e)
      BY <2>1, ChecksLaws
    <2> QED
      BY <1>3, <1>4, <2>2
  <1>6. PICK m \in Nat, i \in Nat, n \in Nat :
            /\ m = Cardinality(main[p]) /\ i = ImportsLeft(imps[p]) /\ n = Cardinality(Files)
    BY Counts, ImportsLaws DEF TypeOK
  <1>7. /\ Now(main[p], checks[p], imps[p]) = m + (a + b) + i
        /\ Now(main'[p], checks'[p], imps'[p]) = m + ChecksLeft(checks'[p]) + i
    BY <1>1, <1>2, <1>5, <1>6 DEF Now
  <1>8. PICK l \in Nat : l = Calls(import_state[p], imported[p])
    <2>1. imported[p] \in SUBSET Files
      BY DEF TypeOK
    <2> QED
      BY <2>1, CallsUsed
  <1>9. ASSUME NEW v \in {"good", "bad"}, CheckReturn(p, v)
        PROVE  StepsLeft(p)' < StepsLeft(p)
    <2>1. checks'[p] = r
      BY <1>2, <1>3, <1>9 DEF CheckReturn, TypeOK
    <2>2. \A g \in Files : import_state'[p][g] = "none" => import_state[p][g] = "none"
      BY <1>9 DEF CheckReturn, TypeOK
    <2>3. Calls(import_state'[p], imported'[p]) <= Calls(import_state[p], imported[p])
          /\ Calls(import_state'[p], imported'[p]) \in Nat
      <3>1. imported[p] \in SUBSET Files
        BY DEF TypeOK
      <3> QED
        BY <1>1, <2>2, <3>1, CallsUsed
    <2>4. ChecksLeft(checks'[p]) = a
      BY <1>4, <2>1
    <2>5. Now(main'[p], checks'[p], imps'[p]) < Now(main[p], checks[p], imps[p]) + (n + 4) * 0
      BY <1>7, <2>4
    <2>6. Calls(import_state'[p], imported'[p]) + 0 <= Calls(import_state[p], imported[p])
      BY <1>8, <2>3
    <2> QED
      BY <1>6, <2>5, <2>6, StepLess
  <1>10. ASSUME NEW e \in CheckFrame, checks' = [checks EXCEPT ![p] = SetTop(@, e)],
                UNCHANGED import_state, CheckLeft(e) < b
         PROVE  StepsLeft(p)' < StepsLeft(p)
    <2>1. checks'[p] = SetTop(s, e)
      BY <1>2, <1>10 DEF TypeOK
    <2>2. CheckLeft(e) \in Nat /\ ChecksLeft(checks'[p]) = a + CheckLeft(e)
      BY <1>5, <2>1, ActivationLeft
    <2>3. Now(main'[p], checks'[p], imps'[p]) < Now(main[p], checks[p], imps[p]) + (n + 4) * 0
      BY <1>7, <1>10, <2>2, SMTT(30)
    <2>4. Calls(import_state'[p], imported'[p]) + 0 <= Calls(import_state[p], imported[p])
      BY <1>1, <1>8, <1>10
    <2> QED
      BY <1>6, <2>3, <2>4, StepLess
  <1>11. CASE CheckStat(p)
    <2>1. CASE CheckReturn(p, "bad")
      BY <1>9, <2>1
    <2>2. CASE ~CheckReturn(p, "bad")
      <3>1. PICK e : e = [fr EXCEPT !.phase = "open", !.time = bin[fr.file].time]
        OBVIOUS
      <3>2. e \in CheckFrame /\ e.phase = "open"
        BY <3>1 DEF CheckFrame, TypeOK, Binary
      <3>3. fr.phase = "stat" /\ checks' = [checks EXCEPT ![p] = SetTop(@, e)] /\ UNCHANGED import_state
        BY <1>2, <1>3, <1>11, <2>2, <3>1 DEF CheckStat
      <3>4. CheckLeft(e) < b
        BY <1>4, <1>6, <3>2, <3>3, SMTT(30) DEF CheckLeft
      <3> QED
        BY <1>10, <3>2, <3>3, <3>4
    <2> QED
      BY <2>1, <2>2
  <1>12. CASE CheckOpen(p)
    <2>1. CASE CheckReturn(p, "bad")
      BY <1>9, <2>1
    <2>2. CASE ~CheckReturn(p, "bad")
      <3>1. PICK e : e = [fr EXCEPT !.phase = "imports", !.todo = Imports[fr.file]]
        OBVIOUS
      <3>2. e \in CheckFrame /\ e.phase = "imports" /\ e.todo \in SUBSET Files
        BY <3>1, ImportsAssumption DEF CheckFrame
      <3>3. fr.phase = "open" /\ checks' = [checks EXCEPT ![p] = SetTop(@, e)] /\ UNCHANGED import_state
        BY <1>2, <1>3, <1>12, <2>2, <3>1 DEF CheckOpen
      <3>4. Cardinality(e.todo) \in Nat /\ Cardinality(e.todo) <= n
        BY <1>6, <3>2, Counts
      <3>5. CheckLeft(e) = Cardinality(e.todo) + 1 /\ b = n + 2
        BY <1>4, <1>6, <3>2, <3>3 DEF CheckLeft
      <3>6. CheckLeft(e) < b
        <4>1. \A x \in Nat : x <= n => x + 1 < n + 2
          BY <1>6
        <4> QED
          BY <3>4, <3>5, <4>1
      <3> QED
        BY <1>10, <3>2, <3>3, <3>6
    <2> QED
      BY <2>1, <2>2
  <1>13. CASE CheckImport(p, f)
    <2>1. fr.phase = "imports" /\ f \in fr.todo
      BY <1>2, <1>3, <1>13 DEF CheckImport
    <2>2. CASE CheckReturn(p, "bad")
      BY <1>9, <2>2
    <2>3. CASE /\ checks' = [checks EXCEPT ![p] = SetTop(@, [fr EXCEPT !.todo = @ \ {f}])]
               /\ UNCHANGED import_state
      <3>1. PICK e : e = [fr EXCEPT !.todo = @ \ {f}]
        OBVIOUS
      <3>2. fr.todo \in SUBSET Files /\ e \in CheckFrame /\ e.phase = "imports" /\ e.todo = fr.todo \ {f}
        BY <2>1, <3>1 DEF CheckFrame
      <3>3. Cardinality(fr.todo) \in Nat /\ Cardinality(e.todo) = Cardinality(fr.todo) - 1
        BY <2>1, <3>2, Counts
      <3>4. CheckLeft(e) = Cardinality(e.todo) + 1 /\ b = Cardinality(fr.todo) + 1
        BY <1>4, <2>1, <3>2 DEF CheckLeft
      <3>5. CheckLeft(e) < b
        BY <3>3, <3>4
      <3>6. checks' = [checks EXCEPT ![p] = SetTop(@, e)]
        BY <2>3, <3>1
      <3> QED
        BY <1>10, <2>3, <3>2, <3>5, <3>6
    <2>4. CASE /\ import_state[p][f] = "none"
               /\ checks' = [checks EXCEPT ![p] = Append(@, CheckCall(f))]
               /\ import_state' = [import_state EXCEPT ![p][f] = "unknown"]
      <3>1. PICK e \in CheckFrame : e = CheckCall(f) /\ e.phase = "stat"
        <4>1. CheckCall(f) \in CheckFrame
          BY DEF CheckCall, CheckFrame, Time
        <4>2. CheckCall(f).phase = "stat"
          BY DEF CheckCall
        <4> QED
          BY <4>1, <4>2
      <3>2. checks'[p] = Append(s, e)
        BY <1>2, <2>4, <3>1 DEF TypeOK
      <3>3. CheckLeft(e) = n + 3
        BY <1>6, <3>1 DEF CheckLeft
      <3>4. ChecksLeft(checks'[p]) = a + b + (n + 3)
        BY <1>5, <3>2, <3>3
      <3>5. Now(main'[p], checks'[p], imps'[p]) < Now(main[p], checks[p], imps[p]) + (n + 4) * 1
        BY <1>7, <3>4, SMTT(30)
      <3>6. /\ \A g \in Files : import_state'[p][g] = "none" => import_state[p][g] = "none"
            /\ import_state'[p][f] # "none"
        BY <2>4 DEF TypeOK
      <3>7. Calls(import_state'[p], imported'[p]) + 1 <= Calls(import_state[p], imported[p])
        <4>1. imported[p] \in SUBSET Files
          BY DEF TypeOK
        <4> QED
          BY <1>1, <2>4, <3>6, <4>1, CallsUsed
      <3> QED
        BY <1>6, <3>5, <3>7, StepLess
    <2> QED
      BY <1>2, <1>3, <1>13, <2>2, <2>3, <2>4 DEF CheckImport
  <1>14. CASE CheckDone(p)
    BY <1>9, <1>14 DEF CheckDone
  <1> QED
    BY <1>11, <1>12, <1>13, <1>14

\* An import that has been checked uses up one of its steps.
LEMMA ImportUses ==
    ASSUME TypeOK, TypeOK', NEW p \in Procs,
           OpenBinary(p) \/ OpenSource(p) \/ CloseBinary(p) \/ Rename(p) \/ BinaryDone(p)
    PROVE  StepsLeft(p)' < StepsLeft(p)
  <1>1. /\ imps[p] # <<>>
        /\ main'[p] = main[p] /\ imported'[p] = imported[p] /\ checks'[p] = checks[p]
        /\ import_state'[p] = import_state[p]
    BY DEF OpenBinary, OpenSource, CloseBinary, Rename, BinaryDone, Importing
  <1>2. PICK s \in Seq(ImportFrame) : s = imps[p]
    BY <1>1, ImportTop
  <1>3. PICK r \in Seq(ImportFrame), fr \in ImportFrame : r = Pop(s) /\ fr = Top(s)
    BY <1>1, <1>2, ImportTop
  <1>4. PICK a \in Nat, b \in Nat \ {0} : a = ImportsLeft(r) /\ b = ImportLeft(fr)
    BY ImportsLaws, ActivationLeft
  <1>5. /\ ImportsLeft(s) = a + b
        /\ \A e \in ImportFrame : ImportsLeft(SetTop(s, e)) = a + ImportLeft(e)
    <2>1. s # <<>>
      BY <1>1, <1>2
    <2>2. /\ ImportsLeft(s) = ImportsLeft(Pop(s)) + ImportLeft(Top(s))
          /\ \A e \in ImportFrame : ImportsLeft(SetTop(s, e)) = ImportsLeft(Pop(s)) + ImportLeft(e)
      BY <2>1, ImportsLaws
    <2> QED
      BY <1>3, <1>4, <2>2
  <1>6. PICK m \in Nat, c \in Nat, n \in Nat :
            /\ m = Cardinality(main[p]) /\ c = ChecksLeft(checks[p]) /\ n = Cardinality(Files)
    BY Counts, ChecksLaws DEF TypeOK
  <1>7. /\ Now(main[p], checks[p], imps[p]) = m + c + (a + b)
        /\ Now(main'[p], checks'[p], imps'[p]) = m + c + ImportsLeft(imps'[p])
    BY <1>1, <1>2, <1>5, <1>6 DEF Now
  <1>8. Calls(import_state'[p], imported'[p]) + 0 <= Calls(import_state[p], imported[p])
    <2>1. imported[p] \in SUBSET Files
      BY DEF TypeOK
    <2>2. Calls(import_state[p], imported[p]) \in Nat
      BY <2>1, CallsUsed
    <2> QED
      BY <1>1, <2>2
  <1>9. ASSUME NEW x \in Nat, ImportsLeft(imps'[p]) = a + x, x < b
        PROVE  StepsLeft(p)' < StepsLeft(p)
    <2>1. Now(main'[p], checks'[p], imps'[p]) < Now(main[p], checks[p], imps[p]) + (n + 4) * 0
      BY <1>7, <1>9, SMTT(30)
    <2> QED
      BY <1>6, <1>8, <2>1, StepLess
  <1>10. ASSUME NEW e \in ImportFrame, imps' = [imps EXCEPT ![p] = SetTop(@, e)], ImportLeft(e) < b
         PROVE  StepsLeft(p)' < StepsLeft(p)
    <2>1. imps'[p] = SetTop(s, e)
      BY <1>2, <1>10 DEF TypeOK
    <2>2. ImportLeft(e) \in Nat /\ ImportsLeft(imps'[p]) = a + ImportLeft(e)
      BY <1>5, <2>1, ActivationLeft
    <2> QED
      BY <1>9, <1>10, <2>2
  <1>11. CASE Rename(p) \/ BinaryDone(p)
    <2>1. imps'[p] = r
      BY <1>2, <1>3, <1>11 DEF Rename, BinaryDone, ImportReturn, TypeOK
    <2>2. ImportsLeft(imps'[p]) = a + 0 /\ 0 < b
      BY <1>4, <2>1
    <2> QED
      BY <1>9, <2>2
  <1>12. ASSUME NEW phase \in {"binary", "compile"}, fr.phase = "check",
                imps' = [imps EXCEPT ![p] =
                            SetTop(@, [fr EXCEPT !.phase = phase, !.todo = Imports[fr.file]])]
         PROVE  StepsLeft(p)' < StepsLeft(p)
    <2>1. PICK e : e = [fr EXCEPT !.phase = phase, !.todo = Imports[fr.file]]
      OBVIOUS
    <2>2. e \in ImportFrame /\ e.phase = phase /\ e.todo \in SUBSET Files
      BY <2>1, <1>12, ImportsAssumption DEF ImportFrame
    <2>3. PICK x \in Nat : x = Cardinality(e.todo) /\ x <= n
      BY <1>6, <2>2, Counts
    <2>4. (ImportLeft(e) = x + 1 \/ ImportLeft(e) = x + 2) /\ b = n + 3
      BY <1>4, <1>6, <1>12, <2>2, <2>3 DEF ImportLeft
    <2>5. imps' = [imps EXCEPT ![p] = SetTop(@, e)]
      BY <1>12, <2>1
    <2>6. ImportLeft(e) < b
      <3>1. x + 1 < b /\ x + 2 < b
        BY <2>3, <2>4
      <3> QED
        BY <2>4, <3>1
    <2> QED
      BY <1>10, <2>2, <2>5, <2>6
  <1>13. CASE OpenBinary(p)
    BY <1>2, <1>3, <1>12, <1>13 DEF OpenBinary
  <1>14. CASE OpenSource(p)
    BY <1>2, <1>3, <1>12, <1>14 DEF OpenSource
  <1>15. CASE CloseBinary(p)
    <2>1. PICK e : e = [fr EXCEPT !.phase = "closed", !.time = clock + 1]
      OBVIOUS
    <2>2. e \in ImportFrame /\ e.phase = "closed"
      <3>1. PICK now \in Time : now = clock + 1
        BY DEF TypeOK, Time
      <3> QED
        BY <2>1, <3>1 DEF ImportFrame
    <2>3. fr.phase = "compile" /\ fr.todo = {} /\ imps' = [imps EXCEPT ![p] = SetTop(@, e)]
      BY <1>2, <1>3, <1>15, <2>1 DEF CloseBinary
    <2>4. Cardinality(fr.todo) \in Nat
      BY <2>3, Counts
    <2>5. ImportLeft(e) = 1 /\ b = Cardinality(fr.todo) + 2
      BY <1>4, <2>2, <2>3 DEF ImportLeft
    <2>6. ImportLeft(e) < b
      BY <2>4, <2>5
    <2> QED
      BY <1>10, <2>2, <2>3, <2>6
  <1> QED
    BY <1>11, <1>13, <1>14, <1>15

\* Asking for a file uses up one of the imports of a program or of a file.
LEMMA AskUses ==
    ASSUME TypeOK, TypeOK', NEW p \in Procs, NEW f \in Files, Wants(p, f), AskedMain(p, f)
    PROVE  /\ Asked(p, f) \in Seq(ImportFrame)
           /\ Now(main'[p], checks[p], Asked(p, f)) + 1 = Now(main[p], checks[p], imps[p])
  <1>1. PICK m \in Nat, c \in Nat :
            m = Cardinality(main[p]) /\ c = ChecksLeft(checks[p])
    BY Counts, ChecksLaws DEF TypeOK
  <1>2. Asked(p, f) \in Seq(ImportFrame)
    BY AskedTypes
  <1>3. CASE imps[p] = <<>>
    <2>1. main[p] \in SUBSET Files /\ f \in main[p] /\ main'[p] = main[p] \ {f} /\ Asked(p, f) = imps[p]
      BY <1>3 DEF Wants, AskedMain, Asked, TypeOK
    <2>2. Cardinality(main'[p]) = m - 1
      BY <1>1, <2>1, Counts
    <2>3. PICK i \in Nat : i = ImportsLeft(imps[p])
      BY ImportsLaws DEF TypeOK
    <2> QED
      BY <1>1, <1>2, <2>1, <2>2, <2>3 DEF Now
  <1>4. CASE imps[p] # <<>>
    <2>1. PICK s \in Seq(ImportFrame) : s = imps[p]
      BY <1>4, ImportTop
    <2>2. PICK r \in Seq(ImportFrame), fr \in ImportFrame : r = Pop(s) /\ fr = Top(s)
      BY <1>4, <2>1, ImportTop
    <2>3. PICK e : e = [fr EXCEPT !.todo = @ \ {f}]
      OBVIOUS
    <2>4. fr.phase \in {"binary", "compile"} /\ f \in fr.todo /\ fr.todo \in SUBSET Files
      BY <1>4, <2>1, <2>2 DEF Wants, ImportFrame
    <2>5. e \in ImportFrame /\ e.phase = fr.phase /\ e.todo = fr.todo \ {f}
      BY <2>3, <2>4 DEF ImportFrame
    <2>6. Asked(p, f) = SetTop(s, e) /\ main'[p] = main[p]
      BY <1>4, <2>1, <2>2, <2>3 DEF Asked, AskedMain
    <2>7. PICK x \in Nat : Cardinality(fr.todo) = x + 1 /\ Cardinality(e.todo) = x
      <3>1. /\ Cardinality(fr.todo) \in Nat /\ Cardinality(e.todo) \in Nat
            /\ Cardinality(e.todo) = Cardinality(fr.todo) - 1
        BY <2>4, <2>5, Counts
      <3> QED
        BY <3>1
    <2>8. PICK a \in Nat, b \in Nat :
              a = ImportsLeft(r) /\ ImportLeft(e) = b /\ ImportLeft(fr) = b + 1
      <3>1. ImportsLeft(r) \in Nat /\ ImportLeft(e) \in Nat
        BY <2>5, ImportsLaws, ActivationLeft
      <3>2. ImportLeft(fr) = ImportLeft(e) + 1
        BY <2>4, <2>5, <2>7 DEF ImportLeft
      <3> QED
        BY <3>1, <3>2
    <2>9. ImportsLeft(s) = a + (b + 1) /\ ImportsLeft(SetTop(s, e)) = a + b
      <3>1. s # <<>>
        BY <1>4, <2>1
      <3>2. /\ ImportsLeft(s) = ImportsLeft(Pop(s)) + ImportLeft(Top(s))
            /\ ImportsLeft(SetTop(s, e)) = ImportsLeft(Pop(s)) + ImportLeft(e)
        BY <2>5, <3>1, ImportsLaws
      <3> QED
        BY <2>2, <2>8, <3>2
    <2>10. /\ Now(main[p], checks[p], imps[p]) = m + c + (a + (b + 1))
           /\ Now(main'[p], checks[p], Asked(p, f)) = m + c + (a + b)
      BY <1>1, <2>1, <2>6, <2>9 DEF Now
    <2> QED
      BY <1>2, <2>10
  <1> QED
    BY <1>3, <1>4

\* What the new activation of an import has left is no more than the calls it uses up.
LEMMA CallUses ==
    ASSUME TypeOK, TypeOK', NEW p \in Procs, NEW f \in Files, ImportAgain(p, f) \/ ImportFirst(p, f)
    PROVE  StepsLeft(p)' < StepsLeft(p)
  <1>1. Wants(p, f) /\ AskedMain(p, f)
    BY DEF ImportAgain, ImportFirst
  <1>2. PICK s \in Seq(ImportFrame) :
            /\ s = Asked(p, f)
            /\ Now(main'[p], checks[p], s) + 1 = Now(main[p], checks[p], imps[p])
    BY <1>1, AskUses
  <1>3. PICK m \in Nat, c \in Nat, i \in Nat, n \in Nat :
            /\ m = Cardinality(main'[p]) /\ c = ChecksLeft(checks[p]) /\ i = ImportsLeft(s)
            /\ n = Cardinality(Files)
    BY Counts, ChecksLaws, ImportsLaws DEF TypeOK
  <1>4. Now(main[p], checks[p], imps[p]) = m + c + i + 1
    BY <1>2, <1>3 DEF Now
  <1>5. imported[p] \in SUBSET Files /\ imported'[p] \in SUBSET Files
    BY DEF TypeOK
  <1>6. CASE ImportAgain(p, f)
    <2>1. /\ imps'[p] = s /\ checks'[p] = checks[p]
          /\ imported'[p] = imported[p] /\ import_state'[p] = import_state[p]
      BY <1>2, <1>6 DEF ImportAgain, TypeOK
    <2>2. Now(main'[p], checks'[p], imps'[p]) = m + c + i
      BY <1>3, <2>1 DEF Now
    <2>3. Calls(import_state[p], imported[p]) \in Nat
      BY <1>5, CallsUsed
    <2>4. Calls(import_state'[p], imported'[p]) + 0 <= Calls(import_state[p], imported[p])
      BY <2>1, <2>3
    <2>5. Now(main'[p], checks'[p], imps'[p]) < Now(main[p], checks[p], imps[p]) + (n + 4) * 0
      BY <1>4, <2>2
    <2> QED
      BY <1>3, <2>4, <2>5, StepLess
  <1>7. CASE ImportFirst(p, f)
    <2>1. PICK e \in ImportFrame :
              e = [file |-> f, phase |-> "check", time |-> 0, todo |-> {}] /\ e.phase = "check"
      <3>1. [file |-> f, phase |-> "check", time |-> 0, todo |-> {}] \in ImportFrame
        BY DEF ImportFrame, Time
      <3> QED
        BY <3>1
    <2>2. imps'[p] = Append(s, e)
      BY <1>2, <1>7, <2>1 DEF ImportFirst, TypeOK
    <2>3. ImportLeft(e) = n + 3
      BY <1>3, <2>1 DEF ImportLeft
    <2>4. ImportsLeft(imps'[p]) = i + (n + 3)
      BY <1>3, <2>2, <2>3, ImportsLaws
    <2>5. f \in imported'[p] /\ f \notin imported[p] /\ imported[p] \subseteq imported'[p]
      BY <1>7 DEF ImportFirst, TypeOK
    <2>6. CASE import_state[p][f] # "none"
      <3>1. checks'[p] = checks[p] /\ import_state'[p] = import_state[p]
        BY <1>7, <2>6 DEF ImportFirst
      <3>2. Now(main'[p], checks'[p], imps'[p]) = m + c + (i + (n + 3))
        BY <1>3, <2>4, <3>1 DEF Now
      <3>3. Now(main'[p], checks'[p], imps'[p]) < Now(main[p], checks[p], imps[p]) + (n + 4) * 1
        BY <1>4, <3>2, SMTT(30)
      <3>4. Calls(import_state'[p], imported'[p]) + 1 <= Calls(import_state[p], imported[p])
        BY <1>5, <2>5, <3>1, CallsUsed
      <3> QED
        BY <1>3, <3>3, <3>4, StepLess
    <2>7. CASE import_state[p][f] = "none"
      <3>1. PICK g \in CheckFrame : g = CheckCall(f) /\ g.phase = "stat"
        <4>1. CheckCall(f) \in CheckFrame
          BY DEF CheckCall, CheckFrame, Time
        <4>2. CheckCall(f).phase = "stat"
          BY DEF CheckCall
        <4> QED
          BY <4>1, <4>2
      <3>2. checks[p] = <<>> /\ checks'[p] = <<g>>
        BY <1>7, <2>7, <3>1 DEF ImportFirst, Wants, Checking, TypeOK
      <3>3. CheckLeft(g) = n + 3
        BY <1>3, <3>1 DEF CheckLeft
      <3>4. ChecksLeft(checks'[p]) = c + (n + 3)
        <4>1. PICK z \in Seq(CheckFrame) : z = checks[p]
          BY <3>2, EmptySeq
        <4>2. checks'[p] = Append(z, g)
          BY <3>2, <4>1
        <4>3. ChecksLeft(Append(z, g)) = ChecksLeft(z) + CheckLeft(g)
          BY ChecksLaws
        <4> QED
          BY <1>3, <3>3, <4>1, <4>2, <4>3
      <3>5. /\ \A h \in Files : import_state'[p][h] = "none" => import_state[p][h] = "none"
            /\ import_state'[p][f] # "none"
        BY <1>7, <2>7 DEF ImportFirst, TypeOK
      <3>6. Now(main'[p], checks'[p], imps'[p]) = m + (c + (n + 3)) + (i + (n + 3))
        BY <1>3, <2>4, <3>4 DEF Now
      <3>7. Now(main'[p], checks'[p], imps'[p]) < Now(main[p], checks[p], imps[p]) + (n + 4) * 2
        BY <1>4, <3>6
      <3>8. Calls(import_state'[p], imported'[p]) + 2 <= Calls(import_state[p], imported[p])
        BY <1>5, <2>5, <2>7, <3>5, CallsUsed
      <3> QED
        BY <1>3, <3>7, <3>8, StepLess
    <2> QED
      BY <2>6, <2>7
  <1> QED
    BY <1>6, <1>7

\* What the others do is nothing to a compiler.
LEMMA OthersKeep ==
    ASSUME TypeOK, NEW p \in Procs, NEW q \in Procs, q # p, Step(p) \/ Start(p) \/ Kill(p)
    PROVE  Local(q)' = Local(q)
  <1>1. \A P : Exit(P) /\ q \notin P => Local(q)' = Local(q)
    BY DEF Exit, Local
  <1>2. CASE Finish(p) \/ NotFound(p) \/ Kill(p)
    BY <1>1, <1>2 DEF Finish, NotFound, Kill
  <1>3. CASE Start(p)
    BY <1>3 DEF Start, Local, TypeOK
  <1>4. CASE CheckStat(p) \/ CheckOpen(p) \/ CheckDone(p) \/ \E f \in Files : CheckImport(p, f)
    <2>1. /\ checks'[q] = checks[q] /\ import_state'[q] = import_state[q]
          /\ UNCHANGED <<main, imported, imps>>
      BY <1>4 DEF CheckStat, CheckOpen, CheckDone, CheckImport, CheckReturn, TypeOK
    <2> QED
      BY <2>1 DEF Local
  <1>5. CASE \E f \in Files : ImportAgain(p, f) \/ ImportFirst(p, f)
    <2>1. /\ checks'[q] = checks[q] /\ import_state'[q] = import_state[q]
          /\ imported'[q] = imported[q] /\ imps'[q] = imps[q] /\ main'[q] = main[q]
      BY <1>5 DEF ImportAgain, ImportFirst, AskedMain, TypeOK
    <2> QED
      BY <2>1 DEF Local
  <1>6. CASE OpenBinary(p) \/ OpenSource(p) \/ CloseBinary(p) \/ Rename(p) \/ BinaryDone(p)
    <2>1. /\ imps'[q] = imps[q]
          /\ UNCHANGED <<main, import_state, imported, checks>>
      BY <1>6 DEF OpenBinary, OpenSource, CloseBinary, Rename, BinaryDone, ImportReturn, TypeOK
    <2> QED
      BY <2>1 DEF Local
  <1> QED
    BY <1>2, <1>3, <1>4, <1>5, <1>6 DEF Step

\* A compiler that has ended is not running.
LEMMA StepUses ==
    ASSUME TypeOK, TypeOK', NEW p \in Procs, p \in running, p \in running', Step(p) \/ Start(p) \/ Kill(p)
    PROVE  StepsLeft(p)' < StepsLeft(p)
  <1>1. ~Exit({p})
    BY DEF Exit
  <1>2. ~(Start(p) \/ Finish(p) \/ NotFound(p) \/ Kill(p))
    BY <1>1 DEF Start, Finish, NotFound, Kill
  <1>3. CASE CheckStat(p) \/ CheckOpen(p) \/ CheckDone(p) \/ \E f \in Files : CheckImport(p, f)
    <2>1. CASE CheckStat(p) \/ CheckOpen(p) \/ CheckDone(p)
      <3>1. checks[p] # <<>>
        BY <2>1 DEF CheckStat, CheckOpen, CheckDone, Checking
      <3>2. PICK f \in Files : TRUE
        BY <3>1, CheckTop DEF CheckFrame, Checking
      <3> QED
        BY <2>1, <3>2, CheckUses
    <2>2. CASE \E f \in Files : CheckImport(p, f)
      BY <2>2, CheckUses
    <2> QED
      BY <1>3, <2>1, <2>2
  <1>4. CASE \E f \in Files : ImportAgain(p, f) \/ ImportFirst(p, f)
    BY <1>4, CallUses
  <1>5. CASE OpenBinary(p) \/ OpenSource(p) \/ CloseBinary(p) \/ Rename(p) \/ BinaryDone(p)
    BY <1>5, ImportUses
  <1> QED
    BY <1>2, <1>3, <1>4, <1>5 DEF Step

\* StepsRunOut, for every finite set of files, however they import each other,
\* any number of compilers and whatever happens to the files: a compiler that
\* goes on has fewer steps left after each of its steps.
THEOREM CompilersEnd == Spec => StepsRunOut
  <1>1. ASSUME TypeOK, TypeOK', [Next]_vars, NEW p \in running \cap running'
        PROVE  Local(p)' = Local(p) \/ StepsLeft(p)' < StepsLeft(p)
    <2>1. p \in Procs
      BY <1>1 DEF TypeOK
    <2>2. CASE \E q \in Procs : Step(q) \/ Start(q) \/ Kill(q)
      <3>1. PICK q \in Procs : Step(q) \/ Start(q) \/ Kill(q)
        BY <2>2
      <3>2. CASE q = p
        BY <1>1, <2>1, <3>1, <3>2, StepUses
      <3>3. CASE q # p
        BY <1>1, <2>1, <3>1, <3>3, OthersKeep
      <3> QED
        BY <3>2, <3>3
    <2>3. CASE (\E f \in Files : Edit(f) \/ Remove(f)) \/ UNCHANGED vars
      BY <2>3 DEF Edit, Remove, procVars, vars, Local
    <2>4. CASE PowerLoss
      <3>1. Exit(Procs)
        BY <2>4, Zenon DEF PowerLoss
      <3> QED
        BY <1>1, <2>1, <3>1 DEF Exit
    <2> QED
      BY <1>1, <2>2, <2>3, <2>4 DEF Next
  <1>2. TypeOK /\ TypeOK' /\ [Next]_vars =>
            [\A p \in running \cap running' : Local(p)' = Local(p) \/ StepsLeft(p)' < StepsLeft(p)]_vars
    BY <1>1
  <1> QED
    BY <1>2, TypeCorrect, PTL DEF Spec, StepsRunOut

=============================================================================
