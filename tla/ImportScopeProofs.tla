-------------------------- MODULE ImportScopeProofs --------------------------
(***************************************************************************)
(* Theorems about ImportScope, for every source tree, with circles or       *)
(* without, of any size; and that in trees without circles scopes and       *)
(* exports are what ScopeMeaning says.                                      *)
(***************************************************************************)
EXTENDS ScopeMeaning, WellFoundedInduction, SequenceTheorems, TLAPS

(***************************************************************************)
(* Sequences.                                                               *)
(***************************************************************************)

\* The first n elements of a sequence and a new one after them.
Cut(s, n, e) == Append(SubSeq(s, 1, n), e)

\* What is in it.
LEMMA CutLemma ==
    ASSUME NEW S, NEW s \in Seq(S), NEW n \in 0..Len(s), NEW e \in S
    PROVE  /\ Cut(s, n, e) \in Seq(S) /\ Cut(s, n, e) # <<>>
           /\ Len(Cut(s, n, e)) = n + 1
           /\ DOMAIN Cut(s, n, e) = 1..(n + 1)
           /\ Cut(s, n, e)[n + 1] = e
           /\ \A i \in 1..n : Cut(s, n, e)[i] = s[i]
  <1> DEFINE b == SubSeq(s, 1, n)
  <1>1. Len(s) \in Nat /\ n \in Nat /\ n <= Len(s)
    BY LenProperties
  <1>2. \A i \in 1..n : s[i] \in S
    BY <1>1, ElementOfSeq
  <1>3. b \in Seq(S) /\ Len(b) = n /\ \A i \in 1..n : b[i] = s[i]
    <2>1. /\ b \in Seq(S)
          /\ Len(b) = IF 1 <= n THEN n - 1 + 1 ELSE 0
          /\ \A i \in 1..(n - 1 + 1) : b[i] = s[1 + i - 1]
      BY <1>1, <1>2, SubSeqProperties
    <2>2. n - 1 + 1 = n /\ \A i \in 1..n : 1 + i - 1 = i
      BY <1>1
    <2> QED
      BY <1>1, <2>1, <2>2
  <1> HIDE DEF b
  <1>4. /\ Append(b, e) \in Seq(S) /\ Append(b, e) # <<>>
        /\ Len(Append(b, e)) = n + 1
        /\ Append(b, e)[n + 1] = e
        /\ \A i \in 1..n : Append(b, e)[i] = b[i]
    BY <1>1, <1>3, AppendProperties
  <1>5. DOMAIN Append(b, e) = 1..(n + 1)
    BY <1>4, LenProperties
  <1> QED
    BY <1>3, <1>4, <1>5 DEF b, Cut

(***************************************************************************)
(* Calls, declarations and contexts.                                        *)
(***************************************************************************)

\* The kind of a call tells what it carries.
LEMMA CallTypes ==
    ASSUME NEW c \in Call
    PROVE  /\ c.op \in {"add", "export"} => c.name \in Names /\ c.thing \in Things
           /\ c.op \in {"add_effort", "export_effort"} => c.effort \in Efforts
  <1>1. CASE c \in Declare
    BY <1>1 DEF Declare
  <1>2. CASE c \in Effort
    BY <1>2 DEF Effort
  <1>3. CASE c \in Import
    BY <1>3 DEF Import
  <1> QED
    BY <1>1, <1>2, <1>3 DEF Call

\* Inserting declarations gives declarations.
LEMMA InsertType ==
    ASSUME NEW d \in Declarations, NEW o \in Declarations
    PROVE  Insert(d, o) \in Declarations
  BY DEF Insert, Declarations

\* One declaration.
LEMMA OneType ==
    ASSUME NEW n \in Names, NEW t \in Things
    PROVE  One(n, t) \in Declarations
  BY DEF One, NoDecls, Declarations

\* The context that is running.
LEMMA TopType ==
    ASSUME TypeOK
    PROVE  /\ Len(stack) \in Nat \ {0}
           /\ Top \in LocalCtx
           /\ stack[Len(stack)] = Top
           /\ DOMAIN stack = 1..Len(stack)
  <1>1. stack \in Seq(LocalCtx) /\ stack # <<>>
    BY DEF TypeOK
  <1>2. Len(stack) \in Nat \ {0}
    BY <1>1, EmptySeq
  <1> QED
    BY <1>1, <1>2, ElementOfSeq, LenProperties DEF Top

\* A context that goes on with its next call.
LEMMA GoesType ==
    ASSUME NEW c \in LocalCtx, c.todo # <<>>
    PROVE  Goes(c) \in LocalCtx /\ Goes(c).file = c.file
  <1>1. c.todo \in Seq(Call)
    BY DEF LocalCtx
  <1>2. Tail(c.todo) \in Seq(Call)
    BY <1>1, HeadTailProperties
  <1> QED
    BY <1>2 DEF Goes, LocalCtx

\* A context that receives export data.
LEMMA ReceiveType ==
    ASSUME NEW c \in LocalCtx, NEW d \in ExportData
    PROVE  /\ Receive(c, d) \in LocalCtx
           /\ Receive(c, d).file = c.file /\ Receive(c, d).todo = c.todo
  <1>1. /\ c.decls \in Declarations /\ d.decls \in Declarations
        /\ c.ran \in Seq(Efforts) /\ d.efforts \in Seq(Efforts)
    BY DEF LocalCtx, ExportData
  <1>2. Insert(c.decls, d.decls) \in Declarations
    BY <1>1, InsertType
  <1>3. c.ran \o d.efforts \in Seq(Efforts)
    BY <1>1, ConcatProperties
  <1> QED
    BY <1>2, <1>3 DEF Receive, LocalCtx

\* Export data passed on.
LEMMA PassType ==
    ASSUME NEW e \in ExportData, NEW d \in ExportData
    PROVE  Pass(e, d) \in ExportData /\ Pass(e, d).known = e.known
  <1>1. /\ e.decls \in Declarations /\ d.decls \in Declarations
        /\ e.efforts \in Seq(Efforts) /\ d.efforts \in Seq(Efforts)
    BY DEF ExportData
  <1>2. Insert(e.decls, d.decls) \in Declarations
    BY <1>1, InsertType
  <1>3. e.efforts \o d.efforts \in Seq(Efforts)
    BY <1>1, ConcatProperties
  <1> QED
    BY <1>2, <1>3 DEF Pass, ExportData

\* A context that notes a file.
LEMMA MarkType ==
    ASSUME NEW c \in LocalCtx, NEW f \in Files
    PROVE  /\ [c EXCEPT !.imported = @ \cup {f}] \in LocalCtx
           /\ [c EXCEPT !.imported = @ \cup {f}].file = c.file
           /\ [c EXCEPT !.imported = @ \cup {f}].todo = c.todo
           /\ MarkExported(c, f) \in LocalCtx
           /\ MarkExported(c, f).file = c.file
           /\ MarkExported(c, f).todo = c.todo
  BY SMTT(30) DEF LocalCtx, MarkExported

(***************************************************************************)
(* What a step does to the files on the stack and to the export data.       *)
(***************************************************************************)

\* The export data of no other file changes, and no entry is made or lost.
DataOf(f) ==
    \A g \in Files : /\ data'[g].known = data[g].known
                     /\ g # f => data'[g] = data[g]

\* The innermost context goes on.
Goes_On ==
    /\ DOMAIN stack' = DOMAIN stack
    /\ \A i \in DOMAIN stack : stack'[i].file = stack[i].file
    /\ \A i \in 1..(Len(stack) - 1) : stack'[i] = stack[i]
    /\ DataOf(Top.file)

\* A file starts to run.
Starts ==
    \E f \in Files :
        /\ ~data[f].known
        /\ DOMAIN stack' = 1..(Len(stack) + 1)
        /\ stack'[Len(stack) + 1].file = f
        /\ Top.todo # <<>>
        /\ \A i \in 1..Len(stack) : stack'[i] = stack[i]
        /\ data'[f].known
        /\ \A g \in Files \ {f} : data'[g] = data[g]

\* A file has run.
Ends ==
    /\ Len(stack) > 1
    /\ DOMAIN stack' = 1..(Len(stack) - 1)
    /\ \A i \in 1..(Len(stack) - 1) : stack'[i].file = stack[i].file
    /\ \A i \in 1..(Len(stack) - 2) : stack'[i] = stack[i]
    /\ DataOf(stack[Len(stack) - 1].file)

\* Replacing the innermost context by one of the same file.
LEMMA StaysLemma ==
    ASSUME TypeOK, NEW c \in LocalCtx, c.file = Top.file, stack' = Append(Below, c)
    PROVE  /\ stack' \in Seq(LocalCtx) /\ stack' # <<>> /\ stack'[1].file = Main
           /\ DOMAIN stack' = DOMAIN stack
           /\ \A i \in DOMAIN stack : stack'[i].file = stack[i].file
           /\ \A i \in 1..(Len(stack) - 1) : stack'[i] = stack[i]
  <1>1. Len(stack) \in Nat \ {0}
    BY TopType
  <1>2. stack[Len(stack)] = Top /\ DOMAIN stack = 1..Len(stack)
    BY TopType
  <1>3. stack \in Seq(LocalCtx) /\ stack[1].file = Main
    BY SMTT(30) DEF TypeOK
  <1>4. PICK k \in 0..Len(stack) : k + 1 = Len(stack) /\ k = Len(stack) - 1
    <2>1. Len(stack) - 1 \in 0..Len(stack) /\ Len(stack) - 1 + 1 = Len(stack)
      BY <1>1
    <2> QED
      BY <2>1
  <1>5. stack' = Cut(stack, k, c)
    BY <1>4 DEF Below, Cut
  <1>6. /\ stack' \in Seq(LocalCtx) /\ stack' # <<>>
        /\ DOMAIN stack' = 1..(k + 1)
        /\ stack'[k + 1] = c
        /\ \A i \in 1..k : stack'[i] = stack[i]
    <2>1. stack \in Seq(LocalCtx)
      BY <1>3
    <2>2. k \in 0..Len(stack)
      BY <1>4
    <2>3. Cut(stack, k, c) \in Seq(LocalCtx)
      BY <2>1, <2>2, CutLemma
    <2>4. Cut(stack, k, c) # <<>>
      BY <2>1, <2>2, CutLemma
    <2>5. DOMAIN Cut(stack, k, c) = 1..(k + 1)
      BY <2>1, <2>2, CutLemma
    <2>6. Cut(stack, k, c)[k + 1] = c
      BY <2>1, <2>2, CutLemma
    <2>7. \A i \in 1..k : Cut(stack, k, c)[i] = stack[i]
      BY <2>1, <2>2, CutLemma, SMTT(30)
    <2> QED
      BY <1>5, <2>3, <2>4, <2>5, <2>6, <2>7
  <1>7. ASSUME NEW i \in DOMAIN stack PROVE stack'[i].file = stack[i].file
    <2>1. i \in 1..k \/ i = k + 1
      BY <1>1, <1>2, <1>4
    <2> QED
      BY <1>2, <1>4, <1>6, <2>1
  <1>8. 1 \in DOMAIN stack
    BY <1>1, <1>2
  <1> QED
    BY <1>2, <1>3, <1>4, <1>6, <1>7, <1>8

\* Changing the export data of one file.
LEMMA DataLemma ==
    ASSUME TypeOK, NEW f \in Files, NEW e \in ExportData, e.known = data[f].known,
           data' = [data EXCEPT ![f] = e]
    PROVE  data' \in [Files -> ExportData] /\ DataOf(f)
  BY DEF TypeOK, DataOf

(***************************************************************************)
(* The actions.                                                             *)
(***************************************************************************)

\* A suspended context is making the call of the import above it.
CallPending ==
    \A i \in 1..(Len(stack) - 1) : stack[i].todo # <<>>

\* Above the program there are only files.
FilesAbove ==
    \A i \in 2..Len(stack) : stack[i].file \in Files

\* The inductive invariant: types, and which files are on the stack.
Inv == TypeOK /\ OneActivation /\ RunningKnown /\ CallPending /\ FilesAbove

\* A step of the innermost context that exports nothing.
LEMMA QuietStep ==
    ASSUME TypeOK, NEW c \in LocalCtx, c.file = Top.file,
           stack' = Append(Below, c), UNCHANGED <<tree, data>>
    PROVE  TypeOK' /\ Goes_On
  BY StaysLemma DEF TypeOK, Goes_On, DataOf

\* A step of the innermost context that may export.
LEMMA ExportStep ==
    ASSUME TypeOK, NEW c \in LocalCtx, c.file = Top.file,
           stack' = Append(Below, c), UNCHANGED tree,
           NEW e \in ExportData,
           Exports(Top) => e.known = data[Top.file].known,
           data' = IF Exports(Top) THEN [data EXCEPT ![Top.file] = e] ELSE data
    PROVE  TypeOK' /\ Goes_On
  <1>1. data' \in [Files -> ExportData] /\ DataOf(Top.file)
    <2>1. CASE Exports(Top)
      BY <2>1, DataLemma DEF Exports
    <2>2. CASE ~Exports(Top)
      BY <2>2 DEF TypeOK, DataOf
    <2> QED
      BY <2>1, <2>2
  <1> QED
    BY <1>1, StaysLemma DEF TypeOK, Goes_On

\* What an action that makes a call knows of it.
LEMMA CallingType ==
    ASSUME TypeOK, NEW op, Calling(op)
    PROVE  /\ Top.todo # <<>> /\ Head(Top.todo) \in Call
           /\ Head(Top.todo).op = op
  <1>1. Top.todo \in Seq(Call) /\ Top.todo # <<>>
    BY TopType DEF LocalCtx, Calling
  <1> QED
    BY <1>1, HeadTailProperties DEF Calling

\* add_*
LEMMA AddStep == ASSUME TypeOK, Add PROVE TypeOK' /\ Goes_On
  <1> DEFINE call == Head(Top.todo)
             c == [Top EXCEPT !.decls = Insert(@, One(call.name, call.thing))]
  <1>1. Top.todo # <<>> /\ One(call.name, call.thing) \in Declarations
    BY CallingType, CallTypes, OneType DEF Add
  <1>2. c \in LocalCtx /\ c.file = Top.file /\ c.todo = Top.todo
    BY <1>1, TopType, InsertType DEF LocalCtx
  <1>3. Goes(c) \in LocalCtx /\ Goes(c).file = Top.file
    BY <1>1, <1>2, GoesType
  <1>4. stack' = Append(Below, Goes(c)) /\ UNCHANGED <<tree, data>>
    BY DEF Add
  <1> QED
    BY <1>3, <1>4, QuietStep

\* export_*
LEMMA ExportCallStep == ASSUME TypeOK, Export PROVE TypeOK' /\ Goes_On
  <1> DEFINE call == Head(Top.todo)
             new == One(call.name, call.thing)
             c == [Top EXCEPT !.decls = Insert(@, new)]
             d == [data[Top.file] EXCEPT !.decls = Insert(@, new)]
  <1>1. Top.todo # <<>> /\ new \in Declarations
    BY CallingType, CallTypes, OneType DEF Export
  <1>2. c \in LocalCtx /\ c.file = Top.file /\ c.todo = Top.todo
    BY <1>1, TopType, InsertType DEF LocalCtx
  <1>3. Goes(c) \in LocalCtx /\ Goes(c).file = Top.file
    BY <1>1, <1>2, GoesType
  <1>4. stack' = Append(Below, Goes(c)) /\ UNCHANGED tree
    BY DEF Export
  <1>5. CASE Exports(Top)
    <2>1. data[Top.file] \in ExportData
      BY <1>5 DEF Exports, TypeOK
    <2>2. d \in ExportData /\ d.known = data[Top.file].known
      BY <1>1, <2>1, InsertType DEF ExportData
    <2>3. data' = [data EXCEPT ![Top.file] = d]
      BY <1>5 DEF Export, TypeOK
    <2> HIDE DEF d, c
    <2> QED
      BY <1>3, <1>4, <1>5, <2>2, <2>3, ExportStep
  <1>6. CASE ~Exports(Top)
    BY <1>3, <1>4, <1>6, QuietStep DEF Export
  <1> QED
    BY <1>5, <1>6

\* add_effort
LEMMA AddEffortStep == ASSUME TypeOK, AddEffort PROVE TypeOK' /\ Goes_On
  <1> DEFINE c == [Top EXCEPT !.ran = Append(@, Head(Top.todo).effort)]
  <1>1. Top.todo # <<>> /\ Head(Top.todo).effort \in Efforts
    BY CallingType, CallTypes DEF AddEffort
  <1>2. Top \in LocalCtx /\ Top.ran \in Seq(Efforts)
    BY TopType DEF LocalCtx
  <1>3. Append(Top.ran, Head(Top.todo).effort) \in Seq(Efforts)
    BY <1>1, <1>2, AppendProperties
  <1>4. c \in LocalCtx /\ c.file = Top.file /\ c.todo = Top.todo
    BY <1>2, <1>3 DEF LocalCtx
  <1>5. Goes(c) \in LocalCtx /\ Goes(c).file = Top.file
    BY <1>1, <1>4, GoesType
  <1>6. stack' = Append(Below, Goes(c)) /\ UNCHANGED <<tree, data>>
    BY DEF AddEffort
  <1> QED
    BY <1>5, <1>6, QuietStep

\* export_effort
LEMMA ExportEffortStep == ASSUME TypeOK, ExportEffort PROVE TypeOK' /\ Goes_On
  <1> DEFINE e == Head(Top.todo).effort
             c == [Top EXCEPT !.ran = Append(@, e)]
             d == [data[Top.file] EXCEPT !.efforts = Append(@, e)]
  <1>1. Top.todo # <<>> /\ e \in Efforts
    BY CallingType, CallTypes DEF ExportEffort
  <1>2. Top \in LocalCtx /\ Top.ran \in Seq(Efforts)
    BY TopType DEF LocalCtx
  <1>3. Append(Top.ran, e) \in Seq(Efforts)
    BY <1>1, <1>2, AppendProperties
  <1>4. c \in LocalCtx /\ c.file = Top.file /\ c.todo = Top.todo
    BY <1>2, <1>3 DEF LocalCtx
  <1>5. Goes(c) \in LocalCtx /\ Goes(c).file = Top.file
    BY <1>1, <1>4, GoesType
  <1>6. stack' = Append(Below, Goes(c)) /\ UNCHANGED tree
    BY DEF ExportEffort
  <1>7. CASE Exports(Top)
    <2>1. data[Top.file] \in ExportData /\ data[Top.file].efforts \in Seq(Efforts)
      BY <1>7 DEF Exports, TypeOK, ExportData
    <2>2. Append(data[Top.file].efforts, e) \in Seq(Efforts)
      BY <1>1, <2>1, AppendProperties
    <2>3. d \in ExportData /\ d.known = data[Top.file].known
      BY <2>1, <2>2 DEF ExportData
    <2>4. data' = [data EXCEPT ![Top.file] = d]
      BY <1>7 DEF ExportEffort, TypeOK
    <2> HIDE DEF d, c
    <2> QED
      BY <1>5, <1>6, <1>7, <2>3, <2>4, ExportStep
  <1>8. CASE ~Exports(Top)
    BY <1>5, <1>6, <1>8, QuietStep DEF ExportEffort
  <1> QED
    BY <1>7, <1>8

\* A context that imports a known file.
LEMMA ReimportedType ==
    ASSUME TypeOK, NEW c \in LocalCtx, NEW f \in Files
    PROVE  /\ Reimported(c, f) \in LocalCtx
           /\ Reimported(c, f).file = c.file /\ Reimported(c, f).todo = c.todo
  <1>1. data[f] \in ExportData
    BY DEF TypeOK
  <1> DEFINE r == Receive(c, data[f])
  <1>2. r \in LocalCtx /\ r.file = c.file /\ r.todo = c.todo
    BY <1>1, ReceiveType
  <1> HIDE DEF r
  <1>3. /\ [r EXCEPT !.imported = @ \cup {f}] \in LocalCtx
        /\ [r EXCEPT !.imported = @ \cup {f}].file = c.file
        /\ [r EXCEPT !.imported = @ \cup {f}].todo = c.todo
    BY <1>2, MarkType
  <1> QED
    BY <1>3 DEF Reimported, r

\* v_import of a known file
LEMMA ImportKnownStep == ASSUME TypeOK, ImportKnown PROVE TypeOK' /\ Goes_On
  <1>1. PICK f \in Files : /\ Importing("v_import", f)
                           /\ stack' = Append(Below, Goes(Reimported(Top, f)))
                           /\ UNCHANGED <<tree, data>>
    BY DEF ImportKnown
  <1>2. Top.todo # <<>>
    BY <1>1, CallingType DEF Importing
  <1> DEFINE c == Reimported(Top, f)
  <1>3. c \in LocalCtx /\ c.file = Top.file /\ c.todo = Top.todo
    BY TopType, ReimportedType
  <1> HIDE DEF c
  <1>4. Goes(c) \in LocalCtx /\ Goes(c).file = Top.file
    BY <1>2, <1>3, GoesType
  <1> QED
    BY <1>1, <1>4, QuietStep DEF c

\* v_export_import of a known file
LEMMA ExportImportKnownStep ==
    ASSUME TypeOK, ExportImportKnown PROVE TypeOK' /\ Goes_On
  <1>1. PICK f \in Files :
            /\ Importing("v_export_import", f)
            /\ stack' = Append(Below, Goes(MarkExported(Reimported(Top, f), f)))
            /\ data' = ReExported(Top, f)
            /\ UNCHANGED tree
    BY DEF ExportImportKnown
  <1>2. Top.todo # <<>>
    BY <1>1, CallingType DEF Importing
  <1> DEFINE c == MarkExported(Reimported(Top, f), f)
             d == Pass(data[Top.file], data[f])
  <1>3. c \in LocalCtx /\ c.file = Top.file /\ c.todo = Top.todo
    BY TopType, ReimportedType, MarkType, ZenonT(40)
  <1>4. Exports(Top) => d \in ExportData /\ d.known = data[Top.file].known
    BY PassType DEF Exports, TypeOK
  <1> HIDE DEF c
  <1>5. Goes(c) \in LocalCtx /\ Goes(c).file = Top.file
    BY <1>2, <1>3, GoesType
  <1>6. stack' = Append(Below, Goes(c))
    BY <1>1 DEF c
  <1>7. CASE Exports(Top) /\ f \notin Top.exported
    <2>1. data' = [data EXCEPT ![Top.file] = d]
      BY <1>1, <1>7 DEF ReExported
    <2> HIDE DEF d
    <2> QED
      BY <1>1, <1>4, <1>5, <1>6, <1>7, <2>1, ExportStep
  <1>8. CASE ~(Exports(Top) /\ f \notin Top.exported)
    <2>1. data' = data
      BY <1>1, <1>8 DEF ReExported
    <2> QED
      BY <1>1, <1>5, <1>6, <2>1, QuietStep
  <1> QED
    BY <1>7, <1>8

\* An import that runs the file
LEMMA ImportFirstStep == ASSUME TypeOK, ImportFirst PROVE TypeOK' /\ Starts
  <1>1. PICK f \in Files, op \in {"v_import", "v_export_import"} :
            /\ Importing(op, f) /\ ~data[f].known
            /\ data' = [data EXCEPT ![f].known = TRUE]
            /\ stack' = Append(stack, NewCtx(f, op))
            /\ UNCHANGED tree
    BY DEF ImportFirst
  <1>2. /\ stack \in Seq(LocalCtx) /\ Len(stack) \in Nat \ {0}
        /\ stack[1].file = Main
    BY TopType DEF TypeOK
  <1> DEFINE c == NewCtx(f, op)
  <1>3. c \in LocalCtx /\ c.file = f
    <2>1. tree[f] \in Seq(Call)
      BY TreesAssumption DEF TypeOK, Contexts
    <2>2. NoDecls \in Declarations
      BY DEF NoDecls, Declarations
    <2>3. <<>> \in Seq(Efforts)
      BY EmptySeq
    <2> QED
      BY <2>1, <2>2, <2>3 DEF NewCtx, LocalCtx, Contexts
  <1> HIDE DEF c
  <1>4. stack' = Append(stack, c)
    BY <1>1 DEF c
  <1>5. /\ stack' \in Seq(LocalCtx) /\ stack' # <<>>
        /\ Len(stack') = Len(stack) + 1
        /\ stack'[Len(stack) + 1] = c
        /\ \A i \in 1..Len(stack) : stack'[i] = stack[i]
    BY <1>2, <1>3, <1>4, AppendProperties
  <1>6. DOMAIN stack' = 1..(Len(stack) + 1)
    BY <1>5, LenProperties
  <1>7. stack'[1].file = Main
    BY <1>2, <1>5
  <1>8. data' \in [Files -> ExportData]
    BY <1>1 DEF TypeOK, ExportData
  <1>9. data'[f].known /\ \A g \in Files \ {f} : data'[g] = data[g]
    BY <1>1 DEF TypeOK, ExportData
  <1>10. TypeOK'
    BY <1>1, <1>5, <1>7, <1>8 DEF TypeOK
  <1> QED
    BY <1>1, <1>3, <1>5, <1>6, <1>9, <1>10 DEF Starts, Importing, Calling

\* The end of an import.  The importer is making the call of the import, and
\* what ends is a file, not the program.
LEMMA ImportEndStep ==
    ASSUME TypeOK, CallPending, FilesAbove, ImportEnd
    PROVE  TypeOK' /\ Ends
  <1> DEFINE f == Top.file
             p == stack[Len(stack) - 1]
             r == Receive(p, data[f])
             c1 == [r EXCEPT !.imported = @ \cup {f}]
             exports == Top.op = "v_export_import" /\ Exports(p)
             c == IF exports THEN MarkExported(c1, f) ELSE c1
             d == Pass(data[p.file], data[f])
  <1>1. /\ Len(stack) \in Nat \ {0} /\ Len(stack) > 1
        /\ stack \in Seq(LocalCtx)
    BY TopType DEF TypeOK, ImportEnd
  <1>2. Len(stack) - 1 \in 1..Len(stack) /\ Len(stack) - 1 \in 1..(Len(stack) - 1)
        /\ Len(stack) \in 2..Len(stack)
    BY <1>1
  <1>3. p \in LocalCtx /\ p.todo # <<>>
    BY <1>1, <1>2, ElementOfSeq DEF CallPending
  <1>4. f \in Files /\ data[f] \in ExportData
    BY <1>2, TopType DEF TypeOK, FilesAbove
  <1>5. stack' = Append(SubSeq(stack, 1, Len(stack) - 2), Goes(c)) /\ UNCHANGED tree
    BY DEF ImportEnd
  <1>6. data' = IF exports THEN [data EXCEPT ![p.file] = d] ELSE data
    BY DEF ImportEnd
  <1>7. exports => p.file \in Files /\ d \in ExportData /\ d.known = data[p.file].known
    BY <1>4, PassType DEF Exports, TypeOK
  <1>8. data' \in [Files -> ExportData] /\ DataOf(p.file)
    <2> HIDE DEF d, p
    <2>1. CASE exports
      BY <1>6, <1>7, <2>1, DataLemma
    <2>2. CASE ~exports
      <3>1. data' = data
        BY <1>6, <2>2
      <3> QED
        BY <3>1 DEF TypeOK, DataOf
    <2> QED
      BY <2>1, <2>2
  <1>9. r \in LocalCtx /\ r.file = p.file /\ r.todo = p.todo
    BY <1>3, <1>4, ReceiveType
  <1>10. c1 \in LocalCtx /\ c1.file = p.file /\ c1.todo = p.todo
    <2> HIDE DEF r
    <2> QED
      BY <1>4, <1>9, MarkType
  <1>11. c \in LocalCtx /\ c.file = p.file /\ c.todo = p.todo
    <2> HIDE DEF c1
    <2> QED
      BY <1>4, <1>10, MarkType
  <1> HIDE DEF c, c1, r
  <1>12. Goes(c) \in LocalCtx /\ Goes(c).file = p.file
    BY <1>3, <1>11, GoesType
  <1>13. PICK k \in 0..Len(stack) :
             k = Len(stack) - 2 /\ k + 1 = Len(stack) - 1 /\ k + 2 = Len(stack)
    <2>1. Len(stack) - 2 \in 0..Len(stack) /\ Len(stack) - 2 + 1 = Len(stack) - 1
          /\ Len(stack) - 2 + 2 = Len(stack)
      BY <1>1
    <2> QED
      BY <2>1
  <1>14. stack' = Cut(stack, k, Goes(c))
    BY <1>5, <1>13 DEF Cut
  <1> DEFINE g == Goes(c)
  <1> HIDE DEF g
  <1>15. stack \in Seq(LocalCtx) /\ k \in 0..Len(stack) /\ g \in LocalCtx
    BY <1>1, <1>12, <1>13 DEF g
  <1>16. Cut(stack, k, g) \in Seq(LocalCtx)
    BY <1>15, CutLemma
  <1>17. Cut(stack, k, g) # <<>>
    BY <1>15, CutLemma
  <1>18. DOMAIN Cut(stack, k, g) = 1..(k + 1)
    BY <1>15, CutLemma
  <1>19. Cut(stack, k, g)[k + 1] = g
    BY <1>15, CutLemma
  <1>20. \A i \in 1..k : Cut(stack, k, g)[i] = stack[i]
    BY <1>15, CutLemma
  <1>21. stack' = Cut(stack, k, g) /\ g.file = p.file
    BY <1>12, <1>14 DEF g
  <1>22. DOMAIN stack' = 1..(Len(stack) - 1)
    BY <1>13, <1>18, <1>21
  <1>23. ASSUME NEW i \in 1..(Len(stack) - 1) PROVE stack'[i].file = stack[i].file
    <2>1. i \in 1..k \/ i = k + 1
      BY <1>13
    <2>2. CASE i \in 1..k
      BY <1>20, <1>21, <2>2
    <2>3. CASE i = k + 1
      BY <1>13, <1>19, <1>21, <2>3
    <2> QED
      BY <2>1, <2>2, <2>3
  <1>24. \A i \in 1..(Len(stack) - 2) : stack'[i] = stack[i]
    BY <1>13, <1>20, <1>21
  <1>25. stack'[1].file = Main
    BY <1>1, <1>23 DEF TypeOK
  <1>26. TypeOK'
    BY <1>5, <1>8, <1>16, <1>17, <1>21, <1>25 DEF TypeOK
  <1> QED
    BY <1>1, <1>8, <1>22, <1>23, <1>26, <1>24 DEF Ends

(***************************************************************************)
(* The theorems.                                                            *)
(***************************************************************************)

\* Every step goes on in the innermost context, starts a file or ends one.
LEMMA StepKinds ==
    ASSUME TypeOK, CallPending, FilesAbove, Next
    PROVE  TypeOK' /\ (Goes_On \/ Starts \/ Ends)
  BY AddStep, ExportCallStep, AddEffortStep, ExportEffortStep, ImportKnownStep,
     ExportImportKnownStep, ImportFirstStep, ImportEndStep DEF Next

\* The program starts alone on the stack.
LEMMA InitInv == ASSUME Init PROVE Inv
  <1> DEFINE c == [file |-> Main, todo |-> tree[Main], op |-> "v_import",
                   decls |-> NoDecls, ran |-> <<>>, imported |-> {}, exported |-> {}]
  <1>1. tree[Main] \in Seq(Call)
    BY TreesAssumption DEF Init, Contexts
  <1>2. NoDecls \in Declarations /\ <<>> \in Seq(Efforts)
    BY EmptySeq DEF NoDecls, Declarations
  <1>3. c \in LocalCtx /\ c.file = Main
    BY <1>1, <1>2 DEF LocalCtx, Contexts
  <1>4. stack = <<c>>
    BY DEF Init
  <1> HIDE DEF c
  <1>5. stack \in Seq(LocalCtx) /\ Len(stack) = 1 /\ stack[1] = c /\ stack # <<>>
    BY <1>3, <1>4
  <1>6. DOMAIN stack = {1}
    BY <1>5, LenProperties
  <1>7. data \in [Files -> ExportData]
    BY <1>2 DEF Init, NoData, ExportData
  <1>8. TypeOK
    BY <1>3, <1>5, <1>7 DEF Init, TypeOK
  <1>9. OneActivation
    BY <1>6 DEF OneActivation
  <1>10. RunningKnown
    BY <1>3, <1>5, <1>6, MainAssumption DEF RunningKnown
  <1>11. CallPending /\ FilesAbove
    BY <1>5 DEF CallPending, FilesAbove
  <1> QED
    BY <1>8, <1>9, <1>10, <1>11 DEF Inv

\* The invariant is preserved while the innermost context goes on ...
LEMMA GoesOnInv == ASSUME Inv, TypeOK', Goes_On PROVE Inv'
  <1>1. /\ DOMAIN stack' = DOMAIN stack /\ DataOf(Top.file)
        /\ \A i \in DOMAIN stack : stack'[i].file = stack[i].file
        /\ \A i \in 1..(Len(stack) - 1) : stack'[i] = stack[i]
    BY DEF Goes_On
  <1>2. Len(stack') = Len(stack) /\ DOMAIN stack = 1..Len(stack)
        /\ Len(stack) \in Nat \ {0}
    BY <1>1, TopType, LenProperties DEF Inv, TypeOK
  <1>3. OneActivation' /\ RunningKnown'
    BY <1>1 DEF Inv, OneActivation, RunningKnown, DataOf
  <1>4. CallPending'
    BY <1>1, <1>2 DEF Inv, CallPending
  <1>5. FilesAbove'
    <2>1. ASSUME NEW i \in 2..Len(stack) PROVE stack'[i].file \in Files
      <3>1. i \in DOMAIN stack
        BY <1>2
      <3> QED
        BY <1>1, <3>1 DEF Inv, FilesAbove
    <2> QED
      BY <1>2, <2>1 DEF FilesAbove
  <1> QED
    BY <1>3, <1>4, <1>5 DEF Inv

\* ... when a file starts: it was not known, so it is nowhere on the stack ...
LEMMA StartsInv == ASSUME Inv, TypeOK', Starts PROVE Inv'
  <1>1. PICK f \in Files :
            /\ ~data[f].known /\ Top.todo # <<>>
            /\ DOMAIN stack' = 1..(Len(stack) + 1)
            /\ stack'[Len(stack) + 1].file = f
            /\ \A i \in 1..Len(stack) : stack'[i] = stack[i]
            /\ data'[f].known
            /\ \A g \in Files \ {f} : data'[g] = data[g]
    BY DEF Starts
  <1>2. Len(stack) \in Nat \ {0} /\ DOMAIN stack = 1..Len(stack)
        /\ stack[Len(stack)] = Top
    BY TopType DEF Inv
  <1>3. Len(stack') = Len(stack) + 1
    <2>1. stack' \in Seq(LocalCtx)
      BY DEF TypeOK
    <2>2. Len(stack') \in Nat /\ DOMAIN stack' = 1..Len(stack')
      BY <2>1, LenProperties
    <2> QED
      BY <1>1, <1>2, <2>2
  <1>4. \A i \in DOMAIN stack : stack[i].file # f
    BY <1>1 DEF Inv, RunningKnown
  <1>5. \A i \in DOMAIN stack' : i \in DOMAIN stack \/ i = Len(stack) + 1
    BY <1>1, <1>2
  <1>6. \A i \in DOMAIN stack : stack'[i].file = stack[i].file
    BY <1>1, <1>2
  <1>7. OneActivation'
    BY <1>1, <1>4, <1>5, <1>6 DEF Inv, OneActivation
  <1>8. RunningKnown'
    BY <1>1, <1>4, <1>5, <1>6 DEF Inv, RunningKnown
  <1>9. CallPending'
    <2>1. ASSUME NEW i \in 1..Len(stack) PROVE stack'[i].todo # <<>>
      <3>1. i \in 1..(Len(stack) - 1) \/ i = Len(stack)
        <4>1. Len(stack) \in Nat
          BY <1>2, SMTT(30)
        <4> QED
          BY <4>1
      <3>2. stack[i].todo # <<>>
        BY <1>1, <1>2, <3>1 DEF Inv, CallPending
      <3> QED
        BY <1>1, <3>2
    <2>2. Len(stack') - 1 = Len(stack)
      BY <1>2, <1>3
    <2> QED
      BY <2>1, <2>2 DEF CallPending
  <1>10. FilesAbove'
    <2>1. ASSUME NEW i \in 2..(Len(stack) + 1) PROVE stack'[i].file \in Files
      <3>1. (i \in 2..Len(stack) /\ i \in DOMAIN stack) \/ i = Len(stack) + 1
        BY <1>2
      <3> QED
        BY <1>1, <1>6, <3>1 DEF Inv, FilesAbove
    <2> QED
      BY <1>3, <2>1 DEF FilesAbove
  <1> QED
    BY <1>7, <1>8, <1>9, <1>10 DEF Inv

\* ... and when one ends.
LEMMA EndsInv == ASSUME Inv, TypeOK', Ends PROVE Inv'
  <1>1. /\ Len(stack) > 1
        /\ DOMAIN stack' = 1..(Len(stack) - 1)
        /\ \A i \in 1..(Len(stack) - 1) : stack'[i].file = stack[i].file
        /\ \A i \in 1..(Len(stack) - 2) : stack'[i] = stack[i]
        /\ DataOf(stack[Len(stack) - 1].file)
    BY DEF Ends
  <1>2. Len(stack) \in Nat \ {0} /\ DOMAIN stack = 1..Len(stack)
    BY TopType DEF Inv
  <1>3. Len(stack') = Len(stack) - 1
    <2>1. stack' \in Seq(LocalCtx)
      BY DEF TypeOK
    <2>2. Len(stack') \in Nat /\ DOMAIN stack' = 1..Len(stack')
      BY <2>1, LenProperties
    <2>3. 1..Len(stack') = 1..(Len(stack) - 1)
      BY <1>1, <2>2
    <2>4. \A m, n \in Nat : 1..m = 1..n => m = n
      OBVIOUS
    <2>5. Len(stack) - 1 \in Nat
      BY <1>2
    <2> QED
      BY <2>2, <2>3, <2>4, <2>5
  <1>4. \A i \in DOMAIN stack' : i \in DOMAIN stack
    BY <1>1, <1>2
  <1>5. OneActivation' /\ RunningKnown'
    BY <1>1, <1>4, SMTT(30) DEF Inv, OneActivation, RunningKnown, DataOf
  <1>6. CallPending'
    <2>1. Len(stack') - 1 = Len(stack) - 2
      BY <1>2, <1>3
    <2>2. \A i \in 1..(Len(stack) - 2) : i \in 1..(Len(stack) - 1)
      BY <1>2
    <2> QED
      BY <1>1, <2>1, <2>2 DEF Inv, CallPending
  <1>7. FilesAbove'
    <2>1. \A i \in 2..(Len(stack) - 1) : i \in 2..Len(stack) /\ i \in 1..(Len(stack) - 1)
      BY <1>2
    <2> QED
      BY <1>1, <1>3, <2>1 DEF Inv, FilesAbove
  <1> QED
    BY <1>5, <1>6, <1>7 DEF Inv

\* A step that changes nothing preserves the invariant.
LEMMA StutterInv == ASSUME Inv, UNCHANGED vars PROVE Inv'
  BY DEF Inv, TypeOK, OneActivation, RunningKnown, CallPending, FilesAbove, vars

\* The invariant is inductive.
LEMMA NextInv == ASSUME Inv, [Next]_vars PROVE Inv'
  <1>1. CASE Next
    BY <1>1, StepKinds, GoesOnInv, StartsInv, EndsInv DEF Inv
  <1>2. CASE UNCHANGED vars
    BY <1>2, StutterInv
  <1> QED
    BY <1>1, <1>2

\* The invariant holds in every state.
LEMMA Invariant == Spec => []Inv
  <1>1. Init => Inv
    BY InitInv
  <1>2. Inv /\ [Next]_vars => Inv'
    BY NextInv
  <1> QED
    BY <1>1, <1>2, PTL DEF Spec

\* Contexts, declarations, efforts and export data keep their types.
THEOREM TypeCorrect == Spec => []TypeOK
  <1>1. Inv => TypeOK
    BY DEF Inv
  <1> QED
    BY <1>1, Invariant, PTL

\* Whatever circles the imports make, v_import_helper never runs a file while
\* it is running: the nesting of imports is at most the number of files.
THEOREM NoFileTwice == Spec => []OneActivation
  <1>1. Inv => OneActivation
    BY DEF Inv
  <1> QED
    BY <1>1, Invariant, PTL

\* The step behind FinishedFrozen.
LEMMA FrozenStep ==
    ASSUME Inv, [Next]_vars, NEW f \in Files, Finished(f)
    PROVE  Finished(f)' /\ data'[f] = data[f]
  <1>1. data[f].known /\ \A i \in DOMAIN stack : stack[i].file # f
    BY DEF Finished, OnStack
  <1>2. Len(stack) \in Nat \ {0} /\ DOMAIN stack = 1..Len(stack)
        /\ stack[Len(stack)] = Top /\ Len(stack) \in DOMAIN stack
    BY TopType DEF Inv
  <1>3. CASE UNCHANGED vars
    BY <1>1, <1>3 DEF Finished, OnStack, vars
  <1>4. CASE Goes_On
    <2>1. f # Top.file
      BY <1>1, <1>2
    <2> QED
      BY <1>1, <1>4, <2>1 DEF Goes_On, DataOf, Finished, OnStack
  <1>5. CASE Starts
    <2>1. PICK g \in Files :
              /\ ~data[g].known
              /\ DOMAIN stack' = 1..(Len(stack) + 1)
              /\ stack'[Len(stack) + 1].file = g
              /\ \A i \in 1..Len(stack) : stack'[i] = stack[i]
              /\ \A h \in Files \ {g} : data'[h] = data[h]
      BY <1>5 DEF Starts
    <2>2. f # g
      BY <1>1, <2>1
    <2>3. \A i \in DOMAIN stack' : i \in DOMAIN stack \/ i = Len(stack) + 1
      BY <1>2, <2>1
    <2>4. \A i \in DOMAIN stack : stack'[i].file = stack[i].file
      BY <1>2, <2>1
    <2> QED
      BY <1>1, <2>1, <2>2, <2>3, <2>4 DEF Finished, OnStack
  <1>6. CASE Ends
    <2>1. /\ DOMAIN stack' = 1..(Len(stack) - 1) /\ Len(stack) > 1
          /\ \A i \in 1..(Len(stack) - 1) : stack'[i].file = stack[i].file
          /\ DataOf(stack[Len(stack) - 1].file)
      BY <1>6 DEF Ends
    <2>2. \A i \in DOMAIN stack' : i \in DOMAIN stack
      BY <1>2, <2>1
    <2>3. Len(stack) - 1 \in DOMAIN stack
      BY <1>2, <2>1
    <2>4. f # stack[Len(stack) - 1].file
      BY <1>1, <2>3
    <2>5. data'[f] = data[f]
      BY <2>1, <2>4 DEF DataOf
    <2> QED
      BY <1>1, <2>1, <2>2, <2>5 DEF Finished, OnStack
  <1> QED
    BY <1>3, <1>4, <1>5, <1>6, StepKinds DEF Inv

\* What a file has left to its importers when it has run is what every later
\* importer gets, in trees with circles as well.
THEOREM ExportsFrozen == Spec => FinishedFrozen
  <1>1. Inv /\ [Next]_vars
        => [KeepsFinished]_vars
    BY FrozenStep DEF KeepsFinished
  <1> QED
    BY <1>1, Invariant, PTL DEF Spec, FinishedFrozen

(***************************************************************************)
(* Induction, and sequences that are joined.                                *)
(***************************************************************************)

\* A set of numbers has a least one.
LEMMA LeastOne ==
    ASSUME NEW X \in SUBSET Nat, X # {}
    PROVE  \E i \in X : \A j \in X : i <= j
  <1> DEFINE R == {ss \in Nat \X Nat : ss[1] < ss[2]}
  <1>1. \A i, j \in Nat : <<i, j>> \in R <=> i < j
    OBVIOUS
  <1>2. IsWellFoundedOn(R, Nat)
    BY NatLessThanWellFounded DEF OpToRel, IsWellFoundedOn
  <1> HIDE DEF R
  <1>3. PICK i \in X : \A j \in X : ~(<<j, i>> \in R)
    BY <1>2, WFMin
  <1>4. \A j \in X : ~(j < i)
    BY <1>1, <1>3
  <1> QED
    BY <1>3, <1>4

\* A set with 0, and with each number the next, has all numbers.
LEMMA Induction ==
    ASSUME NEW X \in SUBSET Nat, 0 \in X, \A n \in X : n + 1 \in X
    PROVE  X = Nat
  <1>1. SUFFICES ASSUME Nat \ X # {} PROVE FALSE
    OBVIOUS
  <1>2. PICK i \in Nat \ X : \A j \in Nat \ X : i <= j
    BY <1>1, LeastOne
  <1>3. i - 1 \in Nat /\ i - 1 \notin Nat \ X
    BY <1>2
  <1>4. i - 1 + 1 = i
    BY <1>2
  <1> QED
    BY <1>2, <1>3, <1>4

\* f holds what the first sequences of s are joined to.
Flat(f, s, n) ==
    /\ f = [i \in 1..n |-> f[i]]
    /\ \A i \in 1..n : f[i] = IF i = 1 THEN s[1] ELSE f[i - 1] \o s[i]

\* There is a function that flattens the sequences up to a length.
LEMMA FlatExists ==
    ASSUME NEW S, NEW s, NEW n \in Nat, \A i \in 1..n : s[i] \in Seq(S)
    PROVE  \E f : Flat(f, s, n) /\ \A i \in 1..n : f[i] \in Seq(S)
  <1> DEFINE Good(f, m) == Flat(f, s, m) /\ \A i \in 1..m : f[i] \in Seq(S)
             X == {m \in Nat : m <= n => \E f : Good(f, m)}
  <1>1. 0 \in X
    <2> DEFINE f == [i \in 1..0 |-> <<>>]
    <2>1. f = [i \in 1..0 |-> f[i]] /\ \A i \in 1..0 : FALSE
      OBVIOUS
    <2>2. Good(f, 0)
      BY <2>1 DEF Flat
    <2> QED
      BY <2>2
  <1>2. ASSUME NEW m \in X PROVE m + 1 \in X
    <2>1. CASE m + 1 <= n
      <3>1. m \in Nat /\ m <= n /\ m + 1 \in 1..n
        BY <2>1
      <3>2. PICK f : Good(f, m)
        BY <3>1
      <3> DEFINE e == IF m = 0 THEN s[1] ELSE f[m] \o s[m + 1]
                 g == [i \in 1..(m + 1) |-> IF i = m + 1 THEN e ELSE f[i]]
      <3>3. e \in Seq(S)
        <4>1. CASE m = 0
          BY <3>1, <4>1
        <4>2. CASE m # 0
          <5>1. m \in 1..m /\ s[m + 1] \in Seq(S)
            BY <3>1, <4>2
          <5>2. f[m] \in Seq(S)
            BY <3>2, <5>1
          <5> QED
            BY <4>2, <5>1, <5>2, ConcatProperties
        <4> QED
          BY <4>1, <4>2
      <3>4. m + 1 = 1 <=> m = 0
        BY <3>1
      <3>5. \A i \in 1..(m + 1) : i = m + 1 \/ (i \in 1..m /\ i # m + 1 /\ (i # 1 => i - 1 \in 1..m /\ i - 1 # m + 1 /\ i - 1 \in 1..(m + 1)))
        BY <3>1
      <3>6. m # 0 => m \in 1..(m + 1) /\ m # m + 1
        BY <3>1
      <3>7. m + 1 - 1 = m /\ m + 1 \in 1..(m + 1)
        BY <3>1
      <3> HIDE DEF e
      <3>8. g[m + 1] = e /\ \A i \in 1..m : g[i] = f[i]
        BY <3>1, <3>5, <3>7
      <3>9. g = [i \in 1..(m + 1) |-> g[i]]
        OBVIOUS
      <3> HIDE DEF g
      <3>10. ASSUME NEW i \in 1..(m + 1)
             PROVE  g[i] \in Seq(S) /\ g[i] = IF i = 1 THEN s[1] ELSE g[i - 1] \o s[i]
        <4>1. CASE i = m + 1
          <5>1. g[i] = e
            BY <3>8, <4>1
          <5>2. CASE m = 0
            <6>1. e = s[1] /\ i = 1
              BY <4>1, <5>2 DEF e
            <6> QED
              BY <3>3, <5>1, <6>1
          <5>3. CASE m # 0
            <6>1. e = f[m] \o s[m + 1]
              BY <5>3, Zenon DEF e
            <6>2. i # 1 /\ i - 1 = m /\ m \in 1..m
              BY <3>1, <3>4, <3>7, <4>1, <5>3
            <6>3. g[m] = f[m]
              BY <3>8, <6>2
            <6> QED
              BY <3>3, <4>1, <5>1, <6>1, <6>2, <6>3
          <5> QED
            BY <5>2, <5>3
        <4>2. CASE i # m + 1
          <5>1. i \in 1..m /\ (i # 1 => i - 1 \in 1..m)
            BY <3>5, <4>2
          <5>2. f[i] \in Seq(S) /\ f[i] = IF i = 1 THEN s[1] ELSE f[i - 1] \o s[i]
            BY <3>2, <5>1 DEF Flat
          <5> QED
            BY <3>8, <5>1, <5>2
        <4> QED
          BY <4>1, <4>2
      <3>11. Good(g, m + 1)
        BY <3>9, <3>10 DEF Flat
      <3> QED
        BY <3>11
    <2>2. CASE ~(m + 1 <= n)
      BY <2>2
    <2> QED
      BY <2>1, <2>2
  <1>3. X = Nat
    <2> HIDE DEF X
    <2>1. X \in SUBSET Nat
      BY DEF X
    <2> QED
      BY <1>1, <1>2, <2>1, Induction
  <1>4. n \in X /\ n <= n
    <2> HIDE DEF X
    <2> QED
      BY <1>3
  <1> QED
    BY <1>4

\* And only one, as far as it goes.
LEMMA FlatSame ==
    ASSUME NEW s, NEW n \in Nat, NEW m \in 0..n, NEW f, NEW g, Flat(f, s, n), Flat(g, s, m)
    PROVE  \A i \in 1..m : f[i] = g[i]
  <1> DEFINE X == {k \in Nat : k \in 1..m => f[k] = g[k]}
  <1>1. 0 \in X
    OBVIOUS
  <1>2. ASSUME NEW k \in X PROVE k + 1 \in X
    <2>1. CASE k + 1 \in 1..m
      <3>1. PICK l \in 1..m : l = k + 1 /\ l - 1 = k /\ l \in 1..n
        BY <2>1
      <3>2. l # 1 => f[l - 1] = g[l - 1]
        BY <2>1, <3>1
      <3>3. (l = 1 => f[l] = s[1]) /\ (l # 1 => f[l] = f[l - 1] \o s[l])
        BY <3>1, Zenon DEF Flat
      <3>4. (l = 1 => g[l] = s[1]) /\ (l # 1 => g[l] = g[l - 1] \o s[l])
        BY <3>1, Zenon DEF Flat
      <3>5. f[l] = g[l]
        BY <3>2, <3>3, <3>4, Zenon
      <3> QED
        BY <3>1, <3>5
    <2>2. CASE k + 1 \notin 1..m
      BY <2>2
    <2> QED
      BY <2>1, <2>2
  <1>3. X = Nat
    <2> HIDE DEF X
    <2>1. X \in SUBSET Nat
      BY DEF X
    <2> QED
      BY <1>1, <1>2, <2>1, Induction
  <1> QED
    BY <1>3

\* The first k of the sequences P[1], P[2], ..., joined.
Joined(P, k) == FlattenSeq([i \in 1..k |-> P[i]])

\* FlattenSeq is that function.
LEMMA JoinedIs ==
    ASSUME NEW P, NEW k \in Nat \ {0}, NEW f, Flat(f, P, k)
    PROVE  Joined(P, k) = f[k]
  <1>1. PICK s : s = [i \in 1..k |-> P[i]]
    OBVIOUS
  <1>2. Len(s) = k /\ DOMAIN s = 1..k /\ \A i \in 1..k : s[i] = P[i]
    BY <1>1
  <1>3. f = [i \in 1..k |-> IF i = 1 THEN s[i] ELSE f[i - 1] \o s[i]]
    <2>1. f = [i \in 1..k |-> f[i]]
      BY DEF Flat
    <2>2. \A i \in 1..k : f[i] = IF i = 1 THEN s[i] ELSE f[i - 1] \o s[i]
      BY <1>2 DEF Flat
    <2> QED
      BY <2>1, <2>2
  <1> DEFINE h == CHOOSE h : h = [i \in 1..k |-> IF i = 1 THEN s[i] ELSE h[i - 1] \o s[i]]
  <1>4. h = [i \in 1..k |-> IF i = 1 THEN s[i] ELSE h[i - 1] \o s[i]]
    BY <1>3
  <1>5. FlattenSeq(s) = h[k]
    BY <1>2 DEF FlattenSeq
  <1> HIDE DEF h
  <1>6. Flat(h, P, k)
    <2>1. DOMAIN h = 1..k /\ h = [i \in 1..k |-> h[i]]
      BY <1>4
    <2>2. \A i \in 1..k : h[i] = IF i = 1 THEN s[i] ELSE h[i - 1] \o s[i]
      BY <1>4
    <2>3. \A i \in 1..k : h[i] = IF i = 1 THEN P[1] ELSE h[i - 1] \o P[i]
      BY <1>2, <2>2, Zenon
    <2> QED
      BY <2>1, <2>3 DEF Flat
  <1>7. k \in 0..k /\ k \in 1..k
    OBVIOUS
  <1>8. h[k] = f[k]
    BY <1>6, <1>7, FlatSame
  <1> QED
    BY <1>1, <1>5, <1>8 DEF Joined

\* Joining one after the other.
LEMMA JoinedLemma ==
    ASSUME NEW S, NEW P, NEW n \in Nat, \A i \in 1..n : P[i] \in Seq(S)
    PROVE  /\ Joined(P, 0) = <<>>
           /\ \A k \in 0..n : Joined(P, k) \in Seq(S)
           /\ \A k \in 0..n : k + 1 <= n => Joined(P, k + 1) = Joined(P, k) \o P[k + 1]
  <1>1. Joined(P, 0) = <<>>
    <2>1. [i \in 1..0 |-> P[i]] = <<>>
      OBVIOUS
    <2>2. FlattenSeq(<<>>) = <<>>
      BY DEF FlattenSeq
    <2> QED
      BY <2>1, <2>2 DEF Joined
  <1>2. ASSUME NEW k \in 0..n PROVE Joined(P, k) \in Seq(S)
    <2>1. CASE k = 0
      <3>1. <<>> \in Seq(S)
        BY EmptySeq
      <3> QED
        BY <1>1, <2>1, <3>1
    <2>2. CASE k # 0
      <3>1. k \in Nat \ {0} /\ k \in 1..k /\ \A i \in 1..k : i \in 1..n
        BY <2>2
      <3>2. PICK f : Flat(f, P, k) /\ \A i \in 1..k : f[i] \in Seq(S)
        BY <3>1, FlatExists
      <3> QED
        BY <3>1, <3>2, JoinedIs
    <2> QED
      BY <2>1, <2>2
  <1>3. ASSUME NEW k \in 0..n, k + 1 <= n PROVE Joined(P, k + 1) = Joined(P, k) \o P[k + 1]
    <2>1. k + 1 \in Nat \ {0} /\ k + 1 \in 1..n /\ \A i \in 1..(k + 1) : i \in 1..n
      BY <1>3
    <2>2. PICK f : Flat(f, P, k + 1) /\ \A i \in 1..(k + 1) : f[i] \in Seq(S)
      BY <2>1, FlatExists
    <2>3. Joined(P, k + 1) = f[k + 1]
      BY <2>1, <2>2, JoinedIs
    <2>4. CASE k = 0
      <3>1. f[k + 1] = P[k + 1]
        BY <2>2, <2>4 DEF Flat
      <3>2. <<>> \o P[k + 1] = P[k + 1]
        BY <2>1, ConcatEmptySeq
      <3> QED
        BY <1>1, <2>3, <2>4, <3>1, <3>2
    <2>5. CASE k # 0
      <3>1. k \in Nat \ {0} /\ k \in 1..k /\ \A i \in 1..k : i \in 1..n
        BY <1>3, <2>5
      <3>2. PICK l \in Nat : l = k + 1 /\ l - 1 = k /\ l # 1 /\ l \in 1..l /\ k \in 0..l
        BY <3>1
      <3>3. PICK g : Flat(g, P, k)
        BY <3>1, FlatExists
      <3>4. Joined(P, k) = g[k]
        BY <3>1, <3>3, JoinedIs
      <3>5. Flat(f, P, l)
        BY <2>2, <3>2
      <3>6. \A i \in 1..k : f[i] = g[i]
        BY <3>2, <3>3, <3>5, FlatSame
      <3>7. f[l] = f[l - 1] \o P[l]
        BY <3>2, <3>5, Zenon DEF Flat
      <3> QED
        BY <2>3, <3>1, <3>2, <3>4, <3>6, <3>7
    <2> QED
      BY <2>4, <2>5
  <1> QED
    BY <1>1, <1>2, <1>3

(***************************************************************************)
(* What a sequence of calls means.                                          *)
(***************************************************************************)

\* A set of indexes has a greatest one.
LEMMA GreatestOne ==
    ASSUME NEW n \in Nat, NEW X \in SUBSET (1..n), X # {}
    PROVE  Max(X) \in X /\ \A j \in X : j <= Max(X)
  <1> DEFINE Y == {n - i : i \in X}
  <1>1. Y \in SUBSET Nat /\ Y # {}
    <2>1. ASSUME NEW i \in X PROVE n - i \in Nat
      <3>1. i \in 1..n
        OBVIOUS
      <3> QED
        BY <3>1
    <2>2. Y \subseteq Nat
      BY <2>1
    <2>3. PICK i : i \in X
      OBVIOUS
    <2>4. n - i \in Y
      BY <2>3
    <2> QED
      BY <2>2, <2>4
  <1>2. PICK m \in Y : \A j \in Y : m <= j
    <2> HIDE DEF Y
    <2> QED
      BY <1>1, LeastOne
  <1>3. PICK k \in X : m = n - k
    BY <1>2
  <1>4. ASSUME NEW j \in X PROVE k >= j
    <2>1. n - k <= n - j
      BY <1>2, <1>3
    <2> QED
      BY <2>1
  <1>5. \E x \in X : \A y \in X : x >= y
    BY <1>4
  <1>6. Max(X) \in X /\ \A y \in X : Max(X) >= y
    BY <1>5 DEF Max
  <1>7. X \subseteq Int
    OBVIOUS
  <1> HIDE DEF Y
  <1> QED
    BY <1>6, <1>7

\* What one call declares.
Declared(e) == IF e.op \in {"add", "export"} THEN One(e.name, e.thing) ELSE NoDecls

\* What a call declares is declarations,
LEMMA DeclaredType == \A e \in Call : Declared(e) \in Declarations
  BY CallTypes, OneType DEF Declared, NoDecls, Declarations

\* No calls declare nothing, and a call more inserts what it declares.
LEMMA DeclaresAppend ==
    /\ Declares(<<>>) = NoDecls
    /\ \A s \in Seq(Call), e \in Call :
            Declares(Append(s, e)) = Insert(Declares(s), Declared(e))
  <1>1. Declares(<<>>) = NoDecls
    <2>1. ASSUME NEW n PROVE Declaring(<<>>, n) = {}
      BY DEF Declaring
    <2> QED
      BY <2>1 DEF Declares, NoDecls
  <1>2. ASSUME NEW s \in Seq(Call), NEW e \in Call
        PROVE  Declares(Append(s, e)) = Insert(Declares(s), Declared(e))
    <2>1. PICK k \in Nat : k = Len(s) /\ DOMAIN s = 1..k
      BY LenProperties
    <2>2. PICK a : a = Append(s, e)
      OBVIOUS
    <2>3. /\ DOMAIN a = 1..(k + 1) /\ a[k + 1] = e /\ \A i \in 1..k : a[i] = s[i]
      <3>1. a \in Seq(Call) /\ Len(a) = k + 1
        BY <2>1, <2>2, AppendProperties
      <3>2. DOMAIN a = 1..(k + 1)
        BY <3>1, LenProperties
      <3> QED
        BY <2>1, <2>2, <3>2, AppendProperties
    <2>4. ASSUME NEW n \in Names
          PROVE  Declares(a)[n] = Insert(Declares(s), Declared(e))[n]
      <3>1. PICK D : D = Declaring(s, n)
        OBVIOUS
      <3>2. D \in SUBSET (1..k) /\ k + 1 \notin D
        BY <2>1, <3>1 DEF Declaring
      <3>3. Declares(s)[n] = IF D = {} THEN NoThing ELSE s[Max(D)].thing
        BY <3>1, Zenon DEF Declares
      <3>4. PICK A : A = Declaring(a, n)
        OBVIOUS
      <3>5. Declares(a)[n] = IF A = {} THEN NoThing ELSE a[Max(A)].thing
        BY <3>4, Zenon DEF Declares
      <3>6. Insert(Declares(s), Declared(e))[n]
                = IF Declared(e)[n] = NoThing THEN Declares(s)[n] ELSE Declared(e)[n]
        BY Zenon DEF Insert
      <3>7. CASE e.op \in {"add", "export"} /\ e.name = n
        <4>1. A = D \cup {k + 1}
          BY <2>1, <2>3, <3>1, <3>4, <3>7 DEF Declaring
        <4>2. k + 1 \in Nat /\ A \in SUBSET (1..(k + 1)) /\ A # {} /\ k + 1 \in A
          BY <3>2, <4>1
        <4>3. Max(A) \in A /\ \A j \in A : j <= Max(A)
          BY <4>2, GreatestOne
        <4>4. Max(A) = k + 1
          <5>1. PICK x : x = Max(A)
            OBVIOUS
          <5>2. x \in 1..(k + 1) /\ k + 1 <= x
            BY <4>2, <4>3, <5>1
          <5>3. x = k + 1
            BY <5>2
          <5> QED
            BY <5>1, <5>3
        <4>5. Declares(a)[n] = e.thing
          BY <2>3, <3>5, <4>2, <4>4
        <4>6. e.thing \in Things /\ Declared(e) = One(e.name, e.thing)
          BY <3>7, CallTypes DEF Declared
        <4>7. One(e.name, e.thing)[n] = e.thing
          BY <3>7 DEF One, NoDecls
        <4> QED
          BY <3>6, <4>5, <4>6, <4>7, ThingsAssumption
      <3>8. CASE ~(e.op \in {"add", "export"} /\ e.name = n)
        <4>1. A = D
          <5>1. ASSUME NEW i \in 1..(k + 1) PROVE i \in A <=> i \in D
            <6>1. CASE i = k + 1
              BY <2>3, <3>2, <3>4, <3>8, <6>1 DEF Declaring
            <6>2. CASE i # k + 1
              <7>1. i \in 1..k
                BY <6>2
              <7> QED
                BY <2>1, <2>3, <3>1, <3>4, <7>1 DEF Declaring
            <6> QED
              BY <6>1, <6>2
          <5>2. \A i \in D : i \in 1..(k + 1)
            BY <3>2
          <5>3. A \subseteq 1..(k + 1)
            BY <2>3, <3>4 DEF Declaring
          <5> QED
            BY <5>1, <5>2, <5>3
        <4>2. D # {} => a[Max(D)] = s[Max(D)]
          BY <2>3, <3>2, GreatestOne
        <4>3. Declared(e)[n] = NoThing
          BY <3>8, CallTypes DEF Declared, One, NoDecls
        <4> QED
          BY <3>3, <3>5, <3>6, <4>1, <4>2, <4>3
      <3> QED
        BY <3>7, <3>8
    <2>5. /\ Declares(a) = [n \in Names |-> Declares(a)[n]]
          /\ Insert(Declares(s), Declared(e))
                = [n \in Names |-> Insert(Declares(s), Declared(e))[n]]
      BY DEF Declares, Insert
    <2> QED
      BY <2>2, <2>4, <2>5
  <1> QED
    BY <1>1, <1>2

\* and what it runs is efforts.
LEMMA RunByType == \A e \in Call : RunBy(e) \in Seq(Efforts)
  <1>1. ASSUME NEW e \in Call PROVE RunBy(e) \in Seq(Efforts)
    <2>1. CASE e.op \in {"add_effort", "export_effort"}
      <3>1. e.effort \in Efforts
        BY <2>1, CallTypes
      <3>2. <<e.effort>> \in Seq(Efforts)
        BY <3>1
      <3> QED
        BY <2>1, <3>2 DEF RunBy
    <2>2. CASE e.op \notin {"add_effort", "export_effort"}
      BY <2>2, EmptySeq DEF RunBy
    <2> QED
      BY <2>1, <2>2
  <1> QED
    BY <1>1

\* No calls run no effort, and a call more runs what it runs after the others.
LEMMA RunsAppend ==
    /\ Runs(<<>>) = <<>>
    /\ \A s \in Seq(Call) : Runs(s) \in Seq(Efforts)
    /\ \A s \in Seq(Call), e \in Call : Runs(Append(s, e)) = Runs(s) \o RunBy(e)
  <1>1. ASSUME NEW s \in Seq(Call), NEW P, P = [i \in DOMAIN s |-> RunBy(s[i])]
        PROVE  /\ Len(s) \in Nat /\ DOMAIN P = 1..Len(s)
               /\ \A i \in 1..Len(s) : P[i] = RunBy(s[i]) /\ P[i] \in Seq(Efforts)
               /\ Runs(s) = Joined(P, Len(s))
    <2>1. Len(s) \in Nat /\ DOMAIN s = 1..Len(s) /\ \A i \in 1..Len(s) : s[i] \in Call
      BY LenProperties, ElementOfSeq
    <2>2. DOMAIN P = 1..Len(s) /\ \A i \in 1..Len(s) : P[i] = RunBy(s[i])
      BY <1>1, <2>1
    <2>3. P = [i \in 1..Len(s) |-> P[i]]
      BY <1>1, <2>1
    <2>4. Runs(s) = Joined(P, Len(s))
      BY <1>1, <2>3, Zenon DEF Runs, Joined
    <2> QED
      BY <2>1, <2>2, <2>4, RunByType
  <1>2. ASSUME NEW s \in Seq(Call) PROVE Runs(s) \in Seq(Efforts)
    <2>1. PICK P : P = [i \in DOMAIN s |-> RunBy(s[i])]
      OBVIOUS
    <2>2. PICK n \in Nat : n = Len(s) /\ n \in 0..n
      BY LenProperties
    <2>3. (\A i \in 1..n : P[i] \in Seq(Efforts)) /\ Runs(s) = Joined(P, n)
      BY <1>1, <2>1, <2>2
    <2> QED
      BY <2>2, <2>3, JoinedLemma
  <1>3. Runs(<<>>) = <<>>
    <2>1. <<>> \in Seq(Call) /\ Len(<<>>) = 0
      BY EmptySeq
    <2>2. PICK P : P = [i \in DOMAIN <<>> |-> RunBy(<<>>[i])]
      OBVIOUS
    <2>3. Runs(<<>>) = Joined(P, 0)
      BY <1>1, <2>1, <2>2
    <2>4. \A i \in 1..0 : P[i] \in Seq(Efforts)
      OBVIOUS
    <2> QED
      BY <2>3, <2>4, JoinedLemma
  <1>4. ASSUME NEW s \in Seq(Call), NEW e \in Call
        PROVE  Runs(Append(s, e)) = Runs(s) \o RunBy(e)
    <2>1. PICK n \in Nat : n = Len(s)
      BY LenProperties
    <2>2. PICK a : a = Append(s, e)
      OBVIOUS
    <2>9. a \in Seq(Call) /\ Len(a) = n + 1 /\ a[n + 1] = e /\ \A i \in 1..n : a[i] = s[i]
      BY <2>1, <2>2, AppendProperties
    <2>3. PICK P : P = [i \in DOMAIN a |-> RunBy(a[i])]
      OBVIOUS
    <2>4. PICK m \in Nat : m = n + 1 /\ n \in 0..m /\ n + 1 <= m
      OBVIOUS
    <2>5. /\ \A i \in 1..m : P[i] = RunBy(a[i]) /\ P[i] \in Seq(Efforts)
          /\ Runs(a) = Joined(P, m)
      BY <1>1, <2>3, <2>4, <2>9
    <2>6. Joined(P, n + 1) = Joined(P, n) \o P[n + 1]
      BY <2>4, <2>5, JoinedLemma
    <2>7. P[n + 1] = RunBy(e)
      BY <2>4, <2>5, <2>9
    <2>8. Joined(P, n) = Runs(s)
      <3>1. PICK Q : Q = [i \in DOMAIN s |-> RunBy(s[i])]
        OBVIOUS
      <3>2. /\ \A i \in 1..n : Q[i] = RunBy(s[i])
            /\ Runs(s) = Joined(Q, n)
        BY <1>1, <2>1, <3>1
      <3>3. \A i \in 1..n : P[i] = Q[i]
        BY <2>4, <2>5, <2>9, <3>2
      <3>4. [i \in 1..n |-> P[i]] = [i \in 1..n |-> Q[i]]
        BY <3>3
      <3> QED
        BY <3>2, <3>4, Zenon DEF Joined
    <2> QED
      BY <2>2, <2>4, <2>5, <2>6, <2>7, <2>8
  <1> QED
    BY <1>2, <1>3, <1>4

\* Inserting into declarations is associative, and inserting none does nothing.
LEMMA InsertLaws ==
    ASSUME NEW a \in Declarations
    PROVE  /\ Insert(a, NoDecls) = a /\ Insert(NoDecls, a) = a
           /\ \A b, c \in Declarations : Insert(Insert(a, b), c) = Insert(a, Insert(b, c))
  BY DEF Insert, NoDecls, Declarations

\* The meaning of calls that follow others.
LEMMA MeaningOfBoth ==
    /\ \A s \in Seq(Call) : Declares(s) \in Declarations /\ Runs(s) \in Seq(Efforts)
    /\ \A s, t \in Seq(Call) :
            /\ Declares(s \o t) = Insert(Declares(s), Declares(t))
            /\ Runs(s \o t) = Runs(s) \o Runs(t)
  <1> DEFINE X == {k \in Nat : \A s \in Seq(Call) : Len(s) = k => Declares(s) \in Declarations}
  <1>1. 0 \in X
    <2>1. ASSUME NEW s \in Seq(Call), Len(s) = 0 PROVE s = <<>>
      BY <2>1, EmptySeq
    <2>2. NoDecls \in Declarations
      BY DEF NoDecls, Declarations
    <2> QED
      BY <2>1, <2>2, DeclaresAppend
  <1>2. ASSUME NEW k \in X PROVE k + 1 \in X
    <2>1. ASSUME NEW s \in Seq(Call), Len(s) = k + 1 PROVE Declares(s) \in Declarations
      <3>1. s # <<>>
        BY <2>1, EmptySeq
      <3>2. PICK u \in Seq(Call), e \in Call : s = Append(u, e)
        BY <3>1, SequenceEmptyOrAppend
      <3>3. Len(u) \in Nat /\ Len(s) = Len(u) + 1
        BY <3>2, AppendProperties, LenProperties
      <3>4. Len(u) = k
        BY <2>1, <3>3
      <3>5. Declares(u) \in Declarations
        BY <3>4
      <3> QED
        BY <3>2, <3>5, DeclaresAppend, DeclaredType, InsertType
    <2> QED
      BY <2>1
  <1>3. X = Nat
    <2> HIDE DEF X
    <2>1. X \in SUBSET Nat
      BY DEF X
    <2> QED
      BY <1>1, <1>2, <2>1, Induction
  <1>4. ASSUME NEW s \in Seq(Call) PROVE Declares(s) \in Declarations /\ Runs(s) \in Seq(Efforts)
    <2>1. Len(s) \in X
      <3> HIDE DEF X
      <3> QED
        BY <1>3, LenProperties
    <2> QED
      BY <2>1, RunsAppend
  <1> HIDE DEF X
  <1> DEFINE Both(s, t) == /\ Declares(s \o t) = Insert(Declares(s), Declares(t))
                           /\ Runs(s \o t) = Runs(s) \o Runs(t)
             Y == {k \in Nat : \A s, t \in Seq(Call) : Len(t) = k => Both(s, t)}
  <1>5. 0 \in Y
    <2>1. ASSUME NEW s \in Seq(Call), NEW t \in Seq(Call), Len(t) = 0 PROVE Both(s, t)
      <3>1. t = <<>>
        BY <2>1, EmptySeq
      <3>2. s \o t = s
        BY <3>1, ConcatEmptySeq
      <3>3. Insert(Declares(s), Declares(t)) = Declares(s)
        BY <1>4, <3>1, DeclaresAppend, InsertLaws
      <3>4. Runs(s) \o Runs(t) = Runs(s)
        BY <1>4, <3>1, RunsAppend, ConcatEmptySeq
      <3> QED
        BY <3>2, <3>3, <3>4
    <2> HIDE DEF Both
    <2> QED
      BY <2>1
  <1>6. ASSUME NEW k \in Y PROVE k + 1 \in Y
    <2>1. ASSUME NEW s \in Seq(Call), NEW t \in Seq(Call), Len(t) = k + 1 PROVE Both(s, t)
      <3>1. t # <<>>
        BY <2>1, EmptySeq
      <3>2. PICK u \in Seq(Call), e \in Call : t = Append(u, e)
        BY <3>1, SequenceEmptyOrAppend
      <3>3. Len(u) \in Nat /\ Len(t) = Len(u) + 1
        BY <3>2, AppendProperties, LenProperties
      <3>4. Len(u) = k
        BY <2>1, <3>3
      <3>5. Both(s, u)
        BY <3>4
      <3>6. <<e>> \in Seq(Call)
        OBVIOUS
      <3>7. s \o u \in Seq(Call)
        BY ConcatProperties
      <3>8. s \o t = Append(s \o u, e)
        <4>1. t = u \o <<e>> /\ Append(s \o u, e) = (s \o u) \o <<e>>
          BY <3>2, <3>7, AppendIsConcat
        <4> QED
          BY <3>6, <4>1, ConcatAssociative
      <3>9. Declares(s \o t) = Insert(Declares(s), Declares(t))
        <4>1. Declares(s \o t) = Insert(Insert(Declares(s), Declares(u)), Declared(e))
          BY <3>5, <3>7, <3>8, DeclaresAppend
        <4>2. Declares(t) = Insert(Declares(u), Declared(e))
          BY <3>2, DeclaresAppend
        <4> QED
          BY <1>4, <4>1, <4>2, DeclaredType, InsertLaws
      <3>10. Runs(s \o t) = Runs(s) \o Runs(t)
        <4>1. Runs(s \o t) = (Runs(s) \o Runs(u)) \o RunBy(e)
          BY <3>5, <3>7, <3>8, RunsAppend
        <4>2. Runs(t) = Runs(u) \o RunBy(e)
          BY <3>2, RunsAppend
        <4> QED
          <5>1. \A x, y, z \in Seq(Efforts) : (x \o y) \o z = x \o (y \o z)
            BY ConcatAssociative, SMTT(30)
          <5>2. PICK x \in Seq(Efforts), y \in Seq(Efforts), z \in Seq(Efforts) :
                    x = Runs(s) /\ y = Runs(u) /\ z = RunBy(e)
            BY <1>4, RunByType
          <5>3. (x \o y) \o z = x \o (y \o z)
            BY <5>1
          <5> QED
            BY <4>1, <4>2, <5>2, <5>3
      <3> QED
        BY <3>9, <3>10
    <2> HIDE DEF Both
    <2> QED
      BY <2>1
  <1>7. Y = Nat
    <2> HIDE DEF Y
    <2>1. Y \in SUBSET Nat
      BY DEF Y
    <2> QED
      BY <1>5, <1>6, <2>1, Induction
  <1>8. ASSUME NEW s \in Seq(Call), NEW t \in Seq(Call) PROVE Both(s, t)
    <2>1. Len(t) \in Y
      <3> HIDE DEF Y
      <3> QED
        BY <1>7, LenProperties
    <2> HIDE DEF Both
    <2> QED
      BY <2>1
  <1> QED
    BY <1>4, <1>8

\* The meaning of one call.
LEMMA MeaningOfOne ==
    ASSUME NEW e \in Call
    PROVE  <<e>> \in Seq(Call) /\ Declares(<<e>>) = Declared(e) /\ Runs(<<e>>) = RunBy(e)
  <1>1. <<>> \in Seq(Call) /\ <<e>> = Append(<<>>, e) /\ <<e>> \in Seq(Call)
    BY EmptySeq
  <1>2. Declares(<<e>>) = Insert(NoDecls, Declared(e))
    BY <1>1, DeclaresAppend
  <1>3. Runs(<<e>>) = <<>> \o RunBy(e)
    BY <1>1, RunsAppend
  <1> QED
    BY <1>1, <1>2, <1>3, DeclaredType, RunByType, InsertLaws, ConcatEmptySeq

(***************************************************************************)
(* What the files export.                                                   *)
(***************************************************************************)

SourceTree == [Contexts -> Seq(Call)]

\* What f exports, when E tells what the files beneath it do.
ExportsWith(E, t, f) == FlattenSeq([i \in DOMAIN t[f] |-> ExportsBy(t[f], i, E)])

\* The calls of a file.
LEMMA CallsOf ==
    ASSUME NEW t \in SourceTree, NEW f \in Contexts
    PROVE  /\ t[f] \in Seq(Call) /\ Len(t[f]) \in Nat /\ DOMAIN t[f] = 1..Len(t[f])
           /\ \A i \in 1..Len(t[f]) : t[f][i] \in Call
  <1>1. t[f] \in Seq(Call)
    BY DEF SourceTree
  <1> QED
    BY <1>1, LenProperties, ElementOfSeq

\* The kinds of calls.
LEMMA CallKinds ==
    ASSUME NEW c \in Call
    PROVE  /\ IsImport(c) => c.file \in Files /\ c = [op |-> c.op, file |-> c.file]
           /\ ~IsImport(c) => c.op \in {"add", "export", "add_effort", "export_effort"}
  <1>1. CASE c \in Declare
    BY <1>1 DEF Declare, IsImport
  <1>2. CASE c \in Effort
    BY <1>2 DEF Effort, IsImport
  <1>3. CASE c \in Import
    BY <1>3 DEF Import, IsImport
  <1> QED
    BY <1>1, <1>2, <1>3 DEF Call

\* What f exports depends on the files beneath it only, ...
LEMMA ExportsWithSame ==
    ASSUME NEW t, Downwards(t), NEW f \in Files, NEW E, NEW H,
           \A g \in Beneath[f] : E[g] = H[g]
    PROVE  ExportsWith(E, t, f) = ExportsWith(H, t, f)
  <1>1. ASSUME NEW i \in DOMAIN t[f] PROVE ExportsBy(t[f], i, E) = ExportsBy(t[f], i, H)
    <2>1. PICK c : c = t[f][i]
      OBVIOUS
    <2>2. c.op = "v_export_import" => E[c.file] = H[c.file]
      BY <2>1 DEF Downwards, IsImport
    <2> QED
      BY <2>1, <2>2 DEF ExportsBy
  <1>2. PICK P : P = [i \in DOMAIN t[f] |-> ExportsBy(t[f], i, E)]
    OBVIOUS
  <1>3. PICK Q : Q = [i \in DOMAIN t[f] |-> ExportsBy(t[f], i, H)]
    OBVIOUS
  <1>4. P = Q
    BY <1>1, <1>2, <1>3
  <1> QED
    BY <1>2, <1>3, <1>4, Zenon DEF ExportsWith

\* ... and is made of calls when theirs are.
LEMMA ExportsByType ==
    ASSUME NEW t \in SourceTree, Downwards(t), NEW f \in Files, NEW E,
           \A g \in Beneath[f] : E[g] \in Seq(Call), NEW i \in 1..Len(t[f])
    PROVE  ExportsBy(t[f], i, E) \in Seq(Call)
  <1>1. PICK c \in Call : c = t[f][i] /\ i \in DOMAIN t[f]
    BY CallsOf DEF Contexts
  <1>2. c.op = "v_export_import" => E[c.file] \in Seq(Call)
    BY <1>1 DEF Downwards, IsImport
  <1>3. <<c>> \in Seq(Call) /\ <<>> \in Seq(Call)
    BY EmptySeq
  <1> QED
    BY <1>1, <1>2, <1>3 DEF ExportsBy

\* The exports of a file are calls, when those of the files beneath it are.
LEMMA ExportsWithType ==
    ASSUME NEW t \in SourceTree, Downwards(t), NEW f \in Files, NEW E,
           \A g \in Beneath[f] : E[g] \in Seq(Call)
    PROVE  ExportsWith(E, t, f) \in Seq(Call)
  <1>1. PICK n \in Nat : n = Len(t[f]) /\ DOMAIN t[f] = 1..n /\ n \in 0..n
    BY CallsOf DEF Contexts
  <1>2. PICK P : P = [i \in 1..n |-> ExportsBy(t[f], i, E)]
    OBVIOUS
  <1>3. \A i \in 1..n : P[i] \in Seq(Call)
    BY <1>1, <1>2, ExportsByType
  <1>4. P = [i \in 1..n |-> P[i]]
    BY <1>2
  <1>5. ExportsWith(E, t, f) = Joined(P, n)
    BY <1>1, <1>2, <1>4, Zenon DEF ExportsWith, Joined
  <1>6. Joined(P, n) \in Seq(Call)
    BY <1>1, <1>3, JoinedLemma
  <1> QED
    BY <1>5, <1>6

\* E tells what the files of D export, and what those beneath them do.
Tells(E, D, t) ==
    /\ D \in SUBSET Files
    /\ \A f \in D : Beneath[f] \subseteq D
    /\ \A f \in D : E[f] = ExportsWith(E, t, f)

\* Two functions that tell the exports of a file agree on it.
LEMMA TellsSame ==
    ASSUME NEW t, Downwards(t), NEW E, NEW D, NEW H, NEW C, Tells(E, D, t), Tells(H, C, t)
    PROVE  \A f \in D \cap C : E[f] = H[f]
  <1> DEFINE F == {f \in D \cap C : E[f] # H[f]}
  <1>1. SUFFICES ASSUME F # {} PROVE FALSE
    OBVIOUS
  <1>2. F \in (SUBSET Files) \ {{}}
    BY <1>1 DEF Tells
  <1>3. PICK f \in F : Beneath[f] \cap F = {}
    <2> HIDE DEF F
    <2> QED
      BY <1>2, BeneathAssumption
  <1>4. f \in Files /\ Beneath[f] \subseteq D \cap C
    BY <1>3 DEF Tells
  <1>5. \A g \in Beneath[f] : E[g] = H[g]
    BY <1>3, <1>4
  <1>6. ExportsWith(E, t, f) = ExportsWith(H, t, f)
    BY <1>4, <1>5, ExportsWithSame
  <1> QED
    BY <1>3, <1>6 DEF Tells

\* There is one that tells it of all files.
LEMMA TellsAll ==
    ASSUME NEW t, Downwards(t)
    PROVE  \E E : Tells(E, Files, t)
  <1> DEFINE told == {f \in Files : \E E, D : Tells(E, D, t) /\ f \in D}
             teller(f) == CHOOSE E : \E D : Tells(E, D, t) /\ f \in D
  <1>1. ASSUME NEW f \in told PROVE \E D : Tells(teller(f), D, t) /\ f \in D
    OBVIOUS
  <1> HIDE DEF teller
  <1> DEFINE all == [f \in Files |-> teller(f)[f]]
  <1>2. ASSUME NEW E, NEW D, Tells(E, D, t) PROVE \A f \in D : f \in told /\ all[f] = E[f]
    <2>1. ASSUME NEW f \in D PROVE f \in told /\ all[f] = E[f]
      <3>1. f \in Files /\ f \in told
        BY <1>2 DEF Tells
      <3>2. PICK C : Tells(teller(f), C, t) /\ f \in C
        BY <1>1, <3>1
      <3>3. teller(f)[f] = E[f]
        BY <1>2, <3>2, TellsSame
      <3> QED
        BY <3>1, <3>3
    <2> QED
      BY <2>1
  <1>3. told \in SUBSET Files
    OBVIOUS
  <1>4. ASSUME NEW f \in told
        PROVE  Beneath[f] \subseteq told /\ all[f] = ExportsWith(all, t, f)
    <2>1. PICK D : Tells(teller(f), D, t) /\ f \in D
      BY <1>1
    <2>2. f \in Files /\ Beneath[f] \subseteq D
      BY <2>1 DEF Tells
    <2>3. \A g \in D : g \in told /\ all[g] = teller(f)[g]
      BY <1>2, <2>1
    <2>4. teller(f)[f] = ExportsWith(teller(f), t, f)
      BY <2>1 DEF Tells
    <2> HIDE DEF all, told
    <2>5. \A g \in Beneath[f] : teller(f)[g] = all[g]
      BY <2>2, <2>3
    <2>6. ExportsWith(teller(f), t, f) = ExportsWith(all, t, f)
      BY <2>2, <2>5, ExportsWithSame
    <2> QED
      BY <2>1, <2>2, <2>3, <2>4, <2>6
  <1>5. Files \ told = {}
    <2>1. SUFFICES ASSUME Files \ told # {} PROVE FALSE
      OBVIOUS
    <2>2. PICK f \in Files \ told : Beneath[f] \cap (Files \ told) = {}
      <3> HIDE DEF told
      <3>1. Files \ told \in (SUBSET Files) \ {{}}
        BY <2>1
      <3> QED
        BY <3>1, BeneathAssumption
    <2>3. Beneath[f] \subseteq told
      <3>1. Beneath[f] \subseteq Files
        BY BeneathAssumption
      <3> QED
        BY <2>2, <3>1
    <2> DEFINE more == [g \in Files |-> IF g = f THEN ExportsWith(all, t, f) ELSE all[g]]
    <2> HIDE DEF all, told
    <2>4. /\ more[f] = ExportsWith(all, t, f)
          /\ \A g \in told : g \in Files /\ g # f /\ more[g] = all[g]
      BY <1>3, <2>2
    <2> HIDE DEF more
    <2>5. ASSUME NEW g \in told \cup {f} PROVE more[g] = ExportsWith(more, t, g)
      <3>1. g \in Files /\ Beneath[g] \subseteq told
        BY <1>3, <1>4, <2>2, <2>3
      <3>2. \A h \in Beneath[g] : more[h] = all[h]
        BY <2>4, <3>1
      <3>3. ExportsWith(more, t, g) = ExportsWith(all, t, g)
        BY <3>1, <3>2, ExportsWithSame
      <3> QED
        BY <1>4, <2>4, <3>3
    <2>6. Tells(more, told \cup {f}, t)
      <3>1. told \cup {f} \in SUBSET Files
        BY <1>3
      <3>2. \A g \in told \cup {f} : Beneath[g] \subseteq told \cup {f}
        BY <1>4, <2>3
      <3> QED
        BY <2>5, <3>1, <3>2 DEF Tells
    <2>7. f \in told
      BY <2>6 DEF told
    <2> QED
      BY <2>2, <2>7
  <1>6. Tells(all, Files, t)
    <2> HIDE DEF all, told
    <2>1. told = Files
      BY <1>3, <1>5
    <2> QED
      BY <1>3, <1>4, <2>1 DEF Tells
  <1> QED
    BY <1>6

\* Exported is what its definition says.
LEMMA ExportedIs ==
    ASSUME NEW t \in SourceTree, Downwards(t)
    PROVE  /\ Exported(t) \in [Files -> Seq(Call)]
           /\ \A f \in Files : Exported(t)[f] = ExportsWith(Exported(t), t, f)
  <1>1. PICK E : Tells(E, Files, t)
    BY TellsAll
  <1>2. PICK H : H = [f \in Files |-> E[f]]
    OBVIOUS
  <1>3. ASSUME NEW f \in Files PROVE H[f] = ExportsWith(H, t, f)
    <2>1. \A g \in Beneath[f] : E[g] = H[g]
      BY <1>2, BeneathAssumption
    <2>2. ExportsWith(E, t, f) = ExportsWith(H, t, f)
      BY <2>1, ExportsWithSame
    <2> QED
      BY <1>1, <1>2, <2>2 DEF Tells
  <1>4. H = [f \in Files |-> ExportsWith(H, t, f)]
    BY <1>2, <1>3
  <1> DEFINE X == CHOOSE X : X = [f \in Files |-> ExportsWith(X, t, f)]
  <1>5. X = [f \in Files |-> ExportsWith(X, t, f)]
    BY <1>4
  <1>6. Exported(t) = X
    BY Zenon DEF Exported, ExportsWith
  <1>7. DOMAIN X = Files /\ \A f \in Files : X[f] = ExportsWith(X, t, f)
    <2> HIDE DEF X
    <2> QED
      BY <1>5
  <1>8. ASSUME NEW Y, Y = X PROVE \A f \in Files : Y[f] \in Seq(Call)
    <2> HIDE DEF X
    <2> DEFINE F == {f \in Files : Y[f] \notin Seq(Call)}
    <2>1. SUFFICES ASSUME F # {} PROVE FALSE
      OBVIOUS
    <2>2. PICK f \in F : Beneath[f] \cap F = {}
      <3>1. F \in (SUBSET Files) \ {{}}
        BY <2>1
      <3> HIDE DEF F
      <3> QED
        BY <3>1, BeneathAssumption
    <2>3. \A g \in Beneath[f] : Y[g] \in Seq(Call)
      BY <2>2, BeneathAssumption
    <2>4. ExportsWith(Y, t, f) \in Seq(Call)
      BY <2>3, ExportsWithType
    <2> QED
      BY <1>7, <1>8, <2>2, <2>4
  <1>9. X = [f \in Files |-> X[f]]
    <2> HIDE DEF X
    <2> QED
      BY <1>5, <1>7
  <1> HIDE DEF X
  <1> QED
    BY <1>6, <1>7, <1>8, <1>9

\* What f exports after the first k of its calls.
ExportsUpTo(t, f, k) == FlattenSeq([i \in 1..k |-> ExportsBy(t[f], i, Exported(t))])

\* A call more adds what it exports.
LEMMA ExportsGrow ==
    ASSUME NEW t \in SourceTree, Downwards(t), NEW f \in Files
    PROVE  /\ ExportsUpTo(t, f, 0) = <<>>
           /\ ExportsUpTo(t, f, Len(t[f])) = Exported(t)[f]
           /\ \A k \in 0..Len(t[f]) : ExportsUpTo(t, f, k) \in Seq(Call)
           /\ \A k \in 0..Len(t[f]) : k + 1 <= Len(t[f]) =>
                /\ ExportsBy(t[f], k + 1, Exported(t)) \in Seq(Call)
                /\ ExportsUpTo(t, f, k + 1)
                        = ExportsUpTo(t, f, k) \o ExportsBy(t[f], k + 1, Exported(t))
  <1>1. PICK n \in Nat : n = Len(t[f]) /\ DOMAIN t[f] = 1..n
    BY CallsOf DEF Contexts
  <1>2. PICK P : P = [i \in 1..n |-> ExportsBy(t[f], i, Exported(t))]
    OBVIOUS
  <1>3. \A g \in Beneath[f] : Exported(t)[g] \in Seq(Call)
    BY ExportedIs, BeneathAssumption
  <1>4. \A i \in 1..n : P[i] = ExportsBy(t[f], i, Exported(t)) /\ P[i] \in Seq(Call)
    BY <1>1, <1>2, <1>3, ExportsByType
  <1>5. ASSUME NEW k \in 0..n PROVE ExportsUpTo(t, f, k) = Joined(P, k)
    <2>1. \A i \in 1..k : i \in 1..n
      BY <1>1
    <2>2. [i \in 1..k |-> ExportsBy(t[f], i, Exported(t))] = [i \in 1..k |-> P[i]]
      BY <1>4, <2>1
    <2> QED
      BY <2>2, Zenon DEF ExportsUpTo, Joined
  <1>6. ExportsUpTo(t, f, n) = Exported(t)[f]
    <2>1. Exported(t)[f] = ExportsWith(Exported(t), t, f)
      BY ExportedIs
    <2> QED
      BY <1>1, <2>1, Zenon DEF ExportsUpTo, ExportsWith
  <1>7. 0 \in 0..n
    OBVIOUS
  <1>8. ExportsUpTo(t, f, 0) = <<>>
    BY <1>4, <1>5, <1>7, JoinedLemma
  <1>9. ASSUME NEW k \in 0..n PROVE ExportsUpTo(t, f, k) \in Seq(Call)
    BY <1>4, <1>5, JoinedLemma
  <1>10. ASSUME NEW k \in 0..n, k + 1 <= n
         PROVE  /\ ExportsBy(t[f], k + 1, Exported(t)) \in Seq(Call)
                /\ ExportsUpTo(t, f, k + 1)
                        = ExportsUpTo(t, f, k) \o ExportsBy(t[f], k + 1, Exported(t))
    <2>1. PICK l \in 1..n : l = k + 1 /\ l \in 0..n
      BY <1>10
    <2>2. Joined(P, k + 1) = Joined(P, k) \o P[k + 1]
      BY <1>4, <1>10, JoinedLemma
    <2>3. P[l] = ExportsBy(t[f], l, Exported(t)) /\ P[l] \in Seq(Call)
      BY <1>4
    <2>4. ExportsUpTo(t, f, l) = Joined(P, l)
      BY <1>5, <2>1
    <2> QED
      BY <1>5, <2>1, <2>2, <2>3, <2>4
  <1> QED
    BY <1>1, <1>6, <1>8, <1>9, <1>10

\* What a call brings into scope is calls.
LEMMA BringsType ==
    ASSUME NEW t \in SourceTree, Downwards(t), NEW f \in Contexts, NEW i \in 1..Len(t[f])
    PROVE  Brings(t[f], i, Exported(t)) \in Seq(Call)
  <1>1. PICK c \in Call : c = t[f][i]
    BY CallsOf
  <1>2. IsImport(c) => Exported(t)[c.file] \in Seq(Call)
    BY CallKinds, ExportedIs
  <1>3. <<c>> \in Seq(Call) /\ <<>> \in Seq(Call)
    BY EmptySeq
  <1> QED
    BY <1>1, <1>2, <1>3 DEF Brings

\* A call more brings more into the scope.
LEMMA ScopeGrows ==
    ASSUME NEW t \in SourceTree, Downwards(t), NEW f \in Contexts
    PROVE  /\ InScope(t, f, 0) = <<>>
           /\ \A k \in 0..Len(t[f]) : InScope(t, f, k) \in Seq(Call)
           /\ \A k \in 0..Len(t[f]) : k + 1 <= Len(t[f]) =>
                /\ Brings(t[f], k + 1, Exported(t)) \in Seq(Call)
                /\ InScope(t, f, k + 1)
                        = InScope(t, f, k) \o Brings(t[f], k + 1, Exported(t))
  <1>1. PICK n \in Nat : n = Len(t[f]) /\ DOMAIN t[f] = 1..n
    BY CallsOf
  <1>2. PICK P : P = [i \in 1..n |-> Brings(t[f], i, Exported(t))]
    OBVIOUS
  <1>4. \A i \in 1..n : P[i] = Brings(t[f], i, Exported(t)) /\ P[i] \in Seq(Call)
    BY <1>1, <1>2, BringsType
  <1>5. ASSUME NEW k \in 0..n PROVE InScope(t, f, k) = Joined(P, k)
    <2>1. \A i \in 1..k : i \in 1..n
      BY <1>1
    <2>2. [i \in 1..k |-> Brings(t[f], i, Exported(t))] = [i \in 1..k |-> P[i]]
      BY <1>4, <2>1
    <2> QED
      BY <2>2, Zenon DEF InScope, Joined
  <1>7. 0 \in 0..n
    OBVIOUS
  <1>8. InScope(t, f, 0) = <<>>
    BY <1>4, <1>5, <1>7, JoinedLemma
  <1>9. ASSUME NEW k \in 0..n PROVE InScope(t, f, k) \in Seq(Call)
    BY <1>4, <1>5, JoinedLemma
  <1>10. ASSUME NEW k \in 0..n, k + 1 <= n
         PROVE  /\ Brings(t[f], k + 1, Exported(t)) \in Seq(Call)
                /\ InScope(t, f, k + 1) = InScope(t, f, k) \o Brings(t[f], k + 1, Exported(t))
    <2>1. PICK l \in 1..n : l = k + 1 /\ l \in 0..n
      BY <1>10
    <2>2. Joined(P, k + 1) = Joined(P, k) \o P[k + 1]
      BY <1>4, <1>10, JoinedLemma
    <2>3. P[l] = Brings(t[f], l, Exported(t)) /\ P[l] \in Seq(Call)
      BY <1>4
    <2>4. InScope(t, f, l) = Joined(P, l)
      BY <1>5, <2>1
    <2> QED
      BY <1>5, <2>1, <2>2, <2>3, <2>4
  <1> QED
    BY <1>1, <1>8, <1>9, <1>10

(***************************************************************************)
(* The invariant behind the meaning of scopes and exports.                  *)
(***************************************************************************)

\* What a context has still to do is the rest of the calls of its file.
Progress(t, c) ==
    /\ Made(t, c) \in 0..Len(t[c.file])
    /\ \A j \in 1..Len(c.todo) : c.todo[j] = t[c.file][Made(t, c) + j]

ImportedBy(calls, k) == {f \in Files : \E j \in 1..k : Imports(calls[j], f)}

ReExportedBy(calls, k) ==
    {f \in Files : \E j \in 1..k : calls[j] = [op |-> "v_export_import", file |-> f]}

\* What a context holds is what its calls mean, ...
CtxMeans(t, c) ==
    /\ Progress(t, c)
    /\ c.decls = Declares(InScope(t, c.file, Made(t, c)))
    /\ c.ran = Runs(InScope(t, c.file, Made(t, c)))
    /\ c.imported = ImportedBy(t[c.file], Made(t, c))
    /\ c.exported = IF c.file \in Files THEN ReExportedBy(t[c.file], Made(t, c)) ELSE {}

\* ... and so is the export data of a file.
DataMeans(t, e, f, k) ==
    /\ e.decls = Declares(ExportsUpTo(t, f, k))
    /\ e.efforts = Runs(ExportsUpTo(t, f, k))

\* c is making the call that d runs for, the first one that imports the file.
Pending(c, d) == Head(c.todo) = [op |-> d.op, file |-> d.file] /\ d.file \notin c.imported

Meant ==
    /\ \A i \in DOMAIN stack : CtxMeans(tree, stack[i])
    /\ \A i \in DOMAIN stack : stack[i].file \in Files =>
            DataMeans(tree, data[stack[i].file], stack[i].file, Made(tree, stack[i]))
    /\ \A f \in Files : ~data[f].known => data[f] = NoData
    /\ \A f \in Files : Finished(f) => DataMeans(tree, data[f], f, Len(tree[f]))
    /\ \A i \in 1..(Len(stack) - 1) : Pending(stack[i], stack[i + 1])
    /\ \A i \in DOMAIN stack : \A f \in stack[i].imported : data[f].known

\* The next call of a context.
LEMMA NextCall ==
    ASSUME NEW t \in SourceTree, NEW c \in LocalCtx, Progress(t, c), c.todo # <<>>,
           NEW k, k = Made(t, c)
    PROVE  /\ k \in 0..Len(t[c.file]) /\ k + 1 <= Len(t[c.file])
           /\ k + 1 \in DOMAIN t[c.file]
           /\ Head(c.todo) = t[c.file][k + 1]
           /\ \A d \in LocalCtx : d.file = c.file /\ d.todo = Tail(c.todo)
                => Made(t, d) = k + 1 /\ Progress(t, d)
  <1>1. c.file \in Contexts /\ c.todo \in Seq(Call)
    BY DEF LocalCtx
  <1>2. PICK f : f = c.file
    OBVIOUS
  <1>3. PICK n \in Nat : n = Len(t[f]) /\ DOMAIN t[f] = 1..n
    BY <1>1, <1>2, CallsOf
  <1>4. PICK m \in Nat \ {0} : m = Len(c.todo)
    BY <1>1, EmptySeq
  <1>5. k = n - m /\ k \in 0..n /\ \A j \in 1..m : c.todo[j] = t[f][k + j]
    BY <1>2, <1>3, <1>4 DEF Progress, Made
  <1>6. k + 1 <= n /\ k + 1 \in 1..n /\ 1 \in 1..m
    BY <1>4, <1>5
  <1>7. Head(c.todo) = c.todo[1]
    BY <1>1
  <1>8. ASSUME NEW d \in LocalCtx, d.file = c.file, d.todo = Tail(c.todo)
        PROVE  Made(t, d) = k + 1 /\ Progress(t, d)
    <2>1. Len(d.todo) = m - 1 /\ \A j \in 1..(m - 1) : d.todo[j] = c.todo[j + 1]
      BY <1>1, <1>4, <1>8, HeadTailProperties
    <2>2. Made(t, d) = n - (m - 1)
      BY <1>2, <1>3, <1>8, <2>1 DEF Made
    <2>3. Made(t, d) = k + 1 /\ Made(t, d) \in 0..n
      BY <1>5, <1>6, <2>2
    <2>4. ASSUME NEW j \in 1..(m - 1) PROVE d.todo[j] = t[f][k + 1 + j]
      <3>1. j + 1 \in 1..m /\ k + (j + 1) = k + 1 + j
        BY <1>4, <1>5
      <3> QED
        BY <1>5, <2>1, <3>1
    <2>5. \A j \in 1..Len(d.todo) : d.todo[j] = t[d.file][Made(t, d) + j]
      BY <1>2, <1>8, <2>1, <2>3, <2>4
    <2> QED
      BY <1>2, <1>3, <1>8, <2>3, <2>5 DEF Progress
  <1> QED
    BY <1>2, <1>3, <1>5, <1>6, <1>7, <1>8

\* d is c after one more call has done to it what it means.
Takes(t, c, d) ==
    LET k == Made(t, c)
        brought == Brings(t[c.file], k + 1, Exported(t))
    IN  /\ d.file = c.file /\ d.op = c.op /\ c.todo # <<>> /\ d.todo = Tail(c.todo)
        /\ d.decls = Insert(c.decls, Declares(brought))
        /\ d.ran = c.ran \o Runs(brought)
        /\ d.imported = ImportedBy(t[c.file], k + 1)
        /\ d.exported = IF c.file \in Files THEN ReExportedBy(t[c.file], k + 1) ELSE {}

\* A context that means what its calls do still does after one more.
LEMMA TakesMeans ==
    ASSUME NEW t \in SourceTree, Downwards(t), NEW c \in LocalCtx, NEW d \in LocalCtx,
           CtxMeans(t, c), Takes(t, c, d)
    PROVE  CtxMeans(t, d) /\ Made(t, d) = Made(t, c) + 1
  <1>1. PICK k : k = Made(t, c)
    OBVIOUS
  <1>2. PICK f \in Contexts : f = c.file /\ d.file = f
    BY DEF LocalCtx, Takes
  <1>3. c.todo # <<>> /\ d.todo = Tail(c.todo) /\ Progress(t, c)
    BY DEF Takes, CtxMeans
  <1>4. k \in 0..Len(t[f]) /\ k + 1 <= Len(t[f]) /\ Made(t, d) = k + 1 /\ Progress(t, d)
    BY <1>1, <1>2, <1>3, NextCall
  <1>5. PICK b \in Seq(Call) : b = Brings(t[f], k + 1, Exported(t))
    BY <1>4, ScopeGrows
  <1>6. PICK s \in Seq(Call) : s = InScope(t, f, k) /\ InScope(t, f, k + 1) = s \o b
    BY <1>4, <1>5, ScopeGrows
  <1>7. /\ d.decls = Insert(Declares(s), Declares(b))
        /\ d.ran = Runs(s) \o Runs(b)
    BY <1>1, <1>2, <1>5, <1>6 DEF Takes, CtxMeans
  <1>8. /\ d.decls = Declares(InScope(t, f, k + 1))
        /\ d.ran = Runs(InScope(t, f, k + 1))
    BY <1>6, <1>7, MeaningOfBoth
  <1>9. /\ d.imported = ImportedBy(t[f], k + 1)
        /\ d.exported = IF f \in Files THEN ReExportedBy(t[f], k + 1) ELSE {}
    BY <1>1, <1>2 DEF Takes
  <1> QED
    BY <1>1, <1>2, <1>4, <1>8, <1>9 DEF CtxMeans

\* e1 is the export data e0 of f after one more call, the one after the first k.
Gives(t, f, k, e0, e1) ==
    LET given == ExportsBy(t[f], k + 1, Exported(t))
    IN  /\ e1.known = e0.known
        /\ e1.decls = Insert(e0.decls, Declares(given))
        /\ e1.efforts = e0.efforts \o Runs(given)

\* The same for the export data of a file.
LEMMA GivesMeans ==
    ASSUME NEW t \in SourceTree, Downwards(t), NEW f \in Files,
           NEW k \in 0..Len(t[f]), k + 1 <= Len(t[f]), NEW e0, NEW e1,
           DataMeans(t, e0, f, k), Gives(t, f, k, e0, e1)
    PROVE  DataMeans(t, e1, f, k + 1)
  <1>1. PICK b \in Seq(Call) : b = ExportsBy(t[f], k + 1, Exported(t))
    BY ExportsGrow
  <1>2. PICK s \in Seq(Call) : s = ExportsUpTo(t, f, k) /\ ExportsUpTo(t, f, k + 1) = s \o b
    BY <1>1, ExportsGrow
  <1>3. /\ e1.decls = Insert(Declares(s), Declares(b))
        /\ e1.efforts = Runs(s) \o Runs(b)
    BY <1>1, <1>2 DEF Gives, DataMeans
  <1> QED
    BY <1>2, <1>3, MeaningOfBoth DEF DataMeans

\* What the invariants say of the state, in the terms of the lemmas.
LEMMA StackFacts ==
    ASSUME Inv
    PROVE  /\ tree \in SourceTree
           /\ Len(stack) \in Nat \ {0} /\ DOMAIN stack = 1..Len(stack)
           /\ \A i \in 1..Len(stack) : stack[i] \in LocalCtx /\ stack[i].file \in Contexts
           /\ stack[1].file = Main
           /\ stack[Len(stack)] = Top
           /\ data \in [Files -> ExportData]
  <1>1. /\ tree \in Trees /\ data \in [Files -> ExportData]
        /\ stack \in Seq(LocalCtx) /\ stack[1].file = Main
    BY SMTT(30) DEF Inv, TypeOK
  <1>2. tree \in SourceTree
    BY <1>1, TreesAssumption DEF SourceTree
  <1>3. \A i \in 1..Len(stack) : stack[i] \in LocalCtx
    BY <1>1, ElementOfSeq
  <1>4. \A c \in LocalCtx : c.file \in Contexts
    BY DEF LocalCtx
  <1>5. Len(stack) \in Nat \ {0} /\ DOMAIN stack = 1..Len(stack) /\ stack[Len(stack)] = Top
    BY TopType DEF Inv
  <1> QED
    BY <1>1, <1>2, <1>3, <1>4, <1>5

\* The length of the stack, as a number of its own.
LEMMA StackSize ==
    ASSUME Inv
    PROVE  \E n \in Nat : n = Len(stack) /\ DOMAIN stack = 1..n /\ stack[n] = Top /\ n \in 1..n
  <1>1. Len(stack) \in Nat \ {0}
    BY StackFacts
  <1>2. Len(stack) \in 1..Len(stack) /\ Len(stack) \in Nat
    BY <1>1
  <1>3. DOMAIN stack = 1..Len(stack) /\ stack[Len(stack)] = Top
    BY StackFacts
  <1> QED
    BY <1>2, <1>3, Zenon

\* A known file that is being imported has run: were it still running, the
\* importer would be above it, and no file imports one above.
LEMMA KnownHasRun ==
    ASSUME Inv, Downwards(tree), Meant, NEW f \in Files, data[f].known,
           Top.todo # <<>>, Imports(Head(Top.todo), f)
    PROVE  Finished(f)
  <1>1. SUFFICES ASSUME OnStack(f) PROVE FALSE
    BY DEF Finished
  <1>2. PICK n \in Nat : n = Len(stack) /\ DOMAIN stack = 1..n /\ stack[n] = Top /\ n \in 1..n
    BY StackSize
  <1>3. PICK j \in 1..n : stack[j].file = f
    BY <1>1, <1>2 DEF OnStack
  <1>4. j \in 2..n
    BY <1>2, <1>3, StackFacts, MainAssumption
  <1>5. \A i \in j..n : i \in 1..n /\ stack[i].file \in Files
    BY <1>2, <1>4 DEF Inv, FilesAbove
  <1> DEFINE F == {stack[i].file : i \in j..n}
  <1>6. F \in (SUBSET Files) \ {{}}
    <2>1. stack[j].file \in F
      BY <1>4
    <2>2. \A g \in F : g \in Files
      BY <1>5
    <2> HIDE DEF F
    <2> QED
      BY <2>1, <2>2
  <1>7. PICK i \in j..n : Beneath[stack[i].file] \cap F = {}
    <2>1. PICK g \in F : Beneath[g] \cap F = {}
      <3> HIDE DEF F
      <3> QED
        BY <1>6, BeneathAssumption
    <2> QED
      BY <2>1
  <1>8. ASSUME NEW c, c = stack[i], c.todo # <<>>, NEW g, Imports(Head(c.todo), g)
        PROVE  g \in Beneath[c.file]
    <2>1. c \in LocalCtx /\ c.file \in Files /\ Progress(tree, c)
      BY <1>2, <1>5, <1>8, StackFacts DEF Meant, CtxMeans
    <2>2. PICK k : k = Made(tree, c)
      OBVIOUS
    <2>3. k + 1 \in DOMAIN tree[c.file] /\ Head(c.todo) = tree[c.file][k + 1]
      BY <1>8, <2>1, <2>2, StackFacts, NextCall
    <2> QED
      BY <1>8, <2>1, <2>3 DEF Downwards, Imports
  <1>9. CASE i = n
    <2>1. f \in Beneath[stack[i].file]
      BY <1>2, <1>8, <1>9
    <2>2. f \in F
      BY <1>3, <1>4
    <2> QED
      BY <1>7, <2>1, <2>2
  <1>10. CASE i # n
    <2>1. i \in 1..(n - 1) /\ i + 1 \in j..n
      BY <1>4, <1>10
    <2>2. stack[i].todo # <<>> /\ Pending(stack[i], stack[i + 1])
      BY <1>2, <2>1 DEF Meant, Inv, CallPending
    <2>3. stack[i + 1].op \in {"v_import", "v_export_import"}
      BY <1>2, <1>5, <2>1, StackFacts DEF LocalCtx
    <2>4. Imports(Head(stack[i].todo), stack[i + 1].file)
      BY <2>2, <2>3 DEF Pending, Imports, IsImport
    <2>5. stack[i + 1].file \in Beneath[stack[i].file]
      BY <1>8, <2>2, <2>4
    <2>6. stack[i + 1].file \in F
      BY <2>1
    <2> QED
      BY <1>7, <2>5, <2>6
  <1> QED
    BY <1>9, <1>10

\* Context m goes on and is then the innermost.
Advances(m) ==
    /\ m \in 1..Len(stack) /\ tree' = tree
    /\ DOMAIN stack' = 1..m
    /\ \A i \in 1..(m - 1) : stack'[i] = stack[i]
    /\ Takes(tree, stack[m], stack'[m])
    /\ \A f \in Files : f # stack[m].file => data'[f] = data[f]
    /\ stack[m].file \in Files =>
            Gives(tree, stack[m].file, Made(tree, stack[m]),
                  data[stack[m].file], data'[stack[m].file])
    /\ \A f \in stack'[m].imported : data[f].known

\* The invariant is preserved while a context advances.
LEMMA AdvancesMeant ==
    ASSUME Inv, Inv', Downwards(tree), Meant, NEW m, Advances(m),
           m = Len(stack) \/ (m = Len(stack) - 1 /\ Top.todo = <<>>)
    PROVE  Meant'
  <1>1. PICK n \in Nat : n = Len(stack) /\ DOMAIN stack = 1..n /\ stack[n] = Top /\ n \in 1..n
    BY StackSize
  <1>2. /\ m \in 1..n /\ tree' = tree /\ DOMAIN stack' = 1..m
        /\ \A i \in 1..(m - 1) : stack'[i] = stack[i]
        /\ \A f \in Files : f # stack[m].file => data'[f] = data[f]
        /\ m = n \/ (m = n - 1 /\ Top.todo = <<>>)
    BY <1>1 DEF Advances
  <1>3. PICK t \in SourceTree : t = tree /\ Downwards(t)
    BY StackFacts
  <1>4. PICK F : F = stack[m].file
    OBVIOUS
  <1>5. /\ \A i \in 1..n : stack[i] \in LocalCtx /\ stack[i].file \in Contexts
        /\ \A i \in 1..m : stack'[i] \in LocalCtx
    <2>1. stack' \in Seq(LocalCtx)
      BY DEF Inv, TypeOK
    <2>2. Len(stack') \in Nat /\ DOMAIN stack' = 1..Len(stack')
      BY <2>1, LenProperties
    <2>3. \A i \in 1..Len(stack') : stack'[i] \in LocalCtx
      BY <2>1, ElementOfSeq
    <2> QED
      BY <1>1, <1>2, <2>2, <2>3, StackFacts
  <1>6. PICK c \in LocalCtx, d \in LocalCtx :
            c = stack[m] /\ d = stack'[m] /\ CtxMeans(t, c) /\ Takes(t, c, d)
    BY <1>1, <1>2, <1>3, <1>5 DEF Advances, Meant
  <1>7. CtxMeans(t, d) /\ Made(t, d) = Made(t, c) + 1 /\ d.file = F /\ d.op = c.op
    <2>1. CtxMeans(t, d) /\ Made(t, d) = Made(t, c) + 1
      BY <1>3, <1>6, TakesMeans
    <2> QED
      BY <1>4, <1>6, <2>1 DEF Takes
  <1>8. \A i \in 1..m : i = m \/ (i \in 1..(m - 1) /\ i \in 1..n /\ stack'[i] = stack[i] /\ i # m)
    BY <1>1, <1>2
  <1>9. \A i \in 1..n : i # m => stack[i].file # F
    BY <1>1, <1>2, <1>4 DEF Inv, OneActivation
  <1>10. F \in Files => data'[F].known = data[F].known /\ data[F].known
    <2>1. F \in Files => data'[F].known = data[F].known
      BY <1>4 DEF Advances, Gives
    <2>2. F \in Files => data[F].known
      BY <1>1, <1>2, <1>4 DEF Inv, RunningKnown
    <2> QED
      BY <2>1, <2>2
  <1>11. \A f \in Files : data'[f].known = data[f].known
    BY <1>2, <1>4, <1>10
  <1>12. ASSUME NEW i \in 1..m PROVE CtxMeans(t, stack'[i])
    <2>1. i # m => CtxMeans(t, stack[i])
      BY <1>1, <1>3, <1>8 DEF Meant
    <2> QED
      BY <1>6, <1>7, <1>8, <2>1
  <1>13. ASSUME NEW i \in 1..m, stack'[i].file \in Files
         PROVE  DataMeans(t, data'[stack'[i].file], stack'[i].file, Made(t, stack'[i]))
    <2>1. CASE i = m
      <3>1. F \in Files /\ stack'[i] = d
        BY <1>6, <1>7, <1>13, <2>1
      <3>2. PICK k : k = Made(t, c)
        OBVIOUS
      <3>3. DataMeans(t, data[F], F, k)
        BY <1>1, <1>2, <1>3, <1>4, <1>6, <3>1, <3>2 DEF Meant
      <3>4. Gives(t, F, k, data[F], data'[F])
        BY <1>3, <1>4, <1>6, <3>1, <3>2 DEF Advances
      <3>5. k \in 0..Len(t[F]) /\ k + 1 <= Len(t[F])
        <4>1. Progress(t, c) /\ c.todo # <<>> /\ c.file = F
          BY <1>4, <1>6 DEF CtxMeans, Takes
        <4> QED
          BY <3>2, <4>1, NextCall
      <3>6. DataMeans(t, data'[F], F, k + 1)
        BY <1>3, <3>1, <3>3, <3>4, <3>5, GivesMeans
      <3> QED
        BY <1>7, <3>1, <3>2, <3>6
    <2>2. CASE i # m
      <3>1. stack'[i] = stack[i] /\ i \in 1..n /\ stack[i].file # F
        BY <1>8, <1>9, <2>2
      <3>2. data'[stack[i].file] = data[stack[i].file]
        BY <1>2, <1>4, <1>13, <3>1
      <3>3. DataMeans(t, data[stack[i].file], stack[i].file, Made(t, stack[i]))
        BY <1>1, <1>3, <1>13, <3>1 DEF Meant
      <3> QED
        BY <3>1, <3>2, <3>3
    <2> QED
      BY <2>1, <2>2
  <1>14. ASSUME NEW f \in Files, ~data'[f].known PROVE data'[f] = NoData
    <2>1. f # F
      BY <1>10, <1>14
    <2> QED
      BY <1>2, <1>4, <1>11, <1>14, <2>1 DEF Meant
  <1>15. ASSUME NEW f \in Files, data'[f].known, \A i \in 1..m : stack'[i].file # f
         PROVE  DataMeans(t, data'[f], f, Len(t[f]))
    <2>1. f # F /\ data'[f] = data[f] /\ data[f].known
      <3>1. m \in 1..m
        BY <1>2
      <3>2. f # F
        BY <1>6, <1>7, <1>15, <3>1
      <3> QED
        BY <1>2, <1>4, <1>11, <1>15, <3>2
    <2>2. CASE OnStack(f)
      <3>1. PICK i \in 1..n : stack[i].file = f
        BY <1>1, <2>2 DEF OnStack
      <3>2. i # m
        BY <1>4, <2>1, <3>1
      <3>3. i \notin 1..m
        BY <1>8, <1>15, <3>1, <3>2
      <3>4. i = n /\ Top.todo = <<>> /\ stack[i] = Top /\ Top.file = f
        BY <1>1, <1>2, <3>1, <3>3
      <3>5. Made(t, Top) = Len(t[f])
        <4>1. Len(t[f]) \in Nat
          BY CallsOf DEF Contexts
        <4>2. Made(t, Top) = Len(t[f]) - Len(<<>>)
          BY <3>4 DEF Made
        <4>3. Len(<<>>) = 0
          BY EmptySeq
        <4> QED
          BY <4>1, <4>2, <4>3
      <3>6. DataMeans(t, data[f], f, Made(t, Top))
        BY <1>1, <1>3, <3>1, <3>4 DEF Meant
      <3> QED
        BY <2>1, <3>5, <3>6
    <2>3. CASE ~OnStack(f)
      BY <1>3, <2>1, <2>3 DEF Meant, Finished
    <2> QED
      BY <2>2, <2>3
  <1>16. ASSUME NEW i \in 1..(m - 1) PROVE Pending(stack'[i], stack'[i + 1])
    <2>1. i \in 1..(n - 1) /\ i + 1 \in 1..m /\ i \in 1..m /\ i # m
      BY <1>1, <1>2
    <2>2. Pending(stack[i], stack[i + 1])
      BY <1>1, <2>1 DEF Meant
    <2>3. stack'[i] = stack[i]
      BY <1>2
    <2>4. stack'[i + 1].op = stack[i + 1].op /\ stack'[i + 1].file = stack[i + 1].file
      BY <1>4, <1>6, <1>7, <1>8, <2>1
    <2> QED
      BY <2>2, <2>3, <2>4 DEF Pending
  <1>17. ASSUME NEW i \in 1..m, NEW f \in stack'[i].imported PROVE data'[f].known
    <2>1. f \in Files
      BY <1>5, <1>17 DEF LocalCtx
    <2>2. data[f].known
      <3>1. CASE i = m
        BY <1>17, <3>1 DEF Advances
      <3>2. CASE i # m
        BY <1>1, <1>8, <1>17, <3>2 DEF Meant
      <3> QED
        BY <3>1, <3>2
    <2> QED
      BY <1>11, <2>1, <2>2
  <1>18. Len(stack') = m
    <2>1. stack' \in Seq(LocalCtx)
      BY DEF Inv, TypeOK
    <2>2. Len(stack') \in Nat /\ DOMAIN stack' = 1..Len(stack')
      BY <2>1, LenProperties
    <2>3. \A k, l \in Nat : 1..k = 1..l => k = l
      OBVIOUS
    <2>4. m \in Nat
      BY <1>2
    <2> QED
      BY <1>2, <2>2, <2>3, <2>4
  <1>19. tree' = t
    BY <1>2, <1>3
  <1> QED
    BY <1>2, <1>12, <1>13, <1>14, <1>15, <1>16, <1>17, <1>18, <1>19, Zenon
       DEF Meant, Finished, OnStack

(***************************************************************************)
(* What a call means to the context that makes it, kind by kind.            *)
(***************************************************************************)

\* The files that a call imports and re-exports.
ImportedNow(call) == {f \in Files : Imports(call, f)}
ReExportedNow(call) == {f \in Files : call = [op |-> "v_export_import", file |-> f]}

\* What one more call adds to the files imported and re-exported.
LEMMA OneMore ==
    ASSUME NEW calls, NEW k \in Nat
    PROVE  /\ ImportedBy(calls, k + 1)
                = ImportedBy(calls, k) \cup ImportedNow(calls[k + 1])
           /\ ReExportedBy(calls, k + 1)
                = ReExportedBy(calls, k) \cup ReExportedNow(calls[k + 1])
  <1>1. \A j : j \in 1..(k + 1) <=> j \in 1..k \/ j = k + 1
    OBVIOUS
  <1> QED
    BY <1>1, Zenon DEF ImportedBy, ReExportedBy, ImportedNow, ReExportedNow

\* An import of a file brings its exports, the first time.
LEMMA ImportMeans ==
    ASSUME NEW calls, NEW k \in Nat, NEW c \in Call, c = calls[k + 1], IsImport(c), NEW E
    PROVE  /\ c.file \in Files
           /\ c.file \in ImportedBy(calls, k) => Brings(calls, k + 1, E) = <<>>
           /\ c.file \notin ImportedBy(calls, k) => Brings(calls, k + 1, E) = E[c.file]
           /\ ImportedBy(calls, k + 1) = ImportedBy(calls, k) \cup {c.file}
           /\ ReExportedBy(calls, k) \subseteq ImportedBy(calls, k)
           /\ c.op = "v_import" => /\ ReExportedBy(calls, k + 1) = ReExportedBy(calls, k)
                                   /\ ExportsBy(calls, k + 1, E) = <<>>
           /\ c.op = "v_export_import" =>
                /\ ReExportedBy(calls, k + 1) = ReExportedBy(calls, k) \cup {c.file}
                /\ c.file \in ReExportedBy(calls, k) => ExportsBy(calls, k + 1, E) = <<>>
                /\ c.file \notin ReExportedBy(calls, k)
                        => ExportsBy(calls, k + 1, E) = E[c.file]
  <1>1. c.file \in Files /\ c = [op |-> c.op, file |-> c.file]
    BY CallKinds
  <1>2. k + 1 - 1 = k
    OBVIOUS
  <1>3. PICK f \in Files : f = c.file
    BY <1>1
  <1>4. Brings(calls, k + 1, E) = IF f \in ImportedBy(calls, k) THEN <<>> ELSE E[f]
    BY <1>2, <1>3 DEF Brings, ImportedBy
  <1>5. ImportedNow(c) = {f}
    BY <1>3 DEF Imports, ImportedNow
  <1>6. ImportedBy(calls, k + 1) = ImportedBy(calls, k) \cup {f}
    BY <1>5, OneMore
  <1>7. ReExportedBy(calls, k) \subseteq ImportedBy(calls, k)
    BY DEF ReExportedBy, ImportedBy, Imports, IsImport
  <1>8. CASE c.op = "v_import"
    <2>1. ReExportedNow(c) = {}
      BY <1>8 DEF ReExportedNow
    <2>4. ReExportedBy(calls, k + 1) = ReExportedBy(calls, k) \cup {}
      BY <2>1, OneMore
    <2>2. ReExportedBy(calls, k + 1) = ReExportedBy(calls, k)
      BY <2>4
    <2>3. ExportsBy(calls, k + 1, E) = <<>>
      BY <1>8 DEF ExportsBy
    <2> QED
      BY <1>3, <1>4, <1>6, <1>7, <1>8, <2>2, <2>3
  <1>9. CASE c.op = "v_export_import"
    <2>1. c = [op |-> "v_export_import", file |-> f]
      BY <1>1, <1>3, <1>9
    <2>2. ReExportedNow(c) = {f}
      BY <2>1 DEF ReExportedNow
    <2>3. ReExportedBy(calls, k + 1) = ReExportedBy(calls, k) \cup {f}
      BY <2>2, OneMore
    <2>4. (\A j \in 1..k : calls[j] # c) <=> f \notin ReExportedBy(calls, k)
      BY <2>1 DEF ReExportedBy
    <2>5. ExportsBy(calls, k + 1, E)
              = IF f \in ReExportedBy(calls, k) THEN <<>> ELSE E[f]
      BY <1>2, <1>3, <1>9, <2>4 DEF ExportsBy
    <2> QED
      BY <1>3, <1>4, <1>6, <1>7, <1>9, <2>3, <2>5
  <1> QED
    BY <1>8, <1>9 DEF IsImport

\* What an import exports, as far as it depends on what was re-exported before.
LEMMA ReExportMeans ==
    ASSUME NEW calls, NEW k \in Nat, NEW c \in Call, c = calls[k + 1], IsImport(c), NEW E,
           NEW X, X = ReExportedBy(calls, k), NEW f, f = c.file
    PROVE  /\ c.op = "v_export_import" /\ f \notin X => ExportsBy(calls, k + 1, E) = E[f]
           /\ ~(c.op = "v_export_import" /\ f \notin X) => ExportsBy(calls, k + 1, E) = <<>>
  BY ImportMeans DEF IsImport

\* Any other call brings itself.
LEMMA PlainMeans ==
    ASSUME NEW calls, NEW k \in Nat, NEW c \in Call, c = calls[k + 1], ~IsImport(c), NEW E
    PROVE  /\ Brings(calls, k + 1, E) = <<c>>
           /\ ImportedBy(calls, k + 1) = ImportedBy(calls, k)
           /\ ReExportedBy(calls, k + 1) = ReExportedBy(calls, k)
           /\ c.op \in {"export", "export_effort"} => ExportsBy(calls, k + 1, E) = <<c>>
           /\ c.op \in {"add", "add_effort"} => ExportsBy(calls, k + 1, E) = <<>>
  <1>1. Brings(calls, k + 1, E) = <<c>>
    BY DEF Brings
  <1>2. ImportedNow(c) = {}
    BY DEF Imports, ImportedNow
  <1>3. ReExportedNow(c) = {}
    BY DEF IsImport, ReExportedNow
  <1>4. /\ c.op \in {"export", "export_effort"} => ExportsBy(calls, k + 1, E) = <<c>>
        /\ c.op \in {"add", "add_effort"} => ExportsBy(calls, k + 1, E) = <<>>
    BY DEF ExportsBy
  <1>5. /\ ImportedBy(calls, k + 1) = ImportedBy(calls, k) \cup {}
        /\ ReExportedBy(calls, k + 1) = ReExportedBy(calls, k) \cup {}
    BY <1>2, <1>3, OneMore
  <1> QED
    BY <1>1, <1>4, <1>5

\* d is c with its next call made, and holds what the calls s hold besides.
Gets(c, d, s) ==
    /\ d.file = c.file /\ d.op = c.op /\ c.todo # <<>> /\ d.todo = Tail(c.todo)
    /\ d.decls = Insert(c.decls, Declares(s)) /\ d.ran = c.ran \o Runs(s)

\* A context that makes a call that is no import.
LEMMA PlainTakes ==
    ASSUME NEW t \in SourceTree, NEW c \in LocalCtx, CtxMeans(t, c),
           NEW call, call = Head(c.todo), ~IsImport(call),
           NEW d \in LocalCtx, Gets(c, d, <<call>>),
           d.imported = c.imported, d.exported = c.exported
    PROVE  Takes(t, c, d)
  <1>1. PICK k : k = Made(t, c)
    OBVIOUS
  <1>2. k \in Nat /\ call = t[c.file][k + 1] /\ call \in Call
    <2>1. Progress(t, c) /\ c.todo # <<>> /\ c.file \in Contexts
      BY DEF CtxMeans, Gets, LocalCtx
    <2>2. Len(t[c.file]) \in Nat
      BY <2>1, CallsOf
    <2>3. k \in 0..Len(t[c.file]) /\ call = t[c.file][k + 1] /\ k + 1 \in DOMAIN t[c.file]
      BY <1>1, <2>1, NextCall
    <2>4. t[c.file][k + 1] \in Call
      BY <2>1, <2>3, CallsOf
    <2> QED
      BY <2>2, <2>3, <2>4
  <1>3. /\ Brings(t[c.file], k + 1, Exported(t)) = <<call>>
        /\ ImportedBy(t[c.file], k + 1) = ImportedBy(t[c.file], k)
        /\ ReExportedBy(t[c.file], k + 1) = ReExportedBy(t[c.file], k)
    BY <1>2, PlainMeans
  <1> QED
    BY <1>1, <1>3 DEF Takes, Gets, CtxMeans

\* A context that imports a file, for the first time or again.
LEMMA ImportTakes ==
    ASSUME NEW t \in SourceTree, NEW c \in LocalCtx, CtxMeans(t, c),
           NEW call, call = Head(c.todo), IsImport(call), NEW f, f = call.file,
           NEW d \in LocalCtx,
           NEW s, Gets(c, d, s),
           f \in c.imported => s = <<>>, f \notin c.imported => s = Exported(t)[f],
           d.imported = c.imported \cup {f},
           call.op = "v_export_import" /\ Exports(c) => d.exported = c.exported \cup {f},
           ~(call.op = "v_export_import" /\ Exports(c)) => d.exported = c.exported
    PROVE  Takes(t, c, d)
  <1>1. PICK k : k = Made(t, c)
    OBVIOUS
  <1>2. k \in Nat /\ call = t[c.file][k + 1] /\ call \in Call
    <2>1. Progress(t, c) /\ c.todo # <<>> /\ c.file \in Contexts
      BY DEF CtxMeans, Gets, LocalCtx
    <2>2. Len(t[c.file]) \in Nat
      BY <2>1, CallsOf
    <2>3. k \in 0..Len(t[c.file]) /\ call = t[c.file][k + 1] /\ k + 1 \in DOMAIN t[c.file]
      BY <1>1, <2>1, NextCall
    <2>4. t[c.file][k + 1] \in Call
      BY <2>1, <2>3, CallsOf
    <2> QED
      BY <2>2, <2>3, <2>4
  <1>3. /\ c.imported = ImportedBy(t[c.file], k)
        /\ c.exported = IF c.file \in Files THEN ReExportedBy(t[c.file], k) ELSE {}
    BY <1>1 DEF CtxMeans
  <1>4. /\ Brings(t[c.file], k + 1, Exported(t))
             = IF f \in c.imported THEN <<>> ELSE Exported(t)[f]
        /\ ImportedBy(t[c.file], k + 1) = c.imported \cup {f}
        /\ call.op = "v_export_import" =>
                ReExportedBy(t[c.file], k + 1) = ReExportedBy(t[c.file], k) \cup {f}
    BY <1>2, <1>3, ImportMeans
  <1>5. d.exported = IF c.file \in Files THEN ReExportedBy(t[c.file], k + 1) ELSE {}
    <2>1. CASE call.op = "v_import"
      BY <1>2, <1>3, <2>1, ImportMeans
    <2>2. CASE call.op = "v_export_import"
      <3>1. ReExportedBy(t[c.file], k + 1) = ReExportedBy(t[c.file], k) \cup {f}
        BY <1>4, <2>2
      <3>2. c.exported = IF c.file \in Files THEN ReExportedBy(t[c.file], k) ELSE {}
        BY <1>3
      <3>3. d.exported = IF c.file \in Files THEN c.exported \cup {f} ELSE c.exported
        BY <2>2 DEF Exports
      <3>4. c.file \in Files => d.exported = ReExportedBy(t[c.file], k + 1)
        BY <3>1, <3>2, <3>3
      <3>5. c.file \notin Files => d.exported = {}
        BY <3>2, <3>3
      <3> QED
        BY <3>4, <3>5, Zenon
    <2> QED
      BY <2>1, <2>2 DEF IsImport
  <1> QED
    BY <1>1, <1>4, <1>5 DEF Takes, Gets

\* e is the export data of a file after it has been given what the calls s hold.
Given(e0, e1, s) ==
    /\ e1.known = e0.known
    /\ e1.decls = Insert(e0.decls, Declares(s)) /\ e1.efforts = e0.efforts \o Runs(s)

\* To be given nothing changes nothing.
LEMMA GivenNothing == \A e \in ExportData : Given(e, e, <<>>)
  <1>1. ASSUME NEW e \in ExportData PROVE Given(e, e, <<>>)
    <2>1. e.decls \in Declarations /\ e.efforts \in Seq(Efforts)
      BY DEF ExportData
    <2>2. Insert(e.decls, NoDecls) = e.decls /\ e.efforts \o <<>> = e.efforts
      BY <2>1, InsertLaws, ConcatEmptySeq
    <2> QED
      BY <2>2, DeclaresAppend, RunsAppend DEF Given
  <1> QED
    BY <1>1

\* The export data of a file that has made a call.
LEMMA GivenGives ==
    ASSUME NEW t \in SourceTree, NEW f \in Files, NEW k, NEW e0, NEW e1,
           Given(e0, e1, ExportsBy(t[f], k + 1, Exported(t)))
    PROVE  Gives(t, f, k, e0, e1)
  BY DEF Given, Gives

\* The export data of a file that has run.
LEMMA DataWhole ==
    ASSUME NEW t \in SourceTree, Downwards(t), NEW f \in Files, NEW e,
           DataMeans(t, e, f, Len(t[f]))
    PROVE  /\ Exported(t)[f] \in Seq(Call)
           /\ e.decls = Declares(Exported(t)[f]) /\ e.efforts = Runs(Exported(t)[f])
  BY ExportsGrow, ExportedIs DEF DataMeans

\* What a context that goes on keeps.
LEMMA GoesKeeps ==
    ASSUME NEW c \in LocalCtx, c.todo # <<>>
    PROVE  /\ Goes(c) \in LocalCtx /\ Goes(c).todo = Tail(c.todo)
           /\ Goes(c).file = c.file /\ Goes(c).op = c.op
           /\ Goes(c).decls = c.decls /\ Goes(c).ran = c.ran
           /\ Goes(c).imported = c.imported /\ Goes(c).exported = c.exported
  <1>1. Goes(c) \in LocalCtx
    BY GoesType
  <1> QED
    BY <1>1 DEF Goes, LocalCtx

\* What passing export data on does to it.
LEMMA PassKeeps ==
    ASSUME NEW e \in ExportData, NEW d
    PROVE  /\ Pass(e, d).known = e.known
           /\ Pass(e, d).decls = Insert(e.decls, d.decls)
           /\ Pass(e, d).efforts = e.efforts \o d.efforts
  BY DEF Pass, ExportData

\* The stack cut at context m, which is replaced.
LEMMA CutStack ==
    ASSUME TypeOK, NEW m \in 1..Len(stack), NEW d \in LocalCtx,
           stack' = Append(SubSeq(stack, 1, m - 1), d)
    PROVE  /\ DOMAIN stack' = 1..m /\ stack'[m] = d
           /\ \A i \in 1..(m - 1) : stack'[i] = stack[i]
  <1>1. stack \in Seq(LocalCtx) /\ Len(stack) \in Nat
    BY LenProperties DEF TypeOK
  <1>2. PICK k \in 0..Len(stack) : k + 1 = m /\ k = m - 1
    <2>1. m - 1 \in 0..Len(stack) /\ m - 1 + 1 = m
      BY <1>1
    <2> QED
      BY <2>1
  <1>3. stack' = Cut(stack, k, d)
    BY <1>2 DEF Cut
  <1>4. DOMAIN Cut(stack, k, d) = 1..(k + 1)
    BY <1>1, CutLemma
  <1>5. Cut(stack, k, d)[k + 1] = d
    BY <1>1, CutLemma
  <1>6. \A i \in 1..k : Cut(stack, k, d)[i] = stack[i]
    BY <1>1, CutLemma
  <1> QED
    BY <1>2, <1>3, <1>4, <1>5, <1>6

\* A context that takes what its call means, and gives it to its importers.
LEMMA TakesAdvances ==
    ASSUME Inv, NEW m \in 1..Len(stack), NEW d \in LocalCtx,
           stack' = Append(SubSeq(stack, 1, m - 1), d), tree' = tree,
           Takes(tree, stack[m], d),
           \A f \in Files : f # stack[m].file => data'[f] = data[f],
           stack[m].file \in Files =>
                Gives(tree, stack[m].file, Made(tree, stack[m]),
                      data[stack[m].file], data'[stack[m].file]),
           \A f \in d.imported : data[f].known
    PROVE  Advances(m)
  <1>1. /\ DOMAIN stack' = 1..m /\ stack'[m] = d
        /\ \A i \in 1..(m - 1) : stack'[i] = stack[i]
    BY CutStack DEF Inv
  <1>2. Takes(tree, stack[m], stack'[m])
    BY <1>1
  <1> QED
    BY <1>1, <1>2 DEF Advances

\* A call that is no import.
LEMMA PlainAdvances ==
    ASSUME Inv, Downwards(tree), Meant, Top.todo # <<>>,
           NEW call, call = Head(Top.todo), ~IsImport(call),
           NEW c \in LocalCtx, c.file = Top.file, c.op = Top.op, c.todo = Top.todo,
           c.imported = Top.imported, c.exported = Top.exported,
           c.decls = Insert(Top.decls, Declares(<<call>>)),
           c.ran = Top.ran \o Runs(<<call>>),
           stack' = Append(Below, Goes(c)), tree' = tree,
           NEW e,
           Exports(Top) /\ call.op \in {"export", "export_effort"} =>
                Given(data[Top.file], e, <<call>>),
           data' = IF Exports(Top) /\ call.op \in {"export", "export_effort"}
                   THEN [data EXCEPT ![Top.file] = e] ELSE data
    PROVE  Advances(Len(stack))
  <1>1. PICK m : m = Len(stack)
    OBVIOUS
  <1>2. m \in 1..Len(stack) /\ stack[m] = Top /\ Top \in LocalCtx /\ tree \in SourceTree
    BY <1>1, StackSize, StackFacts
  <1>3. CtxMeans(tree, Top)
    BY <1>2, StackFacts DEF Meant
  <1>12. c.todo # <<>>
    OBVIOUS
  <1>13. PICK d : d = Goes(c)
    OBVIOUS
  <1>4. /\ d \in LocalCtx
        /\ d = Goes(c) /\ d.todo = Tail(Top.todo)
        /\ d.file = Top.file /\ d.op = Top.op
        /\ d.decls = c.decls /\ d.ran = c.ran
        /\ d.imported = Top.imported /\ d.exported = Top.exported
    BY <1>12, <1>13, GoesKeeps
  <1>5. Gets(Top, d, <<call>>)
    BY <1>4 DEF Gets
  <1>6. Takes(tree, Top, d)
    BY <1>2, <1>3, <1>4, <1>5, PlainTakes
  <1>7. \A f \in Files : f # Top.file => data'[f] = data[f]
    BY StackFacts
  <1>8. ASSUME Top.file \in Files
        PROVE  Gives(tree, Top.file, Made(tree, Top), data[Top.file], data'[Top.file])
    <2>1. PICK k : k = Made(tree, Top)
      OBVIOUS
    <2>2. k \in Nat /\ call = tree[Top.file][k + 1] /\ call \in Call
      <3>1. Progress(tree, Top) /\ Top.file \in Contexts
        BY <1>2, <1>3 DEF CtxMeans, LocalCtx
      <3>2. Len(tree[Top.file]) \in Nat
        BY <1>2, <3>1, CallsOf
      <3>3. k \in 0..Len(tree[Top.file]) /\ call = tree[Top.file][k + 1]
            /\ k + 1 \in DOMAIN tree[Top.file]
        BY <1>2, <2>1, <3>1, NextCall
      <3>4. tree[Top.file][k + 1] \in Call
        BY <1>2, <3>1, <3>3, CallsOf
      <3> QED
        BY <3>2, <3>3, <3>4
    <2>3. data[Top.file] \in ExportData
      BY <1>8, StackFacts
    <2>4. CASE call.op \in {"export", "export_effort"}
      <3>1. data'[Top.file] = e /\ Given(data[Top.file], e, <<call>>)
        BY <1>8, <2>4, StackFacts DEF Exports
      <3>2. ExportsBy(tree[Top.file], k + 1, Exported(tree)) = <<call>>
        BY <2>2, <2>4, PlainMeans
      <3> QED
        BY <1>2, <1>8, <2>1, <3>1, <3>2, GivenGives
    <2>5. CASE call.op \notin {"export", "export_effort"}
      <3>1. data'[Top.file] = data[Top.file]
        BY <2>5
      <3>2. ExportsBy(tree[Top.file], k + 1, Exported(tree)) = <<>>
        <4>1. call.op \in {"add", "add_effort"}
          BY <2>2, <2>5, CallKinds
        <4>2. PICK s, E : s = tree[Top.file] /\ E = Exported(tree)
          OBVIOUS
        <4>3. ExportsBy(s, k + 1, E) = <<>>
          BY <2>2, <4>1, <4>2, PlainMeans
        <4> QED
          BY <4>2, <4>3
      <3>3. Given(data[Top.file], data'[Top.file], <<>>)
        BY <2>3, <3>1, GivenNothing
      <3> QED
        BY <1>2, <1>8, <2>1, <3>2, <3>3, GivenGives
    <2> QED
      BY <2>4, <2>5
  <1>9. \A f \in d.imported : data[f].known
    BY <1>2, <1>4, StackFacts DEF Meant
  <1>10. stack' = Append(SubSeq(stack, 1, m - 1), d)
    BY <1>1, <1>4 DEF Below
  <1>15. /\ Takes(tree, stack[m], d)
         /\ \A f \in Files : f # stack[m].file => data'[f] = data[f]
         /\ stack[m].file \in Files =>
                Gives(tree, stack[m].file, Made(tree, stack[m]),
                      data[stack[m].file], data'[stack[m].file])
    BY <1>2, <1>6, <1>7, <1>8
  <1>11. Advances(m)
    BY <1>2, <1>4, <1>9, <1>10, <1>15, TakesAdvances
  <1> QED
    BY <1>1, <1>11

\* What the call of a context that imports a file exports.
LEMMA ReExportGives ==
    ASSUME NEW t \in SourceTree, NEW p \in LocalCtx, CtxMeans(t, p), p.todo # <<>>,
           NEW call, call = Head(p.todo), IsImport(call), NEW f, f = call.file,
           p.file \in Files, NEW k, k = Made(t, p), NEW given,
           given = ExportsBy(t[p.file], k + 1, Exported(t))
    PROVE  /\ call.op = "v_export_import" /\ f \notin p.exported => given = Exported(t)[f]
           /\ ~(call.op = "v_export_import" /\ f \notin p.exported) => given = <<>>
  <1>1. Progress(t, p) /\ p.file \in Contexts
    BY DEF CtxMeans, Contexts
  <1>2. Len(t[p.file]) \in Nat
    BY <1>1, CallsOf
  <1>3. k \in 0..Len(t[p.file]) /\ call = t[p.file][k + 1] /\ k + 1 \in DOMAIN t[p.file]
    BY <1>1, NextCall
  <1>4. call \in Call /\ k \in Nat
    BY <1>1, <1>2, <1>3, CallsOf
  <1>5. PICK X : X = ReExportedBy(t[p.file], k)
    OBVIOUS
  <1>6. p.exported = X
    BY <1>5 DEF CtxMeans
  <1>7. /\ call.op = "v_export_import" /\ f \notin X => given = Exported(t)[f]
        /\ ~(call.op = "v_export_import" /\ f \notin X) => given = <<>>
    BY <1>3, <1>4, <1>5, ReExportMeans
  <1> QED
    BY <1>6, <1>7

\* c is p after it has received a file that it imports, and the file that p runs
\* in passes on what it re-exports.
Receives(p, c, call) ==
    LET f == call.file
    IN  /\ c.file = p.file /\ c.op = p.op /\ c.todo = p.todo
        /\ c.imported = p.imported \cup {f}
        /\ c.exported = IF call.op = "v_export_import" /\ Exports(p)
                        THEN p.exported \cup {f} ELSE p.exported
        /\ c.decls = IF f \in p.imported THEN p.decls ELSE Insert(p.decls, data[f].decls)
        /\ c.ran = IF f \in p.imported THEN p.ran ELSE p.ran \o data[f].efforts

PassesOn(p, call) ==
    LET f == call.file
    IN  data' = IF call.op = "v_export_import" /\ Exports(p) /\ f \notin p.exported
                THEN [data EXCEPT ![p.file] = Pass(data[p.file], data[f])] ELSE data

\* An import of a file that has run, by context m: the file has run before, or
\* it was the innermost and has just ended.
LEMMA ImportReceives ==
    ASSUME Inv, Downwards(tree), Meant, NEW m \in 1..Len(stack),
           NEW p, p = stack[m], p.todo # <<>>,
           NEW call, call = Head(p.todo), IsImport(call), call.file \in Files,
           data[call.file].known,
           DataMeans(tree, data[call.file], call.file, Len(tree[call.file])),
           NEW c \in LocalCtx, Receives(p, c, call), PassesOn(p, call),
           stack' = Append(SubSeq(stack, 1, m - 1), Goes(c)), tree' = tree
    PROVE  Advances(m)
  <1>1. PICK f \in Files : f = call.file
    OBVIOUS
  <1>2. /\ c.file = p.file /\ c.op = p.op /\ c.todo = p.todo
        /\ c.imported = p.imported \cup {f}
        /\ c.exported = IF call.op = "v_export_import" /\ Exports(p)
                        THEN p.exported \cup {f} ELSE p.exported
        /\ c.decls = IF f \in p.imported THEN p.decls ELSE Insert(p.decls, data[f].decls)
        /\ c.ran = IF f \in p.imported THEN p.ran ELSE p.ran \o data[f].efforts
    BY <1>1, Zenon DEF Receives
  <1>3. data' = IF call.op = "v_export_import" /\ Exports(p) /\ f \notin p.exported
                 THEN [data EXCEPT ![p.file] = Pass(data[p.file], data[f])] ELSE data
    BY <1>1, Zenon DEF PassesOn
  <1>4. /\ tree \in SourceTree /\ p \in LocalCtx /\ p.file \in Contexts
        /\ data \in [Files -> ExportData] /\ m \in DOMAIN stack
    BY StackFacts
  <1>5. data[f].known /\ DataMeans(tree, data[f], f, Len(tree[f]))
    BY <1>1
  <1>6. PICK s \in Seq(Call) :
            s = Exported(tree)[f] /\ data[f].decls = Declares(s) /\ data[f].efforts = Runs(s)
    BY <1>4, <1>5, DataWhole
  <1>7. CtxMeans(tree, p)
    BY <1>4 DEF Meant
  <1>8. c.todo # <<>>
    BY <1>2
  <1>9. PICK d : d = Goes(c)
    OBVIOUS
  <1>10. /\ d \in LocalCtx
         /\ d = Goes(c) /\ d.todo = Tail(p.todo)
         /\ d.file = p.file /\ d.op = p.op
         /\ d.decls = c.decls /\ d.ran = c.ran
         /\ d.imported = c.imported /\ d.exported = c.exported
    <2>1. /\ d \in LocalCtx /\ d.todo = Tail(c.todo) /\ d.file = c.file /\ d.op = c.op
          /\ d.decls = c.decls /\ d.ran = c.ran
          /\ d.imported = c.imported /\ d.exported = c.exported
      BY <1>8, <1>9, GoesKeeps
    <2> QED
      BY <1>2, <1>9, <2>1
  <1>11. PICK b : b = IF f \in p.imported THEN <<>> ELSE Exported(tree)[f]
    OBVIOUS
  <1>12. Gets(p, d, b)
    <2>1. p.decls \in Declarations /\ p.ran \in Seq(Efforts)
      BY <1>4 DEF LocalCtx
    <2>2. CASE f \in p.imported
      <3>1. d.decls = p.decls /\ d.ran = p.ran
        BY <1>10, <1>2, <2>2
      <3>2. Insert(p.decls, NoDecls) = p.decls /\ p.ran \o <<>> = p.ran
        BY <2>1, InsertLaws, ConcatEmptySeq
      <3>3. Gets(p, d, <<>>)
        BY <1>10, <3>1, <3>2, DeclaresAppend, RunsAppend DEF Gets
      <3> QED
        BY <1>11, <2>2, <3>3
    <2>3. CASE f \notin p.imported
      <3>1. d.decls = Insert(p.decls, Declares(s)) /\ d.ran = p.ran \o Runs(s)
        BY <1>6, <1>10, <1>2, <2>3
      <3>2. Gets(p, d, s)
        BY <1>10, <3>1 DEF Gets
      <3> QED
        BY <1>6, <1>11, <2>3, <3>2
    <2> QED
      BY <2>2, <2>3
  <1>13. Takes(tree, p, d)
    <2>1. /\ d.imported = p.imported \cup {f}
          /\ call.op = "v_export_import" /\ Exports(p) => d.exported = p.exported \cup {f}
          /\ ~(call.op = "v_export_import" /\ Exports(p)) => d.exported = p.exported
      BY <1>10, <1>2
    <2>2. /\ f \in p.imported => b = <<>>
          /\ f \notin p.imported => b = Exported(tree)[f]
      BY <1>11
    <2> QED
      <3>1. PICK t, g, o : t = tree /\ g = f /\ o = call
        OBVIOUS
      <3>2. t \in SourceTree /\ p \in LocalCtx /\ CtxMeans(t, p) /\ d \in LocalCtx
        BY <1>4, <1>7, <1>10, <3>1
      <3>3. o = Head(p.todo) /\ IsImport(o) /\ g = o.file /\ Gets(p, d, b)
        BY <1>1, <1>12, <3>1
      <3>4. /\ g \in p.imported => b = <<>>
            /\ g \notin p.imported => b = Exported(t)[g]
            /\ d.imported = p.imported \cup {g}
            /\ o.op = "v_export_import" /\ Exports(p) => d.exported = p.exported \cup {g}
            /\ ~(o.op = "v_export_import" /\ Exports(p)) => d.exported = p.exported
        BY <2>1, <2>2, <3>1
      <3>5. Takes(t, p, d)
        BY <3>2, <3>3, <3>4, ImportTakes
      <3> QED
        BY <3>1, <3>5
  <1>14. \A g \in Files : g # p.file => data'[g] = data[g]
    BY <1>4, <1>3
  <1>15. ASSUME p.file \in Files
        PROVE  Gives(tree, p.file, Made(tree, p), data[p.file], data'[p.file])
    <2>1. PICK k : k = Made(tree, p)
      OBVIOUS
    <2>2. data[p.file] \in ExportData
      BY <1>4, <1>15
    <2>3. PICK given : given = ExportsBy(tree[p.file], k + 1, Exported(tree))
      OBVIOUS
    <2>4. /\ call.op = "v_export_import" /\ f \notin p.exported => given = Exported(tree)[f]
          /\ ~(call.op = "v_export_import" /\ f \notin p.exported) => given = <<>>
      <3>1. PICK t, g, o : t = tree /\ g = f /\ o = call
        OBVIOUS
      <3>2. t \in SourceTree /\ p \in LocalCtx /\ CtxMeans(t, p) /\ p.todo # <<>>
        BY <1>4, <1>7, <3>1
      <3>3. o = Head(p.todo) /\ IsImport(o) /\ g = o.file
        BY <1>1, <3>1
      <3>4. p.file \in Files /\ k = Made(t, p) /\ given = ExportsBy(t[p.file], k + 1, Exported(t))
        BY <1>15, <2>1, <2>3, <3>1
      <3>5. /\ o.op = "v_export_import" /\ g \notin p.exported => given = Exported(t)[g]
            /\ ~(o.op = "v_export_import" /\ g \notin p.exported) => given = <<>>
        <4>1. PICK h : h = p.file
          OBVIOUS
        <4>2. h \in Files /\ p.file = h /\ given = ExportsBy(t[h], k + 1, Exported(t))
          BY <3>4, <4>1
        <4> QED
          BY <3>2, <3>3, <3>4, <4>2, ReExportGives, SMTT(30)
      <3> QED
        BY <3>1, <3>5
    <2>5. Given(data[p.file], data'[p.file], given)
      <3>1. CASE call.op = "v_export_import" /\ f \notin p.exported
        <4>1. data'[p.file] = Pass(data[p.file], data[f])
          BY <1>4, <1>15, <1>3, <3>1 DEF Exports
        <4>2. given = s
          BY <1>6, <2>4, <3>1
        <4> QED
          <5>1. PICK e : e = data[p.file]
            OBVIOUS
          <5>2. PICK e1 : e1 = Pass(e, data[f])
            OBVIOUS
          <5>3. e1.known = e.known /\ e1.decls = Insert(e.decls, data[f].decls)
                /\ e1.efforts = e.efforts \o data[f].efforts
            <6>1. PICK x : x = data[f]
              OBVIOUS
            <6>2. e \in ExportData /\ e1 = Pass(e, x)
              BY <2>2, <5>1, <5>2, <6>1
            <6>3. e1.known = e.known /\ e1.decls = Insert(e.decls, x.decls)
                  /\ e1.efforts = e.efforts \o x.efforts
              BY <6>2, PassKeeps
            <6> QED
              BY <6>1, <6>3
          <5>4. Given(e, e1, s)
            BY <1>6, <5>3 DEF Given
          <5> QED
            BY <4>1, <4>2, <5>1, <5>2, <5>4
      <3>2. CASE ~(call.op = "v_export_import" /\ f \notin p.exported)
        <4>1. data'[p.file] = data[p.file]
          BY <1>3, <3>2
        <4>2. given = <<>>
          BY <2>4, <3>2
        <4> QED
          BY <2>2, <4>1, <4>2, GivenNothing
      <3> QED
        BY <3>1, <3>2
    <2> QED
      BY <1>4, <1>15, <2>1, <2>5, <2>3, GivenGives
  <1>16. \A g \in d.imported : data[g].known
    <2>1. d.imported = p.imported \cup {f}
      BY <1>10, <1>2
    <2>2. \A g \in p.imported : data[g].known
      BY <1>4 DEF Meant
    <2> QED
      BY <1>5, <2>1, <2>2
  <1> QED
    BY <1>4, <1>10, <1>13, <1>14, <1>15, <1>16, <1>9, TakesAdvances

\* add_*
LEMMA AddMeans == ASSUME Inv, Downwards(tree), Meant, Add PROVE Advances(Len(stack))
  <1>1. PICK call \in Call :
            /\ call = Head(Top.todo) /\ call.op = "add" /\ Top.todo # <<>>
            /\ call.name \in Names /\ call.thing \in Things
    BY CallingType, CallTypes DEF Add, Inv
  <1>2. PICK c : c = [Top EXCEPT !.decls = Insert(@, One(call.name, call.thing))]
    OBVIOUS
  <1>3. Top \in LocalCtx /\ Top.decls \in Declarations /\ Top.ran \in Seq(Efforts)
    BY TopType DEF Inv, LocalCtx
  <1>4. Insert(Top.decls, One(call.name, call.thing)) \in Declarations
    BY <1>1, <1>3, OneType, InsertType
  <1>5. /\ c \in LocalCtx /\ c.file = Top.file /\ c.op = Top.op /\ c.todo = Top.todo
        /\ c.imported = Top.imported /\ c.exported = Top.exported
        /\ c.decls = Insert(Top.decls, One(call.name, call.thing)) /\ c.ran = Top.ran
    BY <1>2, <1>3, <1>4 DEF LocalCtx
  <1>6. /\ Declares(<<call>>) = One(call.name, call.thing) /\ Runs(<<call>>) = <<>>
    BY <1>1, MeaningOfOne DEF Declared, RunBy
  <1>7. c.ran = Top.ran \o Runs(<<call>>)
    BY <1>3, <1>5, <1>6, ConcatEmptySeq
  <1>8. stack' = Append(Below, Goes(c)) /\ tree' = tree /\ data' = data
    BY <1>1, <1>2 DEF Add
  <1>9. ~IsImport(call) /\ call.op \notin {"export", "export_effort"}
    BY <1>1 DEF IsImport
  <1> QED
    BY <1>1, <1>5, <1>6, <1>7, <1>8, <1>9, PlainAdvances

\* export_*
LEMMA ExportMeans == ASSUME Inv, Downwards(tree), Meant, Export PROVE Advances(Len(stack))
  <1>1. PICK call \in Call :
            /\ call = Head(Top.todo) /\ call.op = "export" /\ Top.todo # <<>>
            /\ call.name \in Names /\ call.thing \in Things
    BY CallingType, CallTypes DEF Export, Inv
  <1>2. PICK c, e :
            /\ c = [Top EXCEPT !.decls = Insert(@, One(call.name, call.thing))]
            /\ e = [data[Top.file] EXCEPT !.decls = Insert(@, One(call.name, call.thing))]
    OBVIOUS
  <1>3. Top \in LocalCtx /\ Top.decls \in Declarations /\ Top.ran \in Seq(Efforts)
    BY TopType DEF Inv, LocalCtx
  <1>4. Insert(Top.decls, One(call.name, call.thing)) \in Declarations
    BY <1>1, <1>3, OneType, InsertType
  <1>5. /\ c \in LocalCtx /\ c.file = Top.file /\ c.op = Top.op /\ c.todo = Top.todo
        /\ c.imported = Top.imported /\ c.exported = Top.exported
        /\ c.decls = Insert(Top.decls, One(call.name, call.thing)) /\ c.ran = Top.ran
    BY <1>2, <1>3, <1>4 DEF LocalCtx
  <1>6. /\ Declares(<<call>>) = One(call.name, call.thing) /\ Runs(<<call>>) = <<>>
    BY <1>1, MeaningOfOne DEF Declared, RunBy
  <1>7. c.ran = Top.ran \o Runs(<<call>>)
    BY <1>3, <1>5, <1>6, ConcatEmptySeq
  <1>8. ASSUME Exports(Top)
        PROVE  /\ Given(data[Top.file], e, <<call>>)
               /\ [data EXCEPT ![Top.file] = e]
                    = [data EXCEPT ![Top.file].decls
                                        = Insert(@, One(call.name, call.thing))]
    <2>1. PICK e0 \in ExportData : e0 = data[Top.file]
      BY <1>8, StackFacts DEF Exports
    <2>2. e0.efforts \in Seq(Efforts)
      BY DEF ExportData
    <2>3. /\ e.known = e0.known /\ e.efforts = e0.efforts
          /\ e.decls = Insert(e0.decls, One(call.name, call.thing))
      BY <1>2, <2>1 DEF ExportData
    <2>4. e0.efforts \o <<>> = e0.efforts
      BY <2>2, ConcatEmptySeq
    <2> QED
      BY <1>2, <1>6, <2>1, <2>3, <2>4 DEF Given
  <1>9. stack' = Append(Below, Goes(c)) /\ tree' = tree
    BY <1>1, <1>2 DEF Export
  <1>10. data' = IF Exports(Top) THEN [data EXCEPT ![Top.file] = e] ELSE data
    BY <1>1, <1>8 DEF Export
  <1>11. ~IsImport(call) /\ call.op \in {"export", "export_effort"}
    BY <1>1 DEF IsImport
  <1> QED
    BY <1>1, <1>5, <1>6, <1>7, <1>8, <1>9, <1>10, <1>11, PlainAdvances

\* An effort more is a call more that runs it.
LEMMA EffortMeans ==
    ASSUME NEW call \in Call, call.op \in {"add_effort", "export_effort"}
    PROVE  /\ call.effort \in Efforts
           /\ Declares(<<call>>) = NoDecls /\ Runs(<<call>>) = <<call.effort>>
           /\ \A r \in Seq(Efforts) : Append(r, call.effort) = r \o <<call.effort>>
  <1>1. call.effort \in Efforts
    BY CallTypes
  <1>2. \A r \in Seq(Efforts) : Append(r, call.effort) = r \o <<call.effort>>
    BY <1>1, AppendIsConcat
  <1>3. Declares(<<call>>) = NoDecls /\ Runs(<<call>>) = <<call.effort>>
    BY MeaningOfOne DEF Declared, RunBy
  <1> QED
    BY <1>1, <1>2, <1>3

\* add_effort
LEMMA AddEffortMeans ==
    ASSUME Inv, Downwards(tree), Meant, AddEffort PROVE Advances(Len(stack))
  <1>1. PICK call \in Call :
            call = Head(Top.todo) /\ call.op = "add_effort" /\ Top.todo # <<>>
    BY CallingType DEF AddEffort, Inv
  <1>2. PICK c : c = [Top EXCEPT !.ran = Append(@, call.effort)]
    OBVIOUS
  <1>3. Top \in LocalCtx /\ Top.decls \in Declarations /\ Top.ran \in Seq(Efforts)
    BY TopType DEF Inv, LocalCtx
  <1>4. Append(Top.ran, call.effort) \in Seq(Efforts)
    BY <1>1, <1>3, EffortMeans, AppendProperties
  <1>5. /\ c \in LocalCtx /\ c.file = Top.file /\ c.op = Top.op /\ c.todo = Top.todo
        /\ c.imported = Top.imported /\ c.exported = Top.exported
        /\ c.decls = Top.decls /\ c.ran = Append(Top.ran, call.effort)
    BY <1>2, <1>3, <1>4 DEF LocalCtx
  <1>6. /\ c.decls = Insert(Top.decls, Declares(<<call>>))
        /\ c.ran = Top.ran \o Runs(<<call>>)
    BY <1>1, <1>3, <1>5, EffortMeans, InsertLaws
  <1>7. stack' = Append(Below, Goes(c)) /\ tree' = tree /\ data' = data
    BY <1>1, <1>2 DEF AddEffort
  <1>8. ~IsImport(call) /\ call.op \notin {"export", "export_effort"}
    BY <1>1 DEF IsImport
  <1> QED
    BY <1>1, <1>5, <1>6, <1>7, <1>8, PlainAdvances

\* export_effort
LEMMA ExportEffortMeans ==
    ASSUME Inv, Downwards(tree), Meant, ExportEffort PROVE Advances(Len(stack))
  <1>1. PICK call \in Call :
            call = Head(Top.todo) /\ call.op = "export_effort" /\ Top.todo # <<>>
    BY CallingType DEF ExportEffort, Inv
  <1>2. PICK c, e :
            /\ c = [Top EXCEPT !.ran = Append(@, call.effort)]
            /\ e = [data[Top.file] EXCEPT !.efforts = Append(@, call.effort)]
    OBVIOUS
  <1>3. Top \in LocalCtx /\ Top.decls \in Declarations /\ Top.ran \in Seq(Efforts)
    BY TopType DEF Inv, LocalCtx
  <1>4. Append(Top.ran, call.effort) \in Seq(Efforts)
    BY <1>1, <1>3, EffortMeans, AppendProperties
  <1>5. /\ c \in LocalCtx /\ c.file = Top.file /\ c.op = Top.op /\ c.todo = Top.todo
        /\ c.imported = Top.imported /\ c.exported = Top.exported
        /\ c.decls = Top.decls /\ c.ran = Append(Top.ran, call.effort)
    BY <1>2, <1>3, <1>4 DEF LocalCtx
  <1>6. /\ c.decls = Insert(Top.decls, Declares(<<call>>))
        /\ c.ran = Top.ran \o Runs(<<call>>)
    BY <1>1, <1>3, <1>5, EffortMeans, InsertLaws
  <1>7. ASSUME Exports(Top)
        PROVE  /\ Given(data[Top.file], e, <<call>>)
               /\ [data EXCEPT ![Top.file] = e]
                    = [data EXCEPT ![Top.file].efforts = Append(@, call.effort)]
    <2>1. PICK e0 \in ExportData : e0 = data[Top.file]
      BY <1>7, StackFacts DEF Exports
    <2>2. e0.efforts \in Seq(Efforts) /\ e0.decls \in Declarations
      BY DEF ExportData
    <2>3. /\ e.known = e0.known /\ e.efforts = Append(e0.efforts, call.effort)
          /\ e.decls = e0.decls
      BY <1>2, <2>1 DEF ExportData
    <2>4. /\ e.efforts = e0.efforts \o Runs(<<call>>)
          /\ e.decls = Insert(e0.decls, Declares(<<call>>))
      BY <1>1, <2>2, <2>3, EffortMeans, InsertLaws
    <2> QED
      BY <1>2, <2>1, <2>3, <2>4 DEF Given
  <1>8. stack' = Append(Below, Goes(c)) /\ tree' = tree
    BY <1>1, <1>2 DEF ExportEffort
  <1>9. data' = IF Exports(Top) THEN [data EXCEPT ![Top.file] = e] ELSE data
    BY <1>1, <1>7 DEF ExportEffort
  <1>10. ~IsImport(call) /\ call.op \in {"export", "export_effort"}
    BY <1>1 DEF IsImport
  <1> QED
    BY <1>1, <1>5, <1>6, <1>7, <1>8, <1>9, <1>10, PlainAdvances

\* The fields of a context that imports f, whether or not it did before.
LEMMA ReimportedKeeps ==
    ASSUME NEW c \in LocalCtx, NEW f \in Files, data[f] \in ExportData,
           NEW d, d = Reimported(c, f)
    PROVE  /\ d.op = c.op /\ d.exported = c.exported /\ d.imported = c.imported \cup {f}
           /\ d.decls = IF f \in c.imported THEN c.decls ELSE Insert(c.decls, data[f].decls)
           /\ d.ran = IF f \in c.imported THEN c.ran ELSE c.ran \o data[f].efforts
  BY DEF Reimported, Receive, LocalCtx

\* v_import of a known file
LEMMA ImportKnownMeans ==
    ASSUME Inv, Downwards(tree), Meant, ImportKnown PROVE Advances(Len(stack))
  <1>1. PICK f \in Files : /\ Importing("v_import", f) /\ data[f].known
                           /\ stack' = Append(Below, Goes(Reimported(Top, f)))
                           /\ tree' = tree /\ data' = data
    BY DEF ImportKnown
  <1>2. PICK call \in Call :
            call = Head(Top.todo) /\ call.op = "v_import" /\ Top.todo # <<>> /\ f = call.file
    BY <1>1, CallingType DEF Importing, Inv
  <1>3. Imports(call, f) /\ IsImport(call)
    BY <1>2 DEF Imports, IsImport
  <1>4. DataMeans(tree, data[f], f, Len(tree[f]))
    BY <1>1, <1>2, <1>3, KnownHasRun DEF Meant
  <1>5. Top \in LocalCtx /\ data[f] \in ExportData /\ TypeOK
    BY TopType, StackFacts DEF Inv
  <1>6. PICK c \in LocalCtx : c = Reimported(Top, f) /\ c.file = Top.file /\ c.todo = Top.todo
    BY <1>5, ReimportedType
  <1>7. PICK m \in 1..Len(stack) : m = Len(stack) /\ stack[m] = Top
    BY StackSize
  <1>8. call.op # "v_export_import"
    BY <1>2
  <1>9. Receives(Top, c, call)
    BY <1>2, <1>5, <1>6, <1>8, ReimportedKeeps DEF Receives
  <1>10. PassesOn(Top, call)
    BY <1>1, <1>8 DEF PassesOn
  <1>11. stack' = Append(SubSeq(stack, 1, m - 1), Goes(c))
    BY <1>1, <1>6, <1>7 DEF Below
  <1>12. data[call.file].known /\ DataMeans(tree, data[call.file], call.file, Len(tree[call.file]))
    BY <1>1, <1>2, <1>4
  <1>13. Advances(m)
    BY <1>1, <1>2, <1>3, <1>6, <1>7, <1>9, <1>10, <1>11, <1>12, ImportReceives
  <1> QED
    BY <1>7, <1>13

\* v_export_import of a known file
LEMMA ExportImportKnownMeans ==
    ASSUME Inv, Downwards(tree), Meant, ExportImportKnown PROVE Advances(Len(stack))
  <1>1. PICK f \in Files :
            /\ Importing("v_export_import", f) /\ data[f].known
            /\ stack' = Append(Below, Goes(MarkExported(Reimported(Top, f), f)))
            /\ tree' = tree /\ data' = ReExported(Top, f)
    BY DEF ExportImportKnown
  <1>2. PICK call \in Call :
            /\ call = Head(Top.todo) /\ call.op = "v_export_import" /\ Top.todo # <<>>
            /\ f = call.file
    BY <1>1, CallingType DEF Importing, Inv
  <1>3. Imports(call, f) /\ IsImport(call)
    BY <1>2 DEF Imports, IsImport
  <1>4. DataMeans(tree, data[f], f, Len(tree[f]))
    BY <1>1, <1>2, <1>3, KnownHasRun DEF Meant
  <1>5. Top \in LocalCtx /\ data[f] \in ExportData /\ TypeOK
    BY TopType, StackFacts DEF Inv
  <1>6. PICK b \in LocalCtx : b = Reimported(Top, f) /\ b.file = Top.file /\ b.todo = Top.todo
    BY <1>5, ReimportedType
  <1>7. /\ b.op = Top.op /\ b.exported = Top.exported /\ b.imported = Top.imported \cup {f}
        /\ b.decls = IF f \in Top.imported THEN Top.decls ELSE Insert(Top.decls, data[f].decls)
        /\ b.ran = IF f \in Top.imported THEN Top.ran ELSE Top.ran \o data[f].efforts
    BY <1>5, <1>6, ReimportedKeeps
  <1>8. PICK c \in LocalCtx : c = MarkExported(b, f)
    BY <1>6, MarkType
  <1>9. /\ c.file = Top.file /\ c.todo = Top.todo /\ c.op = Top.op /\ c.imported = b.imported
        /\ c.decls = b.decls /\ c.ran = b.ran
        /\ c.exported = IF Exports(Top) THEN Top.exported \cup {f} ELSE Top.exported
    BY <1>6, <1>7, <1>8 DEF MarkExported, Exports, LocalCtx
  <1>10. PICK m \in 1..Len(stack) : m = Len(stack) /\ stack[m] = Top
    BY StackSize
  <1>11. Receives(Top, c, call)
    BY <1>2, <1>7, <1>9 DEF Receives
  <1>12. PassesOn(Top, call)
    BY <1>1, <1>2 DEF PassesOn, ReExported
  <1>13. stack' = Append(SubSeq(stack, 1, m - 1), Goes(c))
    BY <1>1, <1>6, <1>8, <1>10 DEF Below
  <1>14. data[call.file].known /\ DataMeans(tree, data[call.file], call.file, Len(tree[call.file]))
    BY <1>1, <1>2, <1>4
  <1>15. Advances(m)
    BY <1>1, <1>2, <1>3, <1>8, <1>10, <1>11, <1>12, <1>13, <1>14, ImportReceives
  <1> QED
    BY <1>10, <1>15

\* The end of an import: the innermost file has made all its calls, and the
\* importer has not noted it yet, since only then a file runs.
LEMMA ImportEndMeans ==
    ASSUME Inv, Downwards(tree), Meant, ImportEnd
    PROVE  \E m : /\ m = Len(stack) - 1 /\ Top.todo = <<>>
                  /\ Advances(m)
  <1>1. PICK n \in Nat : n = Len(stack) /\ DOMAIN stack = 1..n /\ stack[n] = Top /\ n \in 1..n
    BY StackSize
  <1>2. n > 1 /\ Top.todo = <<>>
    BY <1>1 DEF ImportEnd
  <1>3. PICK m \in 1..n : m = n - 1 /\ m + 1 = n /\ m \in 1..(n - 1) /\ n \in 2..n
    <2>1. n - 1 \in 1..n /\ n - 1 + 1 = n /\ n - 1 \in 1..(n - 1) /\ n \in 2..n
      BY <1>2
    <2> QED
      BY <2>1
  <1>4. PICK p \in LocalCtx : p = stack[m] /\ CtxMeans(tree, p) /\ p.todo # <<>>
    BY <1>1, <1>3, StackFacts DEF Meant, Inv, CallPending
  <1>5. /\ tree \in SourceTree /\ Top \in LocalCtx /\ Top.file \in Files
        /\ data \in [Files -> ExportData]
    BY <1>1, <1>3, StackFacts DEF Inv, FilesAbove
  <1>6. PICK call : call = Head(p.todo)
    OBVIOUS
  <1>7. PICK f \in Files : f = Top.file
    BY <1>5
  <1>8. /\ call = [op |-> Top.op, file |-> f] /\ f \notin p.imported
        /\ Top.op \in {"v_import", "v_export_import"}
    BY <1>1, <1>3, <1>4, <1>5, <1>6, <1>7 DEF Meant, Pending, LocalCtx
  <1>9. IsImport(call) /\ call.file = f /\ call.op = Top.op
    BY <1>8 DEF IsImport
  <1>10. f \notin p.exported
    BY <1>8, <1>4 DEF CtxMeans, ReExportedBy, ImportedBy, Imports, IsImport
  <1>11. data[f].known
    BY <1>1, <1>6, <1>7 DEF Inv, RunningKnown
  <1>12. DataMeans(tree, data[f], f, Len(tree[f]))
    <2>1. DataMeans(tree, data[f], f, Made(tree, Top))
      BY <1>1, <1>5, <1>6, <1>7 DEF Meant
    <2>2. Len(tree[f]) \in Nat
      BY <1>5, CallsOf DEF Contexts
    <2>3. Made(tree, Top) = Len(tree[f]) - Len(<<>>)
      BY <1>2, <1>6, <1>7 DEF Made
    <2>4. Len(<<>>) = 0
      BY EmptySeq
    <2>5. Made(tree, Top) = Len(tree[f])
      BY <2>2, <2>3, <2>4
    <2> QED
      BY <2>1, <2>5
  <1>13. PICK exports \in BOOLEAN : exports <=> Top.op = "v_export_import" /\ Exports(p)
    BY Zenon
  <1>14. PICK r \in LocalCtx : r = Receive(p, data[f]) /\ r.file = p.file /\ r.todo = p.todo
    BY <1>5, ReceiveType
  <1>15. /\ r.op = p.op /\ r.imported = p.imported /\ r.exported = p.exported
         /\ r.decls = Insert(p.decls, data[f].decls) /\ r.ran = p.ran \o data[f].efforts
    BY <1>14 DEF Receive, LocalCtx
  <1>16. PICK c1 \in LocalCtx : c1 = [r EXCEPT !.imported = @ \cup {f}]
    BY MarkType
  <1>17. /\ c1.file = p.file /\ c1.op = p.op /\ c1.todo = p.todo
         /\ c1.imported = p.imported \cup {f} /\ c1.exported = p.exported
         /\ c1.decls = Insert(p.decls, data[f].decls) /\ c1.ran = p.ran \o data[f].efforts
    BY <1>14, <1>15, <1>16 DEF LocalCtx
  <1>18. PICK c \in LocalCtx : c = IF exports THEN MarkExported(c1, f) ELSE c1
    BY MarkType
  <1>19. Receives(p, c, call)
    <2>1. CASE exports
      <3>1. c = [c1 EXCEPT !.exported = @ \cup {f}]
        BY <1>13, <1>17, <1>18, <2>1 DEF MarkExported, Exports
      <3>2. /\ c.file = p.file /\ c.op = p.op /\ c.todo = p.todo
            /\ c.imported = p.imported \cup {f} /\ c.exported = p.exported \cup {f}
            /\ c.decls = Insert(p.decls, data[f].decls) /\ c.ran = p.ran \o data[f].efforts
        BY <1>17, <3>1 DEF LocalCtx
      <3> QED
        BY <1>8, <1>9, <1>13, <2>1, <3>2 DEF Receives
    <2>2. CASE ~exports
      BY <1>8, <1>9, <1>13, <1>17, <1>18, <2>2 DEF Receives
    <2> QED
      BY <2>1, <2>2
  <1>20. /\ tree' = tree
         /\ stack' = Append(SubSeq(stack, 1, m - 1), Goes(c))
         /\ data' = IF exports THEN [data EXCEPT ![p.file] = Pass(data[p.file], data[f])]
                    ELSE data
    <2>1. Len(stack) - 1 = m /\ Len(stack) - 2 = m - 1
      BY <1>1, <1>3
    <2>2. tree' = tree
      BY DEF ImportEnd
    <2>3. stack' = Append(SubSeq(stack, 1, m - 1), Goes(c))
      <3>1. stack' = Append(SubSeq(stack, 1, Len(stack) - 2),
                            Goes(IF Top.op = "v_export_import" /\ Exports(stack[Len(stack) - 1])
                                 THEN MarkExported([Receive(stack[Len(stack) - 1], data[Top.file])
                                                EXCEPT !.imported = @ \cup {Top.file}], Top.file)
                                 ELSE [Receive(stack[Len(stack) - 1], data[Top.file])
                                                EXCEPT !.imported = @ \cup {Top.file}]))
        BY DEF ImportEnd
      <3>2. stack' = Append(SubSeq(stack, 1, m - 1),
                            Goes(IF Top.op = "v_export_import" /\ Exports(p)
                                 THEN MarkExported(c1, f) ELSE c1))
        BY <1>4, <1>6, <1>7, <1>14, <1>16, <2>1, <3>1
      <3> QED
        BY <1>13, <1>18, <3>2
    <2>4. data' = IF exports THEN [data EXCEPT ![p.file] = Pass(data[p.file], data[f])]
                  ELSE data
      <3>1. data' = IF Top.op = "v_export_import" /\ Exports(stack[Len(stack) - 1])
                    THEN [data EXCEPT ![stack[Len(stack) - 1].file] =
                                Pass(data[stack[Len(stack) - 1].file], data[Top.file])]
                    ELSE data
        BY DEF ImportEnd
      <3> QED
        BY <1>4, <1>6, <1>7, <1>13, <2>1, <3>1
    <2> QED
      BY <2>2, <2>3, <2>4
  <1>21. PassesOn(p, call)
    BY <1>9, <1>10, <1>13, <1>20 DEF PassesOn
  <1>22. Advances(m)
    <2>1. m \in 1..Len(stack) /\ p = stack[m] /\ p.todo # <<>> /\ call = Head(p.todo)
      BY <1>1, <1>4, <1>6, <1>7
    <2>2. /\ call.file \in Files /\ data[call.file].known
          /\ DataMeans(tree, data[call.file], call.file, Len(tree[call.file]))
      BY <1>9, <1>11, <1>12
    <2> QED
      BY <1>9, <1>19, <1>20, <1>21, <2>1, <2>2, ImportReceives
  <1> QED
    BY <1>1, <1>2, <1>3, <1>22

\* A file that has made no call yet.
LEMMA NothingYet ==
    ASSUME NEW t \in SourceTree, Downwards(t), NEW f \in Contexts, NEW c,
           c.file = f, c.todo = t[f], c.decls = NoDecls, c.ran = <<>>,
           c.imported = {}, c.exported = {}
    PROVE  CtxMeans(t, c) /\ Made(t, c) = 0
  <1>1. PICK n \in Nat : n = Len(t[f])
    BY CallsOf
  <1>2. Made(t, c) = 0
    BY <1>1 DEF Made
  <1>3. Progress(t, c)
    BY <1>1, <1>2 DEF Progress
  <1>4. InScope(t, f, 0) = <<>>
    BY ScopeGrows
  <1>5. \A calls : ImportedBy(calls, 0) = {} /\ ReExportedBy(calls, 0) = {}
    BY DEF ImportedBy, ReExportedBy
  <1> QED
    BY <1>2, <1>3, <1>4, <1>5, DeclaresAppend, RunsAppend DEF CtxMeans

\* An import that runs the file
LEMMA ImportFirstMeant ==
    ASSUME Inv, Inv', Downwards(tree), Meant, ImportFirst PROVE Meant'
  <1>1. PICK f \in Files, op \in {"v_import", "v_export_import"} :
            /\ Importing(op, f) /\ ~data[f].known
            /\ data' = [data EXCEPT ![f].known = TRUE]
            /\ stack' = Append(stack, NewCtx(f, op))
            /\ tree' = tree
    BY DEF ImportFirst
  <1>2. PICK n \in Nat : n = Len(stack) /\ DOMAIN stack = 1..n /\ stack[n] = Top /\ n \in 1..n
    BY StackSize
  <1>3. PICK t \in SourceTree : t = tree /\ Downwards(t)
    BY StackFacts
  <1>4. PICK c : c = NewCtx(f, op)
    OBVIOUS
  <1>5. /\ c.file = f /\ c.op = op /\ c.todo = t[f] /\ c.decls = NoDecls /\ c.ran = <<>>
        /\ c.imported = {} /\ c.exported = {}
    BY <1>3, <1>4 DEF NewCtx
  <1>6. PICK l \in 1..(n + 1) : l = n + 1
    BY <1>2
  <1>7. /\ Len(stack') = l /\ DOMAIN stack' = 1..l /\ stack'[l] = c
        /\ \A i \in 1..n : stack'[i] = stack[i]
    <2>1. \A i \in 1..n : stack[i] \in LocalCtx
      BY <1>2, StackFacts
    <2>2. stack \in Seq(LocalCtx) /\ stack' \in Seq(LocalCtx)
      BY DEF Inv, TypeOK
    <2>3. stack' = Append(stack, c)
      BY <1>1, <1>4
    <2>4. stack \in Seq(LocalCtx \cup {c})
      BY <2>1, <2>2, <1>2, LenProperties, SeqDef
    <2>5. /\ Len(stack') = n + 1 /\ stack'[n + 1] = c
          /\ \A i \in 1..n : stack'[i] = stack[i]
      BY <1>2, <2>3, <2>4, AppendProperties
    <2>6. DOMAIN stack' = 1..Len(stack')
      BY <2>2, LenProperties
    <2> QED
      BY <1>6, <2>5, <2>6
  <1>8. CtxMeans(t, c) /\ Made(t, c) = 0
    BY <1>3, <1>5, NothingYet DEF Contexts
  <1>9. data[f] = NoData
    BY <1>1 DEF Meant
  <1>10. /\ data'[f].known /\ data'[f].decls = NoDecls /\ data'[f].efforts = <<>>
         /\ \A g \in Files : g # f => data'[g] = data[g]
    BY <1>1, <1>9, StackFacts DEF NoData, ExportData
  <1>11. \A i \in 1..n : stack[i].file # f
    BY <1>1, <1>2 DEF Inv, RunningKnown
  <1>12. \A i \in 1..l : i \in 1..n \/ i = l
    BY <1>2, <1>6
  <1>13. ASSUME NEW i \in 1..l PROVE CtxMeans(t, stack'[i])
    <2>1. i \in 1..n => CtxMeans(t, stack[i])
      BY <1>2, <1>3 DEF Meant
    <2> QED
      BY <1>7, <1>8, <1>12, <2>1
  <1>14. ASSUME NEW i \in 1..l, stack'[i].file \in Files
         PROVE  DataMeans(t, data'[stack'[i].file], stack'[i].file, Made(t, stack'[i]))
    <2>1. CASE i = l
      <3>1. ExportsUpTo(t, f, 0) = <<>>
        BY <1>3, ExportsGrow
      <3>2. DataMeans(t, data'[f], f, 0)
        BY <1>10, <3>1, DeclaresAppend, RunsAppend DEF DataMeans
      <3> QED
        BY <1>5, <1>7, <1>8, <2>1, <3>2
    <2>2. CASE i \in 1..n
      <3>1. stack'[i] = stack[i] /\ stack[i].file # f
        BY <1>7, <1>11, <2>2
      <3>2. data'[stack[i].file] = data[stack[i].file]
        BY <1>10, <1>14, <3>1
      <3>3. DataMeans(t, data[stack[i].file], stack[i].file, Made(t, stack[i]))
        BY <1>2, <1>3, <1>14, <2>2, <3>1 DEF Meant
      <3> QED
        BY <3>1, <3>2, <3>3
    <2> QED
      BY <1>12, <2>1, <2>2
  <1>15. ASSUME NEW g \in Files, ~data'[g].known PROVE data'[g] = NoData
    BY <1>10, <1>15 DEF Meant
  <1>16. ASSUME NEW g \in Files, data'[g].known, \A i \in 1..l : stack'[i].file # g
         PROVE  DataMeans(t, data'[g], g, Len(t[g]))
    <2>1. g # f
      BY <1>5, <1>6, <1>7, <1>16
    <2>2. \A i \in 1..n : i \in 1..l
      BY <1>6
    <2>3. ~OnStack(g)
      BY <1>2, <1>7, <1>16, <2>2 DEF OnStack
    <2>4. data'[g] = data[g] /\ data[g].known
      BY <1>10, <1>16, <2>1
    <2> QED
      BY <1>3, <2>3, <2>4 DEF Meant, Finished
  <1>17. ASSUME NEW i \in 1..(l - 1) PROVE Pending(stack'[i], stack'[i + 1])
    <2>1. i \in 1..n /\ stack'[i] = stack[i]
      BY <1>6, <1>7
    <2>2. CASE i = n
      <3>1. i + 1 = l /\ stack'[i + 1] = c /\ stack'[i] = Top
        BY <1>2, <1>6, <1>7, <2>1, <2>2
      <3>2. PICK call \in Call : call = Head(Top.todo) /\ call.op = op /\ call.file = f
        BY <1>1, CallingType DEF Importing, Inv
      <3>3. call = [op |-> op, file |-> f]
        BY <3>2, CallKinds DEF IsImport
      <3>4. f \notin Top.imported
        BY <1>1, <1>2 DEF Meant
      <3> QED
        BY <1>5, <3>1, <3>2, <3>3, <3>4 DEF Pending
    <2>3. CASE i # n
      <3>1. i \in 1..(n - 1) /\ i + 1 \in 1..n
        BY <1>2, <2>1, <2>3
      <3>2. Pending(stack[i], stack[i + 1])
        BY <1>2, <3>1 DEF Meant
      <3> QED
        BY <1>7, <2>1, <3>1, <3>2
    <2> QED
      BY <2>2, <2>3
  <1>18. ASSUME NEW i \in 1..l, NEW g \in stack'[i].imported PROVE data'[g].known
    <2>1. i \in 1..n /\ stack'[i] = stack[i]
      BY <1>5, <1>7, <1>12, <1>18
    <2>2. stack[i] \in LocalCtx /\ data[g].known
      BY <1>2, <1>18, <2>1, StackFacts DEF Meant
    <2>3. g \in Files
      BY <1>18, <2>1, <2>2 DEF LocalCtx
    <2> QED
      BY <1>10, <2>2, <2>3
  <1>19. tree' = t
    BY <1>1, <1>3
  <1> QED
    BY <1>7, <1>13, <1>14, <1>15, <1>16, <1>17, <1>18, <1>19, Zenon
       DEF Meant, Finished, OnStack

\* The program has made no call yet, and no file is known.
LEMMA InitMeant == ASSUME Init, Downwards(tree) PROVE Meant
  <1>1. Inv
    BY InitInv
  <1>2. PICK c : /\ stack = <<c>> /\ c.file = Main /\ c.todo = tree[Main]
                 /\ c.decls = NoDecls /\ c.ran = <<>> /\ c.imported = {} /\ c.exported = {}
    BY DEF Init
  <1>3. Len(stack) = 1 /\ DOMAIN stack = {1} /\ stack[1] = c
    BY <1>2
  <1>4. tree \in SourceTree
    BY <1>1, StackFacts
  <1>5. CtxMeans(tree, c)
    BY <1>2, <1>4, NothingYet DEF Contexts
  <1>6. \A f \in Files : data[f] = NoData /\ ~data[f].known
    BY DEF Init, NoData
  <1>7. \A i \in DOMAIN stack : i = 1 /\ stack[i] = c
    BY <1>3
  <1>8. 1..(Len(stack) - 1) = {}
    BY <1>3
  <1> QED
    BY <1>2, <1>5, <1>6, <1>7, <1>8, MainAssumption DEF Meant, Finished

\* The invariant is inductive for trees that import downwards.
LEMMA MeantStep ==
    ASSUME Inv, Inv', Downwards(tree) => Meant, [Next]_vars
    PROVE  (Downwards(tree) => Meant)'
  <1>1. tree' = tree
    BY DEF Next, Add, Export, AddEffort, ExportEffort, ImportKnown, ExportImportKnown,
           ImportFirst, ImportEnd, vars
  <1>2. SUFFICES ASSUME Downwards(tree) PROVE Meant'
    BY <1>1
  <1>3. Meant
    BY <1>2
  <1>4. Len(stack) = Len(stack) \/ (Len(stack) = Len(stack) - 1 /\ Top.todo = <<>>)
    OBVIOUS
  <1>5. CASE Add
    BY <1>2, <1>3, <1>4, <1>5, AddMeans, AdvancesMeant
  <1>6. CASE Export
    BY <1>2, <1>3, <1>4, <1>6, ExportMeans, AdvancesMeant
  <1>7. CASE AddEffort
    BY <1>2, <1>3, <1>4, <1>7, AddEffortMeans, AdvancesMeant
  <1>8. CASE ExportEffort
    BY <1>2, <1>3, <1>4, <1>8, ExportEffortMeans, AdvancesMeant
  <1>9. CASE ImportKnown
    BY <1>2, <1>3, <1>4, <1>9, ImportKnownMeans, AdvancesMeant
  <1>10. CASE ExportImportKnown
    BY <1>2, <1>3, <1>4, <1>10, ExportImportKnownMeans, AdvancesMeant
  <1>11. CASE ImportFirst
    BY <1>2, <1>3, <1>11, ImportFirstMeant
  <1>12. CASE ImportEnd
    BY <1>2, <1>3, <1>12, ImportEndMeans, AdvancesMeant
  <1>13. CASE UNCHANGED vars
    BY <1>3, <1>13 DEF vars, Meant, Finished, OnStack
  <1> QED
    BY <1>5, <1>6, <1>7, <1>8, <1>9, <1>10, <1>11, <1>12, <1>13 DEF Next

\* It holds in every state.
LEMMA MeantInvariant == Spec => [](Inv /\ (Downwards(tree) => Meant))
  <1> DEFINE IMeant == Inv /\ (Downwards(tree) => Meant)
  <1>1. Init => IMeant
    BY InitInv, InitMeant
  <1>2. IMeant /\ [Next]_vars => IMeant'
    BY NextInv, MeantStep
  <1> QED
    BY <1>1, <1>2, PTL DEF Spec

\* In trees without import circles every context holds, at every moment, what
\* its own calls mean: it does not matter which files other contexts imported
\* before, nor which way through v_import_helper each import took.
THEOREM ScopesAreMeant == Spec => []ScopesMean
  <1>1. Inv /\ (Downwards(tree) => Meant) => ScopesMean
    BY DEF Meant, CtxMeans, ScopesMean
  <1> QED
    BY <1>1, MeantInvariant, PTL

\* In such trees a file leaves in tctx.imported what its own calls mean,
\* whoever imported it first.
THEOREM ExportsAreMeant == Spec => []ExportsMean
  <1>1. ASSUME Inv, Downwards(tree) => Meant PROVE ExportsMean
    <2>1. ASSUME Downwards(tree), NEW f \in Files, Finished(f)
          PROVE  /\ data[f].decls = Declares(Exported(tree)[f])
                 /\ data[f].efforts = Runs(Exported(tree)[f])
      <3>1. tree \in SourceTree /\ DataMeans(tree, data[f], f, Len(tree[f]))
        BY <1>1, <2>1, StackFacts DEF Meant
      <3> QED
        BY <2>1, <3>1, DataWhole
    <2> QED
      BY <2>1 DEF ExportsMean
  <1>2. Inv /\ (Downwards(tree) => Meant) => ExportsMean
    BY <1>1
  <1> QED
    BY <1>2, MeantInvariant, PTL
=============================================================================
