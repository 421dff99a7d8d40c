--------------------------- MODULE JitScopesProofs ---------------------------
(***************************************************************************)
(* JitSymbols implements SymbolScopes, for any names and objects and any    *)
(* number of definitions, contexts and scopes: the deques of dylibs, their  *)
(* base_jd and the symbols that wait mean scopes of names, and every step   *)
(* on them is a step on scopes, or none.                                    *)
(***************************************************************************)
EXTENDS JitSymbolsProofs

(***************************************************************************)
(* The symbols of a sequence of modules, of code c.                         *)
(***************************************************************************)

Row(c, d) == [n \in Names |-> IF n \in c[d].defs THEN d ELSE None]
Plain(c, s) == [i \in DOMAIN s |-> Row(c, s[i])]

\* The module that defines a name.
First(c, s, n) == Found(Plain(c, s), n)

LEMMA PlainType ==
    ASSUME NEW c \in [Definition -> Module], NEW s \in Seq(Definition)
    PROVE  /\ Plain(c, s) \in Seq(Table) /\ Len(Plain(c, s)) = Len(s) /\ Len(s) \in Nat
           /\ DOMAIN s = 1 .. Len(s) /\ DOMAIN Plain(c, s) = 1 .. Len(s)
           /\ \A i \in DOMAIN s : Plain(c, s)[i] = Row(c, s[i])
           /\ \A n \in Names : First(c, s, n) \in Value
  <1>1. /\ Len(s) \in Nat /\ DOMAIN s = 1 .. Len(s) /\ \A i \in DOMAIN s : s[i] \in Definition
    BY LenProperties, ElementOfSeq
  <1>2. ASSUME NEW i \in DOMAIN s
        PROVE  Row(c, s[i]) \in Table
    BY <1>1 DEF Row, Table
  <1>3. Plain(c, s) \in [1 .. Len(s) -> Table]
    BY <1>1, <1>2 DEF Plain
  <1>4. Plain(c, s) \in Seq(Table) /\ Len(Plain(c, s)) = Len(s)
    BY <1>1, <1>3, SeqDef, LenProperties
  <1>5. \A n \in Names : First(c, s, n) \in Value
    BY <1>4, FoundType DEF First
  <1> QED
    BY <1>1, <1>3, <1>4, <1>5 DEF Plain

LEMMA Behind ==
    ASSUME NEW S, NEW s \in Seq(S), NEW e \in S
    PROVE  /\ s \o <<e>> \in Seq(S) /\ Len(s) \in Nat /\ Len(s \o <<e>>) = Len(s) + 1
           /\ DOMAIN (s \o <<e>>) = 1 .. Len(s) + 1
           /\ \A i \in 1 .. Len(s) : (s \o <<e>>)[i] = s[i]
           /\ (s \o <<e>>)[Len(s) + 1] = e
  <1> DEFINE one == <<e>>
  <1>1. Len(one) = 1 /\ one[1] = e
    OBVIOUS
  <1>2. one \in Seq(S)
    OBVIOUS
  <1> HIDE DEF one
  <1> DEFINE u == s \o one
  <1>3. /\ u \in Seq(S) /\ Len(s) \in Nat /\ Len(u) = Len(s) + Len(one)
        /\ DOMAIN u = 1 .. Len(s) + Len(one)
        /\ \A i \in 1 .. Len(s) : u[i] = s[i]
        /\ \A i \in 1 .. Len(one) : u[i + Len(s)] = one[i]
    BY <1>2, Joined
  <1> HIDE DEF u
  <1>4. 1 + Len(s) = Len(s) + 1 /\ 1 \in 1 .. Len(one) /\ Len(s) + Len(one) = Len(s) + 1
    BY <1>1, <1>3
  <1>5. u[Len(s) + 1] = e
    BY <1>1, <1>3, <1>4
  <1> QED
    BY <1>3, <1>4, <1>5 DEF u, one

\* A module in front.
LEMMA PlainBefore ==
    ASSUME NEW c \in [Definition -> Module], NEW s \in Seq(Definition), NEW m \in Definition,
           NEW n \in Names
    PROVE  First(c, <<m>> \o s, n) = IF n \in c[m].defs THEN m ELSE First(c, s, n)
  <1> DEFINE row == Row(c, m)
  <1> DEFINE u == <<m>> \o s
  <1> DEFINE v == <<row>> \o Plain(c, s)
  <1>1. row \in Table /\ row[n] = IF n \in c[m].defs THEN m ELSE None
    BY DEF Row, Table
  <1>2. m # None
    BY DEF Definition, None
  <1>3. /\ u \in Seq(Definition) /\ Len(s) \in Nat /\ Len(u) = Len(s) + 1 /\ DOMAIN u = 1 .. Len(s) + 1
        /\ u[1] = m
        /\ \A i \in DOMAIN u : i # 1 => i - 1 \in 1 .. Len(s) /\ u[i] = s[i - 1]
    BY Before
  <1>4. /\ Plain(c, s) \in Seq(Table) /\ Len(Plain(c, s)) = Len(s) /\ DOMAIN s = 1 .. Len(s)
        /\ \A i \in DOMAIN s : Plain(c, s)[i] = Row(c, s[i])
    BY PlainType
  <1> HIDE DEF row
  <1>5. /\ v \in Seq(Table) /\ Len(v) = Len(s) + 1 /\ DOMAIN v = 1 .. Len(s) + 1
        /\ v[1] = row
        /\ \A i \in DOMAIN v : i # 1 => i - 1 \in 1 .. Len(s) /\ v[i] = Plain(c, s)[i - 1]
    BY <1>1, <1>4, Before
  <1> HIDE DEF u, v
  <1>6. /\ Plain(c, u) \in Seq(Table) /\ Len(Plain(c, u)) = Len(s) + 1
        /\ \A i \in DOMAIN u : Plain(c, u)[i] = Row(c, u[i])
    BY <1>3, PlainType
  <1>7. ASSUME NEW i \in 1 .. Len(s) + 1 PROVE Plain(c, u)[i] = v[i]
    <2>1. CASE i = 1
      BY <1>3, <1>5, <1>6, <2>1 DEF row
    <2>2. CASE i # 1
      BY <1>3, <1>4, <1>5, <1>6, <2>2
    <2> QED
      BY <2>1, <2>2
  <1>8. Plain(c, u) = v
    BY <1>5, <1>6, <1>7, SeqEqual
  <1>9. Found(v, n) = IF row[n] # None THEN row[n] ELSE Found(Plain(c, s), n)
    <2> DEFINE one == <<row>>
    <2>1. one \in Seq(Table) /\ Found(one, n) = row[n]
      BY <1>1, FoundOne
    <2> HIDE DEF one
    <2>2. Found(one \o Plain(c, s), n) = IF row[n] # None THEN row[n] ELSE Found(Plain(c, s), n)
      BY <1>4, <2>1, FoundJoined
    <2> QED
      BY <2>2 DEF one, v
  <1> QED
    BY <1>1, <1>2, <1>8, <1>9 DEF First, u

\* Only their own code matters.
LEMMA PlainSame ==
    ASSUME NEW c1, NEW c2, NEW s, \A d \in Entries(s) : c1[d] = c2[d]
    PROVE  Plain(c1, s) = Plain(c2, s)
  <1>1. \A i \in DOMAIN s : Row(c1, s[i]) = Row(c2, s[i])
    BY DEF Entries, Row
  <1> QED
    BY <1>1 DEF Plain

(***************************************************************************)
(* The scope that modules s, a table b and the symbols u that wait mean.    *)
(***************************************************************************)

ScopeIs(c, s, b, u) ==
    [meaning |-> [n \in Names |-> IF First(c, s, n) # None THEN First(c, s, n) ELSE b[n]],
     waiting |-> [n \in Names |-> IF First(c, s, n) # None \/ b[n] # None THEN None ELSE u[n]]]

TablesIn(c, ctx) ==
    [i \in DOMAIN ctx.deque_jd |->
        IF ctx.deque_jd[i] = BASE THEN ctx.base_jd ELSE Row(c, ctx.deque_jd[i])]

\* The scope of a context, and that of the process.
ScopeIn(c, ctx) == ScopeOf(TablesIn(c, ctx), ctx)
ProcessIn(c, g) == ScopeOf(TablesIn(c, g) \o <<g.base_jd>>, g)

AScope == [meaning: Table, waiting: Table]

LEMMA ScopeIsType ==
    ASSUME NEW c \in [Definition -> Module], NEW s \in Seq(Definition), NEW b \in Table, NEW u \in Table
    PROVE  ScopeIs(c, s, b, u) \in AScope
  <1>1. \A n \in Names : First(c, s, n) \in Value /\ b[n] \in Value /\ u[n] \in Value /\ None \in Value
    BY PlainType DEF Table, Value
  <1> QED
    BY <1>1 DEF ScopeIs, AScope, Table, Value

\* base_jd behind modules: what is found is theirs, or else of base_jd.
LEMMA FoundBehind ==
    ASSUME NEW c \in [Definition -> Module], NEW s \in Seq(Definition), NEW b \in Table, NEW ctx
    PROVE  ScopeOf(Plain(c, s) \o <<b>>, ctx) = ScopeIs(c, s, b, ctx.unit_symbols)
  <1> DEFINE one == <<b>>
  <1> DEFINE t == Plain(c, s) \o <<b>>
  <1>1. \A n \in Names : Found(t, n) = IF First(c, s, n) # None THEN First(c, s, n) ELSE b[n]
    <2> TAKE n \in Names
    <2>1. one \in Seq(Table) /\ Found(one, n) = b[n]
      BY FoundOne
    <2> HIDE DEF one
    <2>2. Plain(c, s) \in Seq(Table)
      BY PlainType
    <2>3. Found(Plain(c, s) \o one, n) = IF First(c, s, n) # None THEN First(c, s, n) ELSE b[n]
      BY <2>1, <2>2, FoundJoined DEF First
    <2> QED
      BY <2>3 DEF one
  <1> HIDE DEF t
  <1>2. Meaning(t) = [n \in Names |-> IF First(c, s, n) # None THEN First(c, s, n) ELSE b[n]]
    BY <1>1 DEF Meaning
  <1>3. Waiting(t, ctx) = [n \in Names |-> IF First(c, s, n) # None \/ b[n] # None THEN None
                                           ELSE ctx.unit_symbols[n]]
    BY <1>1 DEF Waiting
  <1> QED
    BY <1>2, <1>3 DEF ScopeOf, ScopeIs, t

LEMMA ScopeShown ==
    ASSUME NEW c \in [Definition -> Module], NEW ctx \in Context, NEW s \in Seq(Definition),
           ctx.deque_jd = s \o <<BASE>>
    PROVE  /\ ScopeIn(c, ctx) = ScopeIs(c, s, ctx.base_jd, ctx.unit_symbols)
           /\ ScopeIn(c, ctx) \in AScope
  <1> DEFINE q == ctx.deque_jd
  <1> DEFINE v == Plain(c, s) \o <<ctx.base_jd>>
  <1>1. ctx.base_jd \in Table /\ ctx.unit_symbols \in Table
    BY ContextParts
  <1>2. /\ Plain(c, s) \in Seq(Table) /\ Len(Plain(c, s)) = Len(s) /\ Len(s) \in Nat
        /\ DOMAIN s = 1 .. Len(s)
        /\ \A i \in DOMAIN s : Plain(c, s)[i] = Row(c, s[i])
    BY PlainType
  <1>3. /\ Len(q) = Len(s) + 1 /\ DOMAIN q = 1 .. Len(s) + 1
        /\ \A i \in 1 .. Len(s) : q[i] = s[i] /\ q[i] # BASE
        /\ q[Len(s) + 1] = BASE
    <2>1. s \in Seq(Definition \cup {BASE})
      BY SeqMonotonic
    <2>2. \A i \in 1 .. Len(s) : s[i] # BASE
      <3>1. \A i \in 1 .. Len(s) : s[i] \in Definition
        BY ElementOfSeq
      <3> QED
        BY <3>1 DEF Definition, BASE
    <2> DEFINE e == BASE
    <2>3. e \in Definition \cup {BASE}
      OBVIOUS
    <2> HIDE DEF e
    <2>4. /\ Len(s \o <<e>>) = Len(s) + 1 /\ DOMAIN (s \o <<e>>) = 1 .. Len(s) + 1
          /\ \A i \in 1 .. Len(s) : (s \o <<e>>)[i] = s[i]
          /\ (s \o <<e>>)[Len(s) + 1] = e
      BY <2>1, <2>3, Behind
    <2>5. q = s \o <<e>>
      BY DEF e
    <2> HIDE DEF q
    <2> QED
      BY <2>2, <2>4, <2>5 DEF e
  <1>4. /\ v \in Seq(Table) /\ Len(v) = Len(s) + 1
        /\ \A i \in 1 .. Len(s) : v[i] = Plain(c, s)[i]
        /\ v[Len(s) + 1] = ctx.base_jd
    <2> DEFINE e == ctx.base_jd
    <2> DEFINE w == Plain(c, s)
    <2> DEFINE T == Table
    <2>1. e \in T /\ w \in Seq(T)
      BY <1>1, <1>2
    <2>2. Len(w) = Len(s)
      BY <1>2
    <2> HIDE DEF e, w, T
    <2>3. /\ w \o <<e>> \in Seq(T) /\ Len(w \o <<e>>) = Len(w) + 1
          /\ \A i \in 1 .. Len(w) : (w \o <<e>>)[i] = w[i]
          /\ (w \o <<e>>)[Len(w) + 1] = e
      BY <2>1, Behind
    <2> QED
      BY <2>2, <2>3 DEF e, w, T
  <1> HIDE DEF q, v
  <1>5. TablesIn(c, ctx) = v
    <2> DEFINE t == TablesIn(c, ctx)
    <2>1. t = [i \in 1 .. Len(s) + 1 |->
                IF q[i] = BASE THEN ctx.base_jd ELSE Row(c, q[i])]
      BY <1>3 DEF TablesIn, q
    <2>2. DOMAIN v = 1 .. Len(s) + 1 /\ v = [i \in 1 .. Len(s) + 1 |-> v[i]]
      BY <1>4, LenProperties
    <2>3. ASSUME NEW i \in 1 .. Len(s) + 1
          PROVE  v[i] = IF q[i] = BASE THEN ctx.base_jd ELSE Row(c, q[i])
      <3>1. i \in 1 .. Len(s) \/ i = Len(s) + 1
        BY <1>2
      <3>2. CASE i \in 1 .. Len(s)
        BY <1>2, <1>3, <1>4, <3>2
      <3>3. CASE i = Len(s) + 1
        BY <1>3, <1>4, <3>3
      <3> QED
        BY <3>1, <3>2, <3>3
    <2> QED
      BY <2>1, <2>2, <2>3
  <1>6. ScopeIn(c, ctx) = ScopeIs(c, s, ctx.base_jd, ctx.unit_symbols)
    BY <1>1, <1>5, FoundBehind DEF ScopeIn, v
  <1> QED
    BY <1>1, <1>6, ScopeIsType

LEMMA ProcessShown ==
    ASSUME NEW c \in [Definition -> Module], NEW g \in Global
    PROVE  ProcessIn(c, g) = ScopeIs(c, g.deque_jd, g.base_jd, g.unit_symbols)
  <1>1. g.deque_jd \in Seq(Definition) /\ g.base_jd \in Table
    BY DEF Global
  <1>2. \A i \in DOMAIN g.deque_jd : g.deque_jd[i] # BASE
    <2>1. \A i \in DOMAIN g.deque_jd : g.deque_jd[i] \in Definition
      BY <1>1, ElementOfSeq, LenProperties
    <2> QED
      BY <2>1 DEF Definition, BASE
  <1>3. TablesIn(c, g) = Plain(c, g.deque_jd)
    BY <1>2 DEF TablesIn, Plain
  <1> QED
    BY <1>1, <1>3, FoundBehind DEF ProcessIn

(***************************************************************************)
(* What operations mean to a scope.                                         *)
(***************************************************************************)

\* Module m is loaded before the modules s, and their own code is not touched.
Loads(c1, c2, s, m) ==
    /\ c1 \in [Definition -> Module] /\ c2 \in [Definition -> Module]
    /\ s \in Seq(Definition) /\ m \in Definition
    /\ \A d \in Entries(s) : c2[d] = c1[d]

LEMMA LoadMeans ==
    ASSUME NEW c1, NEW c2, NEW s, NEW m, Loads(c1, c2, s, m), NEW b, NEW u
    PROVE  ScopeIs(c2, <<m>> \o s, b, u) = Scopes!TakeOver(ScopeIs(c1, s, b, u), c2[m].defs, m)
  <1> DEFINE q == <<m>> \o s
  <1>1. \A n \in Names : First(c2, q, n) = IF n \in c2[m].defs THEN m ELSE First(c1, s, n)
    BY PlainBefore, PlainSame DEF First, Loads
  <1>2. m # None
    BY DEF Definition, None, Loads
  <1> HIDE DEF q
  <1>3. ScopeIs(c2, q, b, u).meaning = Scopes!TakeOver(ScopeIs(c1, s, b, u), c2[m].defs, m).meaning
    BY <1>1, <1>2 DEF ScopeIs, Scopes!TakeOver
  <1>4. ScopeIs(c2, q, b, u).waiting = Scopes!TakeOver(ScopeIs(c1, s, b, u), c2[m].defs, m).waiting
    BY <1>1, <1>2 DEF ScopeIs, Scopes!TakeOver, Scopes!Undefined, None
  <1> QED
    BY <1>3, <1>4 DEF ScopeIs, Scopes!TakeOver, q

LEMMA AddMeans ==
    ASSUME NEW c, NEW s, NEW b, NEW u \in Table, NEW n \in Names, NEW m,
           NEW v, v = IF b[n] # None THEN u ELSE [u EXCEPT ![n] = m]
    PROVE  ScopeIs(c, s, b, v) = Scopes!Give(ScopeIs(c, s, b, u), n, m)
  <1> DEFINE sc == ScopeIs(c, s, b, u)
  <1>1. ScopeIs(c, s, b, v).meaning = sc.meaning
    BY DEF ScopeIs
  <1>2. CASE sc.meaning[n] # None
    <2>1. Scopes!Give(sc, n, m) = sc
      BY <1>2 DEF Scopes!Give, Scopes!Undefined, None
    <2>2. First(c, s, n) # None \/ b[n] # None
      BY <1>2 DEF ScopeIs
    <2>3. \A x \in Names : x # n => v[x] = u[x]
      BY DEF Table
    <2>4. ScopeIs(c, s, b, v).waiting = sc.waiting
      BY <2>2, <2>3 DEF ScopeIs
    <2> QED
      BY <1>1, <2>1, <2>4 DEF ScopeIs
  <1>3. CASE sc.meaning[n] = None
    <2>1. First(c, s, n) = None /\ b[n] = None
      BY <1>3 DEF ScopeIs
    <2>2. Scopes!Give(sc, n, m) = [sc EXCEPT !.waiting[n] = m]
      BY <1>3 DEF Scopes!Give, Scopes!Undefined, None
    <2>3. v = [u EXCEPT ![n] = m] /\ v[n] = m /\ \A x \in Names : x # n => v[x] = u[x]
      BY <2>1 DEF Table
    <2>4. ScopeIs(c, s, b, v).waiting = [sc.waiting EXCEPT ![n] = m]
      BY <2>1, <2>3 DEF ScopeIs
    <2> QED
      BY <1>1, <2>2, <2>4 DEF ScopeIs
  <1> QED
    BY <1>2, <1>3

\* Table b, to which u is added.
Merged(b, u) == [n \in Names |-> IF b[n] # None THEN b[n] ELSE u[n]]

LEMMA FlushMeans ==
    ASSUME NEW c, NEW s, NEW b, NEW u
    PROVE  ScopeIs(c, s, Merged(b, u), NoSymbols) = Scopes!Settle(ScopeIs(c, s, b, u))
  BY DEF Merged, ScopeIs, NoSymbols, Scopes!Settle, Scopes!Undefined, Scopes!NoNames, None

LEMMA NewMeans ==
    ASSUME NEW c, NEW s, s = <<>>
    PROVE  ScopeIs(c, s, NoSymbols, NoSymbols) = Scopes!EmptyScope
  <1>1. \A n \in Names : First(c, s, n) = None
    <2>1. Plain(c, s) = <<>>
      BY DEF Plain
    <2> QED
      BY <2>1, FoundNone DEF First
  <1> QED
    BY <1>1 DEF ScopeIs, NoSymbols, Scopes!EmptyScope, Scopes!NoNames, Scopes!Undefined, None
(***************************************************************************)
(* What the deques and the tables keep to.                                  *)
(***************************************************************************)

\* A name of base_jd does not wait for it: add_symbol_value saw to that, and
\* so define never refuses what a unit has added.
OneTable(c) == \A n \in Names : c.base_jd[n] = None \/ c.unit_symbols[n] = None

\* base_jd is behind the modules of a context.
Based(c) == \E s \in Seq(Definition) : c.deque_jd = s \o <<BASE>>

RInv == (\A i \in DOMAIN stack : Based(stack[i]) /\ OneTable(stack[i])) /\ OneTable(global)

\* The scopes that SymbolScopes speaks of.
ShownScopes == [i \in DOMAIN stack |-> ScopeIn(code, stack[i])]
ShownProcess == ProcessIn(code, global)

\* They are those that JitSymbols puts in their place.
MappedScopes == [i \in DOMAIN stack |-> ScopeOf(Tables(stack[i]), stack[i])]
MappedProcess == ScopeOf(Tables(global) \o <<global.base_jd>>, global)

LEMMA Shown ==
    /\ MappedScopes = ShownScopes /\ MappedProcess = ShownProcess
    /\ MappedScopes' = ShownScopes' /\ MappedProcess' = ShownProcess'
  <1>1. MappedScopes = ShownScopes /\ MappedProcess = ShownProcess
    BY DEF MappedScopes, MappedProcess, ShownScopes, ShownProcess, ScopeIn, ProcessIn,
           Tables, Symbols, TablesIn, Row
  <1>2. MappedScopes' = ShownScopes' /\ MappedProcess' = ShownProcess'
    BY DEF MappedScopes, MappedProcess, ShownScopes, ShownProcess, ScopeIn, ProcessIn,
           Tables, Symbols, TablesIn, Row
  <1> QED
    BY <1>1, <1>2

\* A context whose dylibs are those of the modules s, and base_jd.
LEMMA BasedParts ==
    ASSUME NEW c \in [Definition -> Module], NEW ctx \in Context, NEW s \in Seq(Definition),
           ctx.deque_jd = s \o <<BASE>>
    PROVE  /\ Based(ctx) /\ Entries(s) = Mods(ctx)
           /\ ScopeIn(c, ctx) = ScopeIs(c, s, ctx.base_jd, ctx.unit_symbols)
           /\ ScopeIn(c, ctx) \in AScope
  <1>1. Entries(s) \subseteq Definition
    BY EntriesType
  <1>2. Entries(ctx.deque_jd) = Entries(s) \cup {BASE}
    <2> DEFINE one == <<BASE>>
    <2>1. one \in Seq(Definition \cup {BASE}) /\ s \in Seq(Definition \cup {BASE})
          /\ Entries(one) = {BASE}
      BY SeqMonotonic, EntriesSingle
    <2> HIDE DEF one
    <2>2. Entries(s \o one) = Entries(s) \cup Entries(one)
      BY <2>1, EntriesJoined
    <2> QED
      BY <2>1, <2>2 DEF one
  <1>3. BASE \notin Definition
    BY DEF BASE, Definition
  <1> QED
    BY <1>1, <1>2, <1>3, ScopeShown DEF Based, Mods

LEMMA ShownParts ==
    ASSUME TypeOK, RInv, stack # <<>>
    PROVE  /\ ShownScopes \in Seq(AScope) /\ ShownScopes # <<>>
           /\ Len(ShownScopes) = Len(stack)
           /\ Head(ShownScopes) = ScopeIn(code, Ctx)
  <1>1. /\ Len(stack) \in Nat /\ DOMAIN stack = 1 .. Len(stack) /\ 1 \in DOMAIN stack /\ Ctx = stack[1]
        /\ code \in [Definition -> Module]
    BY StackParts DEF TypeOK
  <1>2. \A i \in DOMAIN stack : ScopeIn(code, stack[i]) \in AScope
    BY <1>1, StackParts, BasedParts DEF RInv, Based
  <1>3. ShownScopes \in [1 .. Len(stack) -> AScope]
    BY <1>1, <1>2 DEF ShownScopes
  <1>4. ShownScopes \in Seq(AScope) /\ Len(ShownScopes) = Len(stack)
    BY <1>1, <1>3, SeqDef, LenProperties
  <1>5. Len(ShownScopes) # 0
    BY <1>1, <1>4
  <1>6. ShownScopes # <<>> /\ ShownScopes[1] = ScopeIn(code, Ctx)
    BY <1>1, <1>5 DEF ShownScopes
  <1> QED
    BY <1>4, <1>6, HeadTailProperties

\* Only the innermost context means something else.
LEMMA HeadShown ==
    ASSUME TypeOK, RInv, stack # <<>>, TypeOK', RInv', NEW d, Replaced(d),
           \A i \in DOMAIN stack : i # 1 => ScopeIn(code', stack[i]) = ScopeIn(code, stack[i])
    PROVE  ShownScopes' = <<ScopeIn(code', d)>> \o Tail(ShownScopes)
  <1> DEFINE e == ScopeIn(code', d)
  <1> DEFINE t == Tail(ShownScopes)
  <1> DEFINE u == <<e>> \o t
  <1> DEFINE v == ShownScopes'
  <1>1. /\ ShownScopes \in Seq(AScope) /\ ShownScopes # <<>> /\ Len(ShownScopes) = Len(stack)
        /\ Len(stack) \in Nat /\ DOMAIN stack = 1 .. Len(stack) /\ 1 \in DOMAIN stack
        /\ \A i \in DOMAIN stack : ShownScopes[i] = ScopeIn(code, stack[i])
    BY ShownParts, StackParts DEF ShownScopes
  <1>2. stack' \in Seq(Context) /\ DOMAIN stack' = DOMAIN stack /\ stack'[1] = d
        /\ code' \in [Definition -> Module]
    BY DEF TypeOK, Replaced
  <1>3. \A i \in DOMAIN stack : ScopeIn(code', stack'[i]) \in AScope
    <2> TAKE i \in DOMAIN stack
    <2>1. stack'[i] \in Context /\ Based(stack'[i])
      BY <1>1, <1>2, ElementOfSeq, LenProperties DEF RInv
    <2> QED
      BY <1>2, <2>1, BasedParts DEF Based
  <1>4. v = [i \in DOMAIN stack |-> ScopeIn(code', stack'[i])]
    BY <1>2 DEF ShownScopes
  <1>5. e \in AScope
    BY <1>1, <1>2, <1>3
  <1> HIDE DEF e, v
  <1>6. v \in Seq(AScope) /\ Len(v) = Len(stack)
    <2>1. v \in [1 .. Len(stack) -> AScope]
      BY <1>1, <1>3, <1>4
    <2> QED
      BY <1>1, <2>1, SeqDef, LenProperties
  <1>7. /\ t \in Seq(AScope) /\ Len(t) = Len(stack) - 1
        /\ \A i \in 1 .. Len(t) : t[i] = ShownScopes[i + 1]
    BY <1>1, HeadTailProperties
  <1> HIDE DEF t
  <1>8. /\ u \in Seq(AScope) /\ Len(u) = Len(t) + 1 /\ DOMAIN u = 1 .. Len(t) + 1 /\ u[1] = e
        /\ \A i \in DOMAIN u : i # 1 => i - 1 \in 1 .. Len(t) /\ u[i] = t[i - 1]
    BY <1>5, <1>7, Before
  <1> HIDE DEF u
  <1>9. Len(t) + 1 = Len(stack)
    BY <1>1, <1>7
  <1>10. ASSUME NEW i \in 1 .. Len(stack) PROVE v[i] = u[i]
    <2>1. v[i] = ScopeIn(code', stack'[i])
      BY <1>1, <1>4
    <2>2. CASE i = 1
      BY <1>2, <1>8, <2>1, <2>2 DEF e
    <2>3. CASE i # 1
      <3>1. u[i] = t[i - 1] /\ i - 1 \in 1 .. Len(t) /\ i - 1 + 1 = i
        BY <1>8, <1>9, <2>3
      <3>2. u[i] = ScopeIn(code, stack[i])
        BY <1>1, <1>7, <3>1
      <3>3. stack'[i] = stack[i]
        BY <1>1, <2>3 DEF Replaced
      <3> QED
        BY <1>1, <2>1, <2>3, <3>2, <3>3
    <2> QED
      BY <2>2, <2>3
  <1>11. v = u
    BY <1>6, <1>8, <1>9, <1>10, SeqEqual
  <1> QED
    BY <1>11 DEF u, v, e, t

\* The code of a module that is made concerns nobody else.
LEMMA OthersSame ==
    ASSUME IInv, RInv, code' \in [Definition -> Module],
           \A x \in Definition : x # made + 1 => code'[x] = code[x]
    PROVE  /\ \A i \in DOMAIN stack : ScopeIn(code', stack[i]) = ScopeIn(code, stack[i])
           /\ ProcessIn(code', global) = ProcessIn(code, global)
           /\ \A i \in DOMAIN stack : \A x \in Mods(stack[i]) : code'[x] = code[x]
           /\ \A x \in Exported : code'[x] = code[x]
  <1>1. /\ TypeOK /\ made \in Nat /\ code \in [Definition -> Module] /\ global \in Global
        /\ Exported \subseteq 1 .. made /\ \A i \in DOMAIN stack : Mods(stack[i]) \subseteq 1 .. made
    BY DEF IInv, TypeOK, OneOwner
  <1>2. \A x \in 1 .. made : x # made + 1
    BY <1>1
  <1>3. Exported \subseteq Definition /\ \A i \in DOMAIN stack : Mods(stack[i]) \subseteq Definition
    BY <1>1, GlobalParts, StackParts, ContextParts
  <1>4. /\ \A i \in DOMAIN stack : \A x \in Mods(stack[i]) : code'[x] = code[x]
        /\ \A x \in Exported : code'[x] = code[x]
    BY <1>1, <1>2, <1>3
  <1>5. ASSUME NEW i \in DOMAIN stack PROVE ScopeIn(code', stack[i]) = ScopeIn(code, stack[i])
    <2>1. stack[i] \in Context
      BY <1>1, StackParts
    <2>2. PICK s \in Seq(Definition) : stack[i].deque_jd = s \o <<BASE>>
      BY DEF RInv, Based
    <2>3. /\ ScopeIn(code, stack[i]) = ScopeIs(code, s, stack[i].base_jd, stack[i].unit_symbols)
          /\ ScopeIn(code', stack[i]) = ScopeIs(code', s, stack[i].base_jd, stack[i].unit_symbols)
          /\ Entries(s) = Mods(stack[i])
      BY <1>1, <2>1, <2>2, BasedParts
    <2>4. Plain(code', s) = Plain(code, s)
      BY <1>4, <2>3, PlainSame
    <2> QED
      BY <2>3, <2>4 DEF ScopeIs, First
  <1>6. ProcessIn(code', global) = ProcessIn(code, global)
    <2>1. Plain(code', global.deque_jd) = Plain(code, global.deque_jd)
      BY <1>4, PlainSame DEF Exported
    <2>2. /\ ProcessIn(code, global) = ScopeIs(code, global.deque_jd, global.base_jd, global.unit_symbols)
          /\ ProcessIn(code', global) = ScopeIs(code', global.deque_jd, global.base_jd, global.unit_symbols)
      BY <1>1, ProcessShown
    <2> QED
      BY <2>1, <2>2 DEF ScopeIs, First
  <1> QED
    BY <1>4, <1>5, <1>6

LEMMA TablesStep ==
    ASSUME TypeOK, RInv, stack # <<>>, NEW d, Replaced(d), Based(d), OneTable(d), OneTable(global')
    PROVE  RInv'
  BY DEF RInv, Replaced, OneTable
(***************************************************************************)
(* Steps of SymbolScopes.                                                   *)
(***************************************************************************)

LEMMA IsLoad ==
    ASSUME ShownScopes # <<>>, made < MaxMade, made' = made + 1, NEW names \in SUBSET Names,
           \/ /\ ShownScopes' = <<Scopes!TakeOver(Head(ShownScopes), names, made + 1)>> \o Tail(ShownScopes)
              /\ ShownProcess' = ShownProcess
           \/ /\ ShownProcess' = Scopes!TakeOver(ShownProcess, names, made + 1)
              /\ ShownScopes' = ShownScopes
    PROVE  Scopes!AbsLoad
  <1>1. /\ MappedScopes # <<>>
        /\ \/ /\ MappedScopes' = <<Scopes!TakeOver(Head(MappedScopes), names, made + 1)>> \o Tail(MappedScopes)
              /\ UNCHANGED MappedProcess
           \/ /\ MappedProcess' = Scopes!TakeOver(MappedProcess, names, made + 1)
              /\ UNCHANGED MappedScopes
    BY Shown
  <1> QED
    BY <1>1 DEF Scopes!AbsLoad, Scopes!MakeDefinition, MappedScopes, MappedProcess

LEMMA IsGive ==
    ASSUME ShownScopes # <<>>, made < MaxMade, made' = made + 1, NEW n \in Names,
           \/ /\ ShownScopes' = <<Scopes!Give(Head(ShownScopes), n, made + 1)>> \o Tail(ShownScopes)
              /\ ShownProcess' = ShownProcess
           \/ /\ ShownProcess' = Scopes!Give(ShownProcess, n, made + 1)
              /\ ShownScopes' = ShownScopes
    PROVE  Scopes!AbsGive
  <1>1. /\ MappedScopes # <<>>
        /\ \/ /\ MappedScopes' = <<Scopes!Give(Head(MappedScopes), n, made + 1)>> \o Tail(MappedScopes)
              /\ UNCHANGED MappedProcess
           \/ /\ MappedProcess' = Scopes!Give(MappedProcess, n, made + 1)
              /\ UNCHANGED MappedScopes
    BY Shown
  <1> QED
    BY <1>1 DEF Scopes!AbsGive, Scopes!MakeDefinition, MappedScopes, MappedProcess

LEMMA IsSettle ==
    ASSUME ShownScopes # <<>>, made' = made,
           ShownScopes' = <<Scopes!Settle(Head(ShownScopes))>> \o Tail(ShownScopes),
           ShownProcess' = Scopes!Settle(ShownProcess)
    PROVE  Scopes!AbsSettle
  <1>1. /\ MappedScopes # <<>>
        /\ MappedScopes' = <<Scopes!Settle(Head(MappedScopes))>> \o Tail(MappedScopes)
        /\ MappedProcess' = Scopes!Settle(MappedProcess)
    BY Shown
  <1> QED
    BY <1>1 DEF Scopes!AbsSettle, MappedScopes, MappedProcess

LEMMA IsEnter ==
    ASSUME ShownScopes # <<>>, made' = made,
           ShownScopes' = <<Scopes!EmptyScope>> \o ShownScopes,
           ShownProcess' = ShownProcess
    PROVE  Scopes!AbsEnter
  <1>1. /\ MappedScopes # <<>>
        /\ MappedScopes' = <<Scopes!EmptyScope>> \o MappedScopes
        /\ UNCHANGED MappedProcess
    BY Shown
  <1> QED
    BY <1>1 DEF Scopes!AbsEnter, MappedScopes, MappedProcess

LEMMA IsLeave ==
    ASSUME ShownScopes # <<>>, made' = made,
           ShownScopes' = Tail(ShownScopes),
           ShownProcess' = ShownProcess
    PROVE  Scopes!AbsLeave
  <1>1. /\ MappedScopes # <<>>
        /\ MappedScopes' = Tail(MappedScopes)
        /\ UNCHANGED MappedProcess
    BY Shown
  <1> QED
    BY <1>1 DEF Scopes!AbsLeave, MappedScopes, MappedProcess

LEMMA IsStutter ==
    ASSUME made' = made, ShownScopes' = ShownScopes, ShownProcess' = ShownProcess
    PROVE  UNCHANGED Scopes!absVars
  <1>1. UNCHANGED <<MappedScopes, MappedProcess>>
    BY Shown
  <1> QED
    BY <1>1 DEF Scopes!absVars, MappedScopes, MappedProcess

(***************************************************************************)
(* Every step means one of them, or none.                                   *)
(***************************************************************************)

LEMMA LoadLocalMeans ==
    ASSUME IInv, RInv, NEW defs \in SUBSET Names, NEW refs \in SUBSET Names, LoadLocal(defs, refs)
    PROVE  RInv' /\ Scopes!AbsLoad
  <1> DEFINE m == made + 1
  <1> DEFINE d == LoadedIn(Ctx, m)
  <1>1. /\ stack # <<>> /\ made < MaxMade /\ made' = made + 1 /\ m \in Definition
        /\ UNCHANGED <<global, ended, removed>>
        /\ d \in Context /\ Become(d)
        /\ code'[m].defs = defs
        /\ \A x \in Definition : x # m => code'[x] = code[x]
        /\ TypeOK' /\ TypeOK
    BY LoadLocalParts DEF IInv
  <1>2. /\ 1 \in DOMAIN stack /\ Ctx = stack[1] /\ Ctx \in Context /\ Ctx.cleaners # <<>>
        /\ 1 \in DOMAIN Ctx.cleaners
        /\ code \in [Definition -> Module] /\ code' \in [Definition -> Module]
    BY <1>1, CtxParts DEF TypeOK
  <1>3. PICK s \in Seq(Definition) : Ctx.deque_jd = s \o <<BASE>>
    BY <1>2 DEF RInv, Based
  <1> DEFINE q == <<m>> \o s
  <1>4. q \in Seq(Definition)
    BY <1>1, OneBefore
  <1>5. /\ d.deque_jd = q \o <<BASE>>
        /\ d.base_jd = Ctx.base_jd /\ d.unit_symbols = Ctx.unit_symbols
    <2>1. /\ d.deque_jd = <<m>> \o Ctx.deque_jd
          /\ d.base_jd = Ctx.base_jd /\ d.unit_symbols = Ctx.unit_symbols
      BY <1>1, <1>2, LoadedParts
    <2> DEFINE one == <<m>>
    <2> DEFINE base == <<BASE>>
    <2> DEFINE S == Definition \cup {BASE}
    <2>2. one \in Seq(S) /\ base \in Seq(S)
      BY <1>1
    <2>3. s \in Seq(S)
      BY SeqMonotonic
    <2> HIDE DEF one, base, S
    <2>4. one \o (s \o base) = (one \o s) \o base
      BY <2>2, <2>3, ConcatAssociative
    <2> QED
      BY <1>3, <2>1, <2>4 DEF one, base
  <1> HIDE DEF d, q, m
  <1>6. /\ Based(d) /\ ScopeIn(code', d) = ScopeIs(code', q, Ctx.base_jd, Ctx.unit_symbols)
    BY <1>1, <1>2, <1>4, <1>5, BasedParts
  <1>7. /\ ScopeIn(code, Ctx) = ScopeIs(code, s, Ctx.base_jd, Ctx.unit_symbols)
        /\ Entries(s) = Mods(Ctx)
    BY <1>2, <1>3, BasedParts
  <1>8. /\ \A i \in DOMAIN stack : ScopeIn(code', stack[i]) = ScopeIn(code, stack[i])
        /\ ProcessIn(code', global) = ProcessIn(code, global)
        /\ \A x \in Mods(Ctx) : code'[x] = code[x]
    BY <1>1, <1>2, OthersSame DEF m
  <1>9. ScopeIn(code', d) = Scopes!TakeOver(ScopeIn(code, Ctx), defs, m)
    <2> DEFINE b == Ctx.base_jd
    <2> DEFINE u == Ctx.unit_symbols
    <2> DEFINE c == code
    <2> DEFINE e == code'
    <2>1. Loads(c, e, s, m)
      BY <1>1, <1>2, <1>7, <1>8 DEF Loads
    <2>2. e[m].defs = defs
      BY <1>1
    <2>3. ScopeIn(code', d) = ScopeIs(e, q, b, u) /\ ScopeIn(code, Ctx) = ScopeIs(c, s, b, u)
      BY <1>6, <1>7
    <2> HIDE DEF b, u, c, e
    <2>4. ScopeIs(e, <<m>> \o s, b, u) = Scopes!TakeOver(ScopeIs(c, s, b, u), e[m].defs, m)
      BY <2>1, LoadMeans
    <2> QED
      BY <2>2, <2>3, <2>4 DEF q
  <1>10. Replaced(d)
    BY <1>1, SameReplaced
  <1>11. RInv'
    <2>1. OneTable(d) /\ OneTable(global')
      BY <1>1, <1>2, <1>5 DEF RInv, OneTable
    <2> QED
      BY <1>1, <1>6, <1>10, <2>1, TablesStep
  <1>12. ShownScopes' = <<ScopeIn(code', d)>> \o Tail(ShownScopes)
    BY <1>1, <1>8, <1>10, <1>11, HeadShown
  <1>13. ShownScopes # <<>> /\ Head(ShownScopes) = ScopeIn(code, Ctx)
    BY <1>1, ShownParts
  <1>14. ShownProcess' = ShownProcess
    BY <1>1, <1>8 DEF ShownProcess
  <1>15. ShownScopes' = <<Scopes!TakeOver(Head(ShownScopes), defs, made + 1)>> \o Tail(ShownScopes)
    BY <1>9, <1>12, <1>13 DEF m
  <1> QED
    BY <1>1, <1>11, <1>13, <1>14, <1>15, IsLoad

LEMMA LoadExportedMeans ==
    ASSUME IInv, RInv, NEW defs \in SUBSET Names, NEW refs \in SUBSET Names, LoadExported(defs, refs)
    PROVE  RInv' /\ Scopes!AbsLoad
  <1> DEFINE m == made + 1
  <1>1. /\ stack # <<>> /\ made < MaxMade /\ made' = made + 1 /\ m \in Definition
        /\ UNCHANGED <<stack, ended, removed>>
        /\ global'.deque_jd = <<m>> \o global.deque_jd
        /\ global'.base_jd = global.base_jd /\ global'.unit_symbols = global.unit_symbols
        /\ code'[m].defs = defs
        /\ \A x \in Definition : x # m => code'[x] = code[x]
        /\ TypeOK' /\ TypeOK
    BY LoadExportedParts DEF IInv
  <1>2. /\ code \in [Definition -> Module] /\ code' \in [Definition -> Module]
        /\ global \in Global /\ global' \in Global /\ global.deque_jd \in Seq(Definition)
    BY <1>1, GlobalParts DEF TypeOK
  <1> HIDE DEF m
  <1>3. /\ \A i \in DOMAIN stack : ScopeIn(code', stack[i]) = ScopeIn(code, stack[i])
        /\ \A x \in Exported : code'[x] = code[x]
    BY <1>1, <1>2, OthersSame DEF m
  <1>4. /\ ShownProcess = ScopeIs(code, global.deque_jd, global.base_jd, global.unit_symbols)
        /\ ShownProcess' = ScopeIs(code', <<m>> \o global.deque_jd, global.base_jd, global.unit_symbols)
    BY <1>1, <1>2, ProcessShown DEF ShownProcess
  <1>5. ShownProcess' = Scopes!TakeOver(ShownProcess, defs, made + 1)
    <2>1. Loads(code, code', global.deque_jd, m)
      BY <1>1, <1>2, <1>3 DEF Loads, Exported
    <2>2. ScopeIs(code', <<m>> \o global.deque_jd, global.base_jd, global.unit_symbols)
            = Scopes!TakeOver(ScopeIs(code, global.deque_jd, global.base_jd, global.unit_symbols),
                              code'[m].defs, m)
      BY <2>1, LoadMeans
    <2> QED
      BY <1>1, <1>4, <2>2 DEF m
  <1>6. ShownScopes' = ShownScopes
    BY <1>1, <1>3 DEF ShownScopes
  <1>7. RInv'
    BY <1>1 DEF RInv, OneTable
  <1>8. ShownScopes # <<>>
    BY <1>1, ShownParts
  <1> QED
    BY <1>1, <1>5, <1>6, <1>7, <1>8, IsLoad

LEMMA AddedTables ==
    ASSUME NEW c \in Context \cup Global, NEW n \in Names, NEW m
    PROVE  /\ add_symbol_value(c, n, m).deque_jd = c.deque_jd
           /\ add_symbol_value(c, n, m).base_jd = c.base_jd
           /\ add_symbol_value(c, n, m).unit_symbols
                = IF c.base_jd[n] # None THEN c.unit_symbols ELSE [c.unit_symbols EXCEPT ![n] = m]
           /\ OneTable(c) => OneTable(add_symbol_value(c, n, m))
  <1> DEFINE a == add_symbol_value(c, n, m)
  <1>1. /\ a.deque_jd = c.deque_jd /\ a.base_jd = c.base_jd
        /\ a.unit_symbols = IF c.base_jd[n] # None THEN c.unit_symbols ELSE [c.unit_symbols EXCEPT ![n] = m]
    BY DEF add_symbol_value, Context, Global
  <1>2. \A x \in Names : x # n \/ c.base_jd[n] # None => a.unit_symbols[x] = c.unit_symbols[x]
    <2>1. c.unit_symbols \in Table
      BY DEF Context, Global
    <2> QED
      BY <1>1, <2>1 DEF Table
  <1> HIDE DEF a
  <1>3. OneTable(c) => OneTable(a)
    BY <1>1, <1>2 DEF OneTable
  <1> QED
    BY <1>1, <1>3 DEF a

LEMMA AddSymbolMeans ==
    ASSUME IInv, RInv, NEW n \in Names, AddSymbol(n)
    PROVE  RInv' /\ Scopes!AbsGive
  <1> DEFINE m == made + 1
  <1> DEFINE d == add_symbol_value(Ctx, n, m)
  <1>1. /\ stack # <<>> /\ made < MaxMade /\ made' = made + 1
        /\ UNCHANGED <<global, code, ended, removed>>
        /\ d \in Context /\ Become(d)
        /\ TypeOK' /\ TypeOK
    BY AddSymbolParts DEF IInv
  <1>2. /\ 1 \in DOMAIN stack /\ Ctx = stack[1] /\ Ctx \in Context
        /\ code \in [Definition -> Module]
    BY <1>1, CtxParts DEF TypeOK
  <1>3. PICK s \in Seq(Definition) : Ctx.deque_jd = s \o <<BASE>>
    BY <1>2 DEF RInv, Based
  <1>4. /\ d.deque_jd = Ctx.deque_jd /\ d.base_jd = Ctx.base_jd
        /\ d.unit_symbols = IF Ctx.base_jd[n] # None THEN Ctx.unit_symbols
                            ELSE [Ctx.unit_symbols EXCEPT ![n] = m]
        /\ OneTable(d)
    BY <1>2, AddedTables DEF RInv
  <1>5. Ctx.base_jd \in Table /\ Ctx.unit_symbols \in Table
    BY <1>2, ContextParts
  <1> HIDE DEF d, m
  <1>6. Based(d) /\ ScopeIn(code, d) = ScopeIs(code, s, d.base_jd, d.unit_symbols)
    BY <1>1, <1>2, <1>3, <1>4, BasedParts
  <1>7. ScopeIn(code, Ctx) = ScopeIs(code, s, Ctx.base_jd, Ctx.unit_symbols)
    BY <1>2, <1>3, BasedParts
  <1>8. ScopeIn(code, d) = Scopes!Give(ScopeIn(code, Ctx), n, m)
    <2> DEFINE b == Ctx.base_jd
    <2> DEFINE u == Ctx.unit_symbols
    <2> DEFINE v == d.unit_symbols
    <2> DEFINE c == code
    <2>1. u \in Table /\ v = IF b[n] # None THEN u ELSE [u EXCEPT ![n] = m]
      BY <1>4, <1>5
    <2>2. ScopeIn(code, d) = ScopeIs(c, s, b, v) /\ ScopeIn(code, Ctx) = ScopeIs(c, s, b, u)
      BY <1>4, <1>6, <1>7
    <2> HIDE DEF b, u, v, c
    <2>3. ScopeIs(c, s, b, v) = Scopes!Give(ScopeIs(c, s, b, u), n, m)
      BY <2>1, AddMeans
    <2> QED
      BY <2>2, <2>3
  <1>9. Replaced(d)
    BY <1>1, SameReplaced
  <1>10. RInv'
    <2>1. OneTable(global')
      BY <1>1 DEF RInv, OneTable
    <2> QED
      BY <1>1, <1>4, <1>6, <1>9, <2>1, TablesStep
  <1>11. code' = code
    BY <1>1
  <1>12. ShownScopes' = <<ScopeIn(code', d)>> \o Tail(ShownScopes)
    BY <1>1, <1>9, <1>10, <1>11, HeadShown
  <1>13. ShownScopes # <<>> /\ Head(ShownScopes) = ScopeIn(code, Ctx)
    BY <1>1, ShownParts
  <1>14. ShownProcess' = ShownProcess
    BY <1>1 DEF ShownProcess
  <1>15. ShownScopes' = <<Scopes!Give(Head(ShownScopes), n, made + 1)>> \o Tail(ShownScopes)
    BY <1>8, <1>11, <1>12, <1>13 DEF m
  <1> QED
    BY <1>1, <1>10, <1>13, <1>14, <1>15, IsGive

LEMMA ExportSymbolMeans ==
    ASSUME IInv, RInv, NEW n \in Names, ExportSymbol(n)
    PROVE  RInv' /\ Scopes!AbsGive
  <1> DEFINE m == made + 1
  <1> DEFINE g == add_symbol_value(global, n, m)
  <1>1. /\ stack # <<>> /\ made < MaxMade /\ made' = made + 1
        /\ UNCHANGED <<stack, code, ended, removed>>
        /\ global' = g /\ TypeOK' /\ TypeOK
    BY ExportSymbolParts DEF IInv
  <1>2. global \in Global /\ global' \in Global /\ code \in [Definition -> Module]
    BY <1>1 DEF TypeOK
  <1>3. /\ g.deque_jd = global.deque_jd /\ g.base_jd = global.base_jd
        /\ g.unit_symbols = IF global.base_jd[n] # None THEN global.unit_symbols
                            ELSE [global.unit_symbols EXCEPT ![n] = m]
        /\ OneTable(g)
    BY <1>2, AddedTables DEF RInv
  <1>4. global.unit_symbols \in Table
    BY <1>2 DEF Global
  <1> HIDE DEF g, m
  <1>5. /\ ShownProcess = ScopeIs(code, global.deque_jd, global.base_jd, global.unit_symbols)
        /\ ShownProcess' = ScopeIs(code, global.deque_jd, global.base_jd, g.unit_symbols)
    BY <1>1, <1>2, <1>3, ProcessShown DEF ShownProcess
  <1>6. ShownProcess' = Scopes!Give(ShownProcess, n, made + 1)
    <2> DEFINE b == global.base_jd
    <2> DEFINE s == global.deque_jd
    <2> DEFINE u == global.unit_symbols
    <2> DEFINE v == g.unit_symbols
    <2> DEFINE c == code
    <2>1. u \in Table /\ v = IF b[n] # None THEN u ELSE [u EXCEPT ![n] = m]
      BY <1>3, <1>4
    <2>2. ShownProcess' = ScopeIs(c, s, b, v) /\ ShownProcess = ScopeIs(c, s, b, u)
      BY <1>5
    <2> HIDE DEF b, u, v, c, s
    <2>3. ScopeIs(c, s, b, v) = Scopes!Give(ScopeIs(c, s, b, u), n, m)
      BY <2>1, AddMeans
    <2> QED
      BY <2>2, <2>3 DEF m
  <1>7. ShownScopes' = ShownScopes
    BY <1>1 DEF ShownScopes
  <1>8. RInv'
    BY <1>1, <1>3 DEF RInv, OneTable
  <1>9. ShownScopes # <<>>
    BY <1>1, ShownParts
  <1> QED
    BY <1>1, <1>6, <1>7, <1>8, <1>9, IsGive

LEMMA FlushedTables ==
    ASSUME NEW c, OneTable(c)
    PROVE  Flushed(c) = Merged(c.base_jd, c.unit_symbols)
  BY DEF Flushed, OneTable, Merged

LEMMA FlushSettles ==
    ASSUME IInv, RInv, FlushUnitSymbols \/ FinishUnit
    PROVE  RInv' /\ Scopes!AbsSettle
  <1>1. TypeOK /\ TypeOK' /\ \E d : FlushedStep(d)
    BY FlushParts DEF IInv
  <1>2. PICK d : FlushedStep(d)
    BY <1>1
  <1>3. /\ stack # <<>> /\ Become(d) /\ d \in Context /\ d.deque_jd = Ctx.deque_jd
        /\ d.unit_symbols = NoSymbols /\ d.base_jd = Flushed(Ctx)
        /\ global' = flush_unit_symbols_helper(global)
        /\ UNCHANGED <<code, made, ended, removed>>
    BY <1>2 DEF FlushedStep
  <1>4. /\ 1 \in DOMAIN stack /\ Ctx = stack[1] /\ Ctx \in Context
        /\ code \in [Definition -> Module] /\ global \in Global /\ global' \in Global
    BY <1>1, <1>3, CtxParts DEF TypeOK
  <1>5. PICK s \in Seq(Definition) : Ctx.deque_jd = s \o <<BASE>>
    BY <1>4 DEF RInv, Based
  <1>6. OneTable(Ctx) /\ OneTable(global)
    BY <1>4 DEF RInv
  <1>7. /\ global'.deque_jd = global.deque_jd /\ global'.unit_symbols = NoSymbols
        /\ global'.base_jd = Flushed(global)
    <2>1. global' = [global EXCEPT !.unit_symbols = NoSymbols, !.base_jd = Flushed(global)]
      BY <1>3, FlushType
    <2> QED
      BY <1>4, <2>1 DEF Global
  <1>8. ScopeIn(code, d) = Scopes!Settle(ScopeIn(code, Ctx)) /\ Based(d)
    <2>1. /\ Based(d) /\ ScopeIn(code, d) = ScopeIs(code, s, d.base_jd, d.unit_symbols)
          /\ ScopeIn(code, Ctx) = ScopeIs(code, s, Ctx.base_jd, Ctx.unit_symbols)
      BY <1>3, <1>4, <1>5, BasedParts
    <2>2. Flushed(Ctx) = Merged(Ctx.base_jd, Ctx.unit_symbols)
      BY <1>6, FlushedTables
    <2>3. ScopeIs(code, s, Merged(Ctx.base_jd, Ctx.unit_symbols), NoSymbols)
            = Scopes!Settle(ScopeIs(code, s, Ctx.base_jd, Ctx.unit_symbols))
      BY FlushMeans
    <2> QED
      BY <1>3, <2>1, <2>2, <2>3
  <1>9. ShownProcess' = Scopes!Settle(ShownProcess)
    <2>1. /\ ShownProcess = ScopeIs(code, global.deque_jd, global.base_jd, global.unit_symbols)
          /\ ShownProcess' = ScopeIs(code, global.deque_jd, Flushed(global), NoSymbols)
      BY <1>3, <1>4, <1>7, ProcessShown DEF ShownProcess
    <2>2. Flushed(global) = Merged(global.base_jd, global.unit_symbols)
      BY <1>6, FlushedTables
    <2>3. ScopeIs(code, global.deque_jd, Merged(global.base_jd, global.unit_symbols), NoSymbols)
            = Scopes!Settle(ScopeIs(code, global.deque_jd, global.base_jd, global.unit_symbols))
      BY FlushMeans
    <2> QED
      BY <2>1, <2>2, <2>3
  <1>10. Replaced(d)
    BY <1>1, <1>3, SameReplaced
  <1>11. OneTable(d) /\ OneTable(global')
    BY <1>3, <1>7, NoSymbolsType DEF OneTable
  <1>12. RInv'
    BY <1>1, <1>3, <1>8, <1>10, <1>11, TablesStep
  <1>13. code' = code
    BY <1>3
  <1>14. ShownScopes' = <<ScopeIn(code', d)>> \o Tail(ShownScopes)
    BY <1>1, <1>3, <1>10, <1>12, <1>13, HeadShown
  <1>15. ShownScopes # <<>> /\ Head(ShownScopes) = ScopeIn(code, Ctx)
    BY <1>1, <1>3, ShownParts
  <1>16. ShownScopes' = <<Scopes!Settle(Head(ShownScopes))>> \o Tail(ShownScopes)
    BY <1>8, <1>13, <1>14, <1>15
  <1> QED
    BY <1>3, <1>9, <1>12, <1>15, <1>16, IsSettle

LEMMA QuietMeans ==
    ASSUME IInv, RInv, stack # <<>>, UNCHANGED <<global, code, made>>, NEW c \in Context, Become(c),
           c.deque_jd = Ctx.deque_jd, c.base_jd = Ctx.base_jd, c.unit_symbols = Ctx.unit_symbols
    PROVE  RInv' /\ UNCHANGED Scopes!absVars
  <1>1. /\ DOMAIN stack' = DOMAIN stack /\ 1 \in DOMAIN stack /\ Ctx = stack[1]
        /\ stack'[1] = c /\ \A i \in DOMAIN stack : i # 1 => stack'[i] = stack[i]
    BY SameReplaced, CtxParts DEF IInv, Replaced
  <1>2. RInv'
    <2>1. Based(c) /\ OneTable(c)
      BY <1>1 DEF RInv, Based, OneTable
    <2> QED
      BY <1>1, <2>1 DEF RInv, OneTable
  <1>3. ScopeIn(code, c) = ScopeIn(code, Ctx)
    <2>1. TablesIn(code, c) = TablesIn(code, Ctx)
      BY DEF TablesIn
    <2> QED
      BY <2>1 DEF ScopeIn, ScopeOf, Waiting
  <1>4. \A i \in DOMAIN stack : ScopeIn(code, stack'[i]) = ScopeIn(code, stack[i])
    BY <1>1, <1>3
  <1>5. ShownScopes' = ShownScopes /\ ShownProcess' = ShownProcess
    BY <1>1, <1>4 DEF ShownScopes, ShownProcess
  <1> QED
    BY <1>2, <1>5, IsStutter

\* A context that has just begun.
LEMMA NewShown ==
    ASSUME NEW c \in [Definition -> Module]
    PROVE  /\ Based(NewContext) /\ OneTable(NewContext)
           /\ ScopeIn(c, NewContext) = Scopes!EmptyScope /\ Scopes!EmptyScope \in AScope
  <1> DEFINE none == <<>>
  <1> DEFINE base == <<BASE>>
  <1>1. none \in Seq(Definition) /\ none \o base = base /\ none = <<>>
    OBVIOUS
  <1> HIDE DEF none
  <1>2. NewContext \in Context /\ NewContext.deque_jd = none \o base
    BY <1>1, NewContextParts
  <1>3. NewContext.base_jd = NoSymbols /\ NewContext.unit_symbols = NoSymbols
    BY NewContextParts
  <1>4. OneTable(NewContext)
    BY <1>3, NoSymbolsType DEF OneTable
  <1>5. /\ Based(NewContext) /\ ScopeIn(c, NewContext) \in AScope
        /\ ScopeIn(c, NewContext) = ScopeIs(c, none, NoSymbols, NoSymbols)
    BY <1>1, <1>2, <1>3, BasedParts
  <1>6. ScopeIn(c, NewContext) = Scopes!EmptyScope
    BY <1>1, <1>5, NewMeans
  <1> QED
    BY <1>4, <1>5, <1>6

LEMMA ImportBeginMeans ==
    ASSUME IInv, RInv, ImportBegin
    PROVE  RInv' /\ Scopes!AbsEnter
  <1> DEFINE e == Scopes!EmptyScope
  <1> DEFINE u == <<e>> \o ShownScopes
  <1> DEFINE v == ShownScopes'
  <1>1. /\ stack # <<>> /\ UNCHANGED <<global, code, made, ended, removed>>
        /\ 1 \in DOMAIN stack' /\ stack'[1] = NewContext
        /\ \A i \in DOMAIN stack' : i # 1 => i - 1 \in DOMAIN stack /\ stack'[i] = stack[i - 1]
        /\ stack' = <<NewContext>> \o stack
        /\ TypeOK /\ TypeOK'
    BY ImportBeginParts DEF IInv
  <1>2. /\ code \in [Definition -> Module] /\ stack \in Seq(Context)
        /\ Len(stack) \in Nat /\ DOMAIN stack = 1 .. Len(stack)
    BY <1>1, StackParts DEF TypeOK
  <1>3. Based(NewContext) /\ OneTable(NewContext) /\ ScopeIn(code, NewContext) = e /\ e \in AScope
    BY <1>2, NewShown
  <1>4. RInv'
    BY <1>1, <1>3 DEF RInv, OneTable
  <1>5. /\ ShownScopes \in Seq(AScope) /\ ShownScopes # <<>> /\ Len(ShownScopes) = Len(stack)
    BY <1>1, ShownParts
  <1>6. \A i \in DOMAIN stack : ShownScopes[i] = ScopeIn(code, stack[i])
    BY DEF ShownScopes
  <1>7. DOMAIN stack' = 1 .. Len(stack) + 1
    <2> DEFINE n == NewContext
    <2>1. n \in Context
      BY NewContextParts
    <2>2. stack' = <<n>> \o stack
      BY <1>1
    <2> HIDE DEF n
    <2>3. DOMAIN (<<n>> \o stack) = 1 .. Len(stack) + 1
      BY <1>2, <2>1, Before
    <2> QED
      BY <2>2, <2>3
  <1>8. v = [i \in 1 .. Len(stack) + 1 |-> ScopeIn(code, stack'[i])]
    BY <1>1, <1>7 DEF ShownScopes
  <1> HIDE DEF e, v
  <1>9. /\ u \in Seq(AScope) /\ Len(u) = Len(stack) + 1 /\ DOMAIN u = 1 .. Len(stack) + 1 /\ u[1] = e
        /\ \A i \in DOMAIN u : i # 1 => u[i] = ShownScopes[i - 1]
    <2> DEFINE s == ShownScopes
    <2>1. s \in Seq(AScope) /\ Len(s) = Len(stack)
      BY <1>5
    <2> HIDE DEF s
    <2>2. /\ <<e>> \o s \in Seq(AScope) /\ Len(<<e>> \o s) = Len(s) + 1
          /\ DOMAIN (<<e>> \o s) = 1 .. Len(s) + 1 /\ (<<e>> \o s)[1] = e
          /\ \A i \in DOMAIN (<<e>> \o s) : i # 1 => (<<e>> \o s)[i] = s[i - 1]
      BY <1>3, <2>1, Before
    <2> QED
      BY <2>1, <2>2 DEF s
  <1> HIDE DEF u
  <1>10. \A i \in 1 .. Len(stack) + 1 : v[i] = u[i]
    <2> TAKE i \in 1 .. Len(stack) + 1
    <2>1. CASE i = 1
      BY <1>1, <1>3, <1>8, <1>9, <2>1
    <2>2. CASE i # 1
      <3>1. i - 1 \in DOMAIN stack /\ stack'[i] = stack[i - 1]
        BY <1>1, <1>7, <2>2
      <3> QED
        BY <1>6, <1>8, <1>9, <2>2, <3>1
    <2> QED
      BY <2>1, <2>2
  <1>11. v \in Seq(AScope) /\ Len(v) = Len(stack) + 1
    <2>1. \A i \in 1 .. Len(stack) + 1 : u[i] \in AScope
      BY <1>9, ElementOfSeq
    <2>2. v \in [1 .. Len(stack) + 1 -> AScope] /\ Len(stack) + 1 \in Nat
      BY <1>2, <1>8, <1>10, <2>1
    <2> QED
      BY <2>2, SeqDef, LenProperties
  <1>12. v = u
    BY <1>9, <1>10, <1>11, SeqEqual
  <1>13. ShownScopes' = <<Scopes!EmptyScope>> \o ShownScopes
    BY <1>12 DEF u, v, e
  <1>14. ShownProcess' = ShownProcess
    BY <1>1 DEF ShownProcess
  <1> QED
    BY <1>1, <1>4, <1>5, <1>13, <1>14, IsEnter

\* The innermost context ends; the tables of the process stay.
LEMMA TailMeans ==
    ASSUME IInv, RInv, TypeOK', stack # <<>>, stack' = Tail(stack), UNCHANGED <<code, made>>,
           global'.deque_jd = global.deque_jd, global'.base_jd = global.base_jd,
           global'.unit_symbols = global.unit_symbols
    PROVE  RInv' /\ Scopes!AbsLeave
  <1> DEFINE t == Tail(ShownScopes)
  <1> DEFINE v == ShownScopes'
  <1>1. /\ TypeOK /\ stack' \in Seq(Context) /\ Len(stack') = Len(stack) - 1
        /\ \A i \in DOMAIN stack' :
              i + 1 \in DOMAIN stack /\ stack'[i] = stack[i + 1] /\ i \in Nat
    BY TailParts DEF IInv
  <1>2. /\ Len(stack) \in Nat /\ Len(stack) > 0 /\ DOMAIN stack' = 1 .. Len(stack')
        /\ Len(stack') \in Nat
    BY <1>1, StackParts, LenProperties
  <1>3. RInv'
    BY <1>1 DEF RInv, OneTable
  <1>4. /\ ShownScopes \in Seq(AScope) /\ ShownScopes # <<>> /\ Len(ShownScopes) = Len(stack)
    BY <1>1, ShownParts
  <1>5. \A i \in DOMAIN stack : ShownScopes[i] = ScopeIn(code, stack[i])
    BY DEF ShownScopes
  <1>6. v = [i \in 1 .. Len(stack') |-> ScopeIn(code, stack'[i])]
    BY <1>2 DEF ShownScopes
  <1> HIDE DEF v
  <1>7. /\ t \in Seq(AScope) /\ Len(t) = Len(stack')
        /\ \A i \in 1 .. Len(t) : t[i] = ShownScopes[i + 1]
    <2>1. /\ t \in Seq(AScope) /\ Len(t) = Len(ShownScopes) - 1
          /\ \A i \in 1 .. Len(t) : t[i] = ShownScopes[i + 1]
      BY <1>4, HeadTailProperties
    <2> QED
      BY <1>1, <1>4, <2>1
  <1> HIDE DEF t
  <1>8. \A i \in 1 .. Len(stack') : v[i] = t[i]
    <2> TAKE i \in 1 .. Len(stack')
    <2>1. i + 1 \in DOMAIN stack /\ stack'[i] = stack[i + 1]
      BY <1>1, <1>2
    <2> QED
      BY <1>5, <1>6, <1>7, <2>1
  <1>9. v \in Seq(AScope) /\ Len(v) = Len(stack')
    <2>1. \A i \in 1 .. Len(stack') : t[i] \in AScope
      BY <1>7, ElementOfSeq
    <2>2. v \in [1 .. Len(stack') -> AScope]
      BY <1>6, <1>8, <2>1
    <2> QED
      BY <1>2, <2>2, SeqDef, LenProperties
  <1>10. v = t
    BY <1>7, <1>8, <1>9, SeqEqual
  <1>11. ShownScopes' = Tail(ShownScopes)
    BY <1>10 DEF t, v
  <1>12. ShownProcess' = ShownProcess
    BY DEF ShownProcess, ProcessIn, ScopeOf, Waiting, TablesIn
  <1> QED
    BY <1>3, <1>4, <1>11, <1>12, IsLeave

LEMMA RInit == Init => RInv /\ Scopes!AbsInit
  <1> SUFFICES ASSUME Init PROVE RInv /\ Scopes!AbsInit
    OBVIOUS
  <1> DEFINE b == [n \in Names |-> IF n \in External THEN TheExecutable ELSE None]
  <1>1. /\ stack = <<NewContext>> /\ made = 0
        /\ global.base_jd = b /\ global.unit_symbols = NoSymbols /\ global.deque_jd = <<>>
    BY DEF Init
  <1>2. /\ TypeOK /\ code \in [Definition -> Module] /\ global \in Global
    BY InitType DEF TypeOK
  <1>3. DOMAIN stack = {1} /\ stack[1] = NewContext
    BY <1>1
  <1>4. RInv
    <2>1. OneTable(global)
      BY <1>1, NoSymbolsType DEF OneTable
    <2> QED
      BY <1>2, <1>3, <2>1, NewShown DEF RInv
  <1>5. ShownScopes = <<Scopes!EmptyScope>>
    BY <1>2, <1>3, NewShown DEF ShownScopes
  <1>6. ShownProcess = [Scopes!EmptyScope EXCEPT !.meaning =
            [n \in Names |-> IF n \in External THEN Scopes!TheExecutable ELSE Scopes!Undefined]]
    <2> DEFINE s == global.deque_jd
    <2>1. \A n \in Names : First(code, s, n) = None
      <3>1. Plain(code, s) = <<>>
        BY <1>1 DEF Plain
      <3> QED
        BY <3>1, FoundNone DEF First
    <2>2. ShownProcess = ScopeIs(code, s, global.base_jd, NoSymbols)
      BY <1>1, <1>2, ProcessShown DEF ShownProcess
    <2>3. ShownProcess.meaning = [n \in Names |-> global.base_jd[n]]
      BY <2>1, <2>2 DEF ScopeIs
    <2>4. ShownProcess.waiting = Scopes!NoNames
      BY <2>1, <2>2 DEF ScopeIs, NoSymbols, Scopes!NoNames, Scopes!Undefined, None
    <2>5. ShownProcess.meaning =
            [n \in Names |-> IF n \in External THEN Scopes!TheExecutable ELSE Scopes!Undefined]
      BY <1>1, <2>3 DEF TheExecutable, None, Scopes!TheExecutable, Scopes!Undefined
    <2> QED
      BY <2>2, <2>4, <2>5 DEF ScopeIs, Scopes!EmptyScope
  <1>7. MappedScopes = ShownScopes /\ MappedProcess = ShownProcess
    BY Shown
  <1> QED
    BY <1>1, <1>4, <1>5, <1>6, <1>7 DEF Scopes!AbsInit, MappedScopes, MappedProcess

\* Every step is one on scopes, or none.
LEMMA RStep == IInv /\ RInv /\ [Next]_vars => RInv' /\ [Scopes!AbsNext]_Scopes!absVars
  <1> SUFFICES ASSUME IInv, RInv, [Next]_vars
               PROVE  RInv' /\ [Scopes!AbsNext]_Scopes!absVars
    OBVIOUS
  <1> USE DEF Scopes!AbsNext
  <1>1. TypeOK
    BY DEF IInv
  <1>2. CASE UNCHANGED vars
    <2>1. ShownScopes' = ShownScopes /\ ShownProcess' = ShownProcess /\ made' = made
      BY <1>2 DEF vars, ShownScopes, ShownProcess
    <2>2. RInv'
      BY <1>2 DEF vars, RInv, OneTable
    <2> QED
      BY <2>1, <2>2, IsStutter
  <1>3. ASSUME NEW refs \in SUBSET Names, RunUnit(refs)
        PROVE  RInv' /\ UNCHANGED Scopes!absVars
    BY <1>1, <1>3, RunUnitParts, QuietMeans
  <1>4. ASSUME NEW defs \in SUBSET Names, NEW refs \in SUBSET Names,
               LoadLocal(defs, refs) \/ LoadExported(defs, refs)
        PROVE  RInv' /\ Scopes!AbsLoad
    BY <1>4, LoadLocalMeans, LoadExportedMeans
  <1>5. ASSUME NEW n \in Names, AddSymbol(n) \/ ExportSymbol(n)
        PROVE  RInv' /\ Scopes!AbsGive
    BY <1>5, AddSymbolMeans, ExportSymbolMeans
  <1>6. CASE FlushUnitSymbols \/ FinishUnit
    BY <1>6, FlushSettles
  <1>7. ASSUME push_variables
        PROVE  RInv' /\ UNCHANGED Scopes!absVars
    <2> DEFINE d == PushedIn(Ctx)
    <2>1. stack # <<>> /\ UNCHANGED <<global, code, made>> /\ d \in Context /\ Become(d)
      BY <1>1, <1>7, PushParts
    <2>2. d.deque_jd = Ctx.deque_jd /\ d.base_jd = Ctx.base_jd /\ d.unit_symbols = Ctx.unit_symbols
      BY <1>1, <2>1, CtxParts, PushedParts
    <2> HIDE DEF d
    <2> QED
      BY <2>1, <2>2, QuietMeans
  <1>8. ASSUME NEW held \in BOOLEAN, pop_variables(held)
        PROVE  RInv' /\ UNCHANGED Scopes!absVars
    <2> DEFINE d == PoppedIn(Ctx, held)
    <2>1. /\ stack # <<>> /\ UNCHANGED <<global, code, made>> /\ d \in Context /\ Become(d)
          /\ Len(Ctx.cleaners) > 1
      BY <1>1, <1>8, PopParts
    <2>2. d.deque_jd = Ctx.deque_jd /\ d.base_jd = Ctx.base_jd /\ d.unit_symbols = Ctx.unit_symbols
      BY <1>1, <2>1, CtxParts, PoppedParts
    <2> HIDE DEF d
    <2> QED
      BY <2>1, <2>2, QuietMeans
  <1>9. CASE ImportBegin
    BY <1>9, ImportBeginMeans
  <1>10. ASSUME ImportEnd
         PROVE  RInv' /\ Scopes!AbsLeave
    <2>1. /\ stack # <<>> /\ UNCHANGED <<global, code, made>> /\ stack' = Tail(stack) /\ TypeOK'
      BY <1>1, <1>10, ImportEndParts
    <2> QED
      BY <2>1, TailMeans
  <1>11. ASSUME Terminate
         PROVE  RInv' /\ Scopes!AbsLeave
    <2>1. /\ stack # <<>> /\ stack' = <<>> /\ UNCHANGED <<code, made>> /\ DOMAIN stack = {1}
          /\ global'.deque_jd = global.deque_jd /\ global'.base_jd = global.base_jd
          /\ global'.unit_symbols = global.unit_symbols /\ TypeOK'
      BY <1>1, <1>11, TerminateParts
    <2>2. Tail(stack) = <<>>
      <3>1. stack \in Seq(Context) /\ Len(stack) \in Nat /\ DOMAIN stack = 1 .. Len(stack)
        BY <1>1, StackParts
      <3>2. Len(stack) = 1
        BY <2>1, <3>1
      <3>3. Tail(stack) \in Seq(Context) /\ Len(Tail(stack)) = 0
        BY <2>1, <3>1, <3>2, HeadTailProperties
      <3> QED
        BY <3>3, EmptySeq
    <2> QED
      BY <2>1, <2>2, TailMeans
  <1>12. Next => RInv' /\ [Scopes!AbsNext]_Scopes!absVars
    BY <1>3, <1>4, <1>5, <1>6, <1>7, <1>8, <1>9, <1>10, <1>11, Steps
  <1> QED
    BY <1>2, <1>12

(***************************************************************************)
(* A name means to a program what SymbolScopes says (find_symbol_value,     *)
(* setup_link_order, add_symbol_value, flush_unit_symbols_helper): the      *)
(* newest code wins, a value never replaces a definition, what an import    *)
(* defines for itself ends with it.                                         *)
(***************************************************************************)
THEOREM ImplementsScopes == Spec => Meant
  <1>1. Init => RInv /\ Scopes!AbsInit
    BY RInit
  <1>2. IInv /\ RInv /\ [Next]_vars => RInv' /\ [Scopes!AbsNext]_Scopes!absVars
    BY RStep
  <1> QED
    BY <1>1, <1>2, Invariant, PTL DEF Spec, Meant, Scopes!AbsSpec
=============================================================================
